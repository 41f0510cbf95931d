------------------------- MODULE CoexProfilesProofs -------------------------
(***************************************************************************)
(* Proofs about CoexProfiles, for any number of connections, channel       *)
(* numbers, packets and signals on their way: the counters agree with the  *)
(* list as long as nothing overtakes the signals of the host.  (For what   *)
(* holds in any case see CoexMapsProofs.)                                  *)
(*                                                                         *)
(* First the counting; then, for each handler of rtk_parse.c, that it      *)
(* keeps Balanced (bitmaps, counters, totals, timers) and Sound (the       *)
(* counters and the list); then Protocol, which says what the list knows   *)
(* of the channels whose signals are parsed in order, so that a handler    *)
(* always finds the right entry; then the invariant.                       *)
(***************************************************************************)
EXTENDS CoexMapsProofs

-----------------------------------------------------------------------------
(* Counting.                                                               *)

ConnRec == [type : {"none", "acl", "sco", "le"}, map : SUBSET Profiles, ref : [Profiles -> Nat]]

\* The counts of all connections together are a finite set.
LEMMA CountsFinite ==
  ASSUME NEW conn \in [Handles -> ConnRec], NEW p \in Profiles
  PROVE  /\ IsFiniteSet(Counts(conn, p))
         /\ Cardinality(Counts(conn, p)) \in Nat
<1> DEFINE R(h) == {h} \X (1..conn[h].ref[p])
           S == {R(h) : h \in Handles}
           f == [h \in Handles |-> R(h)]
<1>1. \A h \in Handles : conn[h].ref[p] \in Nat BY DEF ConnRec
<1>2. ASSUME NEW h \in Handles PROVE IsFiniteSet(R(h))
  <2>1. IsFiniteSet(1..conn[h].ref[p]) BY <1>1, FS_Interval
  <2>2. IsFiniteSet({h}) BY FS_Singleton
  <2> QED BY <2>1, <2>2, FS_Product
<1> HIDE DEF R
<1>3. f \in Surjection(Handles, S) BY DEF Surjection
<1>4. IsFiniteSet(S) BY <1>3, HandlesAssumption, FS_Surjection
<1>5. IsFiniteSet(UNION S) BY <1>2, <1>4, FS_UNION
<1>6. Counts(conn, p) = UNION S BY DEF Counts, R
<1> QED BY <1>5, <1>6, FS_CardinalityType

\* What is in Counts: connection h, counted for the k-th time.
LEMMA InCounts ==
  ASSUME NEW conn \in [Handles -> ConnRec], NEW p \in Profiles, NEW x
  PROVE  x \in Counts(conn, p) <=> \E h \in Handles : \E k \in 1..conn[h].ref[p] : x = <<h, k>>
BY DEF Counts

\* One connection counts k more, the total is k more.
LEMMA CountsChange ==
  ASSUME NEW conn \in [Handles -> ConnRec], NEW conn2 \in [Handles -> ConnRec],
         NEW p \in Profiles, NEW h \in Handles, NEW k \in Nat,
         conn2[h].ref[p] = conn[h].ref[p] + k,
         \A x \in Handles \ {h} : conn2[x].ref[p] = conn[x].ref[p]
  PROVE  Cardinality(Counts(conn2, p)) = Cardinality(Counts(conn, p)) + k
<1> PICK n \in Nat : n = conn[h].ref[p] BY DEF ConnRec
<1> DEFINE New == {h} \X ((n + 1)..(n + k))
<1>1. IsFiniteSet(New) /\ Cardinality(New) = k
  <2> DEFINE a == n + 1
             b == n + k
  <2>0. a \in Int /\ b \in Int /\ a - b = 1 - k OBVIOUS
  <2> HIDE DEF a, b
  <2>1. IsFiniteSet(a..b) /\ Cardinality(a..b) = IF a > b THEN 0 ELSE b - a + 1 BY ONLY <2>0, FS_Interval
  <2>1a. Cardinality(a..b) = k BY <2>0, <2>1
  <2>2. IsFiniteSet({h}) /\ Cardinality({h}) = 1 BY FS_Singleton
  <2> DEFINE I == a..b
             H == {h}
  <2>3. New = H \X I BY DEF a, b
  <2> HIDE DEF I, H, New
  <2>4. IsFiniteSet(I) /\ Cardinality(I) = k /\ IsFiniteSet(H) /\ Cardinality(H) = 1
    BY <2>1, <2>1a, <2>2 DEF I, H
  <2>5. IsFiniteSet(H \X I) /\ Cardinality(H \X I) = Cardinality(H) * Cardinality(I)
    BY ONLY <2>4, FS_Product
  <2>6. 1 * k = k OBVIOUS
  <2> QED BY ONLY <2>3, <2>4, <2>5, <2>6
<1>2. \A j \in Int : j \in 1..(n + k) <=> j \in 1..n \/ j \in (n + 1)..(n + k) OBVIOUS
<1>3. Counts(conn2, p) = Counts(conn, p) \cup New
  <2>1. ASSUME NEW x \in Counts(conn2, p) PROVE x \in Counts(conn, p) \cup New
    <3>1a. PICK y \in Handles : \E j \in 1..conn2[y].ref[p] : x = <<y, j>> BY InCounts
    <3>1. PICK j \in 1..conn2[y].ref[p] : x = <<y, j>> BY <3>1a
    <3>2. CASE y = h
      <4>1. j \in Int /\ (j \in 1..n \/ j \in (n+1)..(n+k)) BY <3>1, <3>2, <1>2
      <4> QED BY <3>1, <3>2, <4>1, InCounts
    <3>3. CASE y # h BY <3>1, <3>3, InCounts
    <3> QED BY <3>2, <3>3
  <2>2. ASSUME NEW x \in Counts(conn, p) PROVE x \in Counts(conn2, p)
    <3>1a. PICK y \in Handles : \E j \in 1..conn[y].ref[p] : x = <<y, j>> BY InCounts
    <3>1. PICK j \in 1..conn[y].ref[p] : x = <<y, j>> BY <3>1a
    <3>2. j \in 1..conn2[y].ref[p]
      <4>1. CASE y = h BY <3>1, <4>1, <1>2
      <4>2. CASE y # h BY <3>1, <4>2
      <4> QED BY <4>1, <4>2
    <3> QED BY <3>1, <3>2, InCounts
  <2>3. ASSUME NEW x \in New PROVE x \in Counts(conn2, p)
    <3>1. PICK j \in (n+1)..(n+k) : x = <<h, j>> OBVIOUS
    <3>2. j \in 1..conn2[h].ref[p] BY <1>2
    <3> QED BY <3>1, <3>2, InCounts
  <2> QED BY <2>1, <2>2, <2>3
<1>4. Counts(conn, p) \cap New = {}
  <2> SUFFICES ASSUME NEW x \in Counts(conn, p), x \in New PROVE FALSE OBVIOUS
  <2>1a. PICK y \in Handles : \E j \in 1..conn[y].ref[p] : x = <<y, j>> BY InCounts
  <2>1. PICK j \in 1..conn[y].ref[p] : x = <<y, j>> BY <2>1a
  <2>2. PICK i \in (n+1)..(n+k) : x = <<h, i>> OBVIOUS
  <2>3. y = h /\ j = i BY <2>1, <2>2
  <2> QED BY <2>1, <2>2, <2>3
<1> HIDE DEF New
<1>5. IsFiniteSet(Counts(conn, p)) /\ Cardinality(Counts(conn, p)) \in Nat BY CountsFinite
<1>6. Cardinality({}) = 0 BY FS_EmptySet
<1> DEFINE C == Counts(conn, p)
<1> HIDE DEF C
<1>7. Cardinality(C \cup New) = Cardinality(C) + Cardinality(New) - Cardinality(C \cap New)
  BY ONLY <1>1, <1>5, FS_Union DEF C
<1>8. C \cap New = {} /\ Counts(conn2, p) = C \cup New /\ Cardinality(C) \in Nat BY <1>3, <1>4, <1>5 DEF C
<1>9. Cardinality(C \cup New) = Cardinality(C) + k - 0 BY ONLY <1>1, <1>6, <1>7, <1>8
<1> QED BY ONLY <1>8, <1>9 DEF C

\* A connection counts at most the total.
LEMMA CountsAtLeast ==
  ASSUME NEW conn \in [Handles -> ConnRec], NEW p \in Profiles, NEW h \in Handles
  PROVE  conn[h].ref[p] <= Cardinality(Counts(conn, p))
<1> DEFINE n == conn[h].ref[p]
           c0 == [conn EXCEPT ![h] = NoConn]
<1>1. n \in Nat BY DEF ConnRec
<1>2. c0 \in [Handles -> ConnRec] /\ c0[h].ref[p] = 0 /\ \A x \in Handles \ {h} : c0[x] = conn[x]
  BY DEF ConnRec, NoConn, Profiles
<1> HIDE DEF c0
<1>3. Cardinality(Counts(conn, p)) = Cardinality(Counts(c0, p)) + n BY <1>1, <1>2, CountsChange
<1>4. Cardinality(Counts(c0, p)) \in Nat BY <1>2, CountsFinite
<1> QED BY <1>1, <1>3, <1>4

-----------------------------------------------------------------------------
(* Positions of the established channels.                                  *)

\* What is left after some entries are gone, for each connection and profile.
LEMMA WithoutPositions ==
  ASSUME NEW l \in Seq(Entry), NEW gone, NEW h, NEW p
  PROVE  Cardinality(Positions(Without(l, gone), h, p)) = Cardinality(Positions(l, h, p) \ gone)
<1> DEFINE w == Without(l, gone)
           stay == (1..Len(l)) \ gone
           A == Positions(w, h, p)
           B == Positions(l, h, p) \ gone
<1> HIDE DEF w
<1>1. w \in Seq(Entry) /\ Moved(l, gone, w) BY WithoutMoves DEF w
<1>2. PICK f \in [1..Len(w) -> (1..Len(l)) \ gone] :
             /\ \A k \in 1..Len(w) : w[k] = l[f[k]]
             /\ \A a, b \in 1..Len(w) : f[a] = f[b] => a = b
             /\ \A i \in (1..Len(l)) \ gone : \E k \in 1..Len(w) : f[k] = i
  BY <1>1 DEF Moved
<1>3. /\ f \in [1..Len(w) -> stay]
      /\ \A a, b \in 1..Len(w) : f[a] = f[b] => a = b
      /\ \A i \in stay : \E k \in 1..Len(w) : f[k] = i
  BY <1>2
<1> DEFINE F == [k \in A |-> f[k]]
<1>4. F \in [A -> B] BY <1>2, <1>3 DEF Positions
<1>5. \A a, b \in A : F[a] = F[b] => a = b BY <1>3 DEF Positions
<1>6. \A i \in B : \E k \in A : F[k] = i
  <2> TAKE i \in B
  <2>1. i \in stay BY DEF Positions
  <2>2. PICK k \in 1..Len(w) : f[k] = i BY <2>1, <1>3
  <2>3. w[k] = l[i] BY <2>2, <1>2
  <2>4. k \in A BY <2>3 DEF Positions
  <2> QED BY <2>2, <2>4
<1> HIDE DEF A, B, F
<1>7. F \in Bijection(A, B) BY <1>4, <1>5, <1>6 DEF Bijection, Injection, Surjection, IsInjective
<1>8. IsFiniteSet(A) BY <1>1, PositionsFinite DEF A
<1>9. Cardinality(B) = Cardinality(A) BY <1>7, <1>8, FS_Bijection DEF ExistsBijection
<1> QED BY <1>9 DEF A, B, w
-----------------------------------------------------------------------------
(* rtk_prof, and what its helpers do to each part of it.                   *)

ProfRec == [conn : [Handles -> ConnRec], list : Seq(Entry), ref : [Profiles -> Nat],
            map : SUBSET Profiles, status : SUBSET Profiles, timers : SUBSET Timers,
            count : [Timers -> Nat]]

\* What add_profile changes.
Added(g, h, p, a) ==
  /\ a \in ProfRec
  /\ a.list = g.list
  /\ \A q \in Profiles : a.ref[q] = IF q = p THEN g.ref[q] + 1 ELSE g.ref[q]
  /\ a.map = IF g.ref[p] = 0 THEN g.map \cup {p} ELSE g.map
  /\ a.timers = IF g.ref[p] = 0 /\ p \in Timers THEN g.timers \cup {p} ELSE g.timers
  /\ \A x \in Handles \ {h} : a.conn[x] = g.conn[x]
  /\ a.conn[h].type = g.conn[h].type
  /\ a.conn[h].map = IF g.conn[h].ref[p] = 0 THEN g.conn[h].map \cup {p} ELSE g.conn[h].map
  /\ \A q \in Profiles : a.conn[h].ref[q] = IF q = p THEN g.conn[h].ref[q] + 1 ELSE g.conn[h].ref[q]

\* update_profile_connection(..., TRUE) changes this and nothing else.
LEMMA AddFields ==
  ASSUME NEW g \in ProfRec, NEW h \in Handles, NEW p \in Profiles
  PROVE  Added(g, h, p, add_profile(g, h, p))
<1> DEFINE a == add_profile(g, h, p)
<1> DEFINE first == g.ref[p] = 0
           g0 == [g EXCEPT !.map = @ \cup {p}, !.status = IF p = "sco" THEN @ \cup {p} ELSE @]
           g1 == IF first THEN setup_timer(g0, p) ELSE g
<1>1. /\ g0 \in ProfRec /\ g0.list = g.list /\ g0.conn = g.conn /\ g0.ref = g.ref
      /\ g0.map = g.map \cup {p} /\ g0.timers = g.timers
  BY DEF ProfRec
<1> HIDE DEF g0
<1>2. /\ g1 \in ProfRec /\ g1.list = g.list /\ g1.conn = g.conn /\ g1.ref = g.ref
      /\ g1.map = IF first THEN g.map \cup {p} ELSE g.map
      /\ g1.timers = IF first /\ p \in Timers THEN g.timers \cup {p} ELSE g.timers
  <2>1. CASE first /\ p \in Timers BY <1>1, <2>1 DEF ProfRec, setup_timer
  <2>2. CASE first /\ p \notin Timers BY <1>1, <2>2 DEF ProfRec, setup_timer
  <2>3. CASE ~first BY <2>3 DEF ProfRec
  <2> QED BY <2>1, <2>2, <2>3
<1>3. a = [g1 EXCEPT !.ref[p] = @ + 1, !.conn[h] = conn_add(@, p)]
  BY DEF add_profile, g0
<1> HIDE DEF g1, first, a
<1> DEFINE m == IF g.conn[h].ref[p] = 0 THEN g.conn[h].map \cup {p} ELSE g.conn[h].map
           r == [g.conn[h].ref EXCEPT ![p] = @ + 1]
<1>4. g.conn[h] \in ConnRec /\ m \in SUBSET Profiles /\ r \in [Profiles -> Nat] /\ g.ref \in [Profiles -> Nat]
  BY DEF ProfRec, ConnRec
<1> DEFINE R == [g.ref EXCEPT ![p] = @ + 1]
           c == [g.conn[h] EXCEPT !.map = m, !.ref = r]
           C == [g.conn EXCEPT ![h] = c]
<1>5. a = [g1 EXCEPT !.ref = R, !.conn = C]
  <2>1. g1.conn[h] = g.conn[h] /\ g1.ref = g.ref /\ g1.conn = g.conn BY <1>2
  <2>2. conn_add(g1.conn[h], p) = c BY <2>1, <1>4 DEF ConnRec, conn_add
  <2> HIDE DEF c
  <2> QED BY <1>3, <2>1, <2>2
<1> HIDE DEF m, r
<1>6. c \in ConnRec BY <1>4 DEF ConnRec
<1>6a. R \in [Profiles -> Nat] /\ C \in [Handles -> ConnRec] BY <1>4, <1>6 DEF ProfRec
<1> HIDE DEF R, C
<1>6b. /\ a \in ProfRec /\ a.list = g.list /\ a.map = g1.map /\ a.timers = g1.timers
       /\ a.ref = R /\ a.conn = C
  BY <1>2, <1>5, <1>6a DEF ProfRec
<1>7. /\ a \in ProfRec /\ a.list = g.list /\ a.map = g1.map /\ a.timers = g1.timers
      /\ a.ref = [g.ref EXCEPT ![p] = @ + 1]
      /\ a.conn = [g.conn EXCEPT ![h] = [g.conn[h] EXCEPT !.map = m, !.ref = r]]
  BY <1>6b DEF R, C
<1>8. a.conn[h] = [g.conn[h] EXCEPT !.map = m, !.ref = r] /\ \A x \in Handles \ {h} : a.conn[x] = g.conn[x]
  BY <1>7 DEF ProfRec
<1>9. a.conn[h].type = g.conn[h].type /\ a.conn[h].map = m /\ a.conn[h].ref = r
  BY <1>4, <1>8 DEF ConnRec
<1>10. \A q \in Profiles : a.ref[q] = IF q = p THEN g.ref[q] + 1 ELSE g.ref[q]
  BY <1>4, <1>7
<1>11. \A q \in Profiles : a.conn[h].ref[q] = IF q = p THEN g.conn[h].ref[q] + 1 ELSE g.conn[h].ref[q]
  BY <1>4, <1>9 DEF r, ConnRec
<1>12. Added(g, h, p, a) BY <1>2, <1>7, <1>8, <1>9, <1>10, <1>11 DEF Added, first, m
<1> QED BY <1>12 DEF a

\* What remove_profiles changes.
Hushed(g, h, n) == g.conn[h].ref["hid"] \in 1..n["hid"] /\ "hid_interval" \in g.conn[h].map
Removed(g, h, n, a) ==
  /\ a \in ProfRec
  /\ a.list = g.list
  /\ \A q \in Profiles : a.ref[q] = IF q = "hid_interval" /\ Hushed(g, h, n) THEN g.ref[q] - 1 ELSE g.ref[q] - n[q]
  /\ a.map = g.map \ {p \in Profiles : g.ref[p] \in 1..n[p]}
  /\ a.timers = g.timers \ {p \in Profiles : g.ref[p] \in 1..n[p]}
  /\ \A x \in Handles \ {h} : a.conn[x] = g.conn[x]
  /\ a.conn[h].type = g.conn[h].type
  /\ \A q \in Profiles : q \in a.conn[h].map <=>
       /\ q \in g.conn[h].map
       /\ ~(g.conn[h].ref[q] \in 1..n[q])
       /\ ~(q = "hid_interval" /\ Hushed(g, h, n))
  /\ \A q \in Profiles : a.conn[h].ref[q] = g.conn[h].ref[q] - n[q]

\* update_profile_connection(..., FALSE) changes this and nothing else, when no count is below n.
LEMMA RemoveFields ==
  ASSUME NEW g \in ProfRec, NEW h \in Handles, NEW n \in [Profiles -> Nat],
         \A p \in Profiles : n[p] <= g.ref[p] /\ n[p] <= g.conn[h].ref[p],
         n["hid_interval"] = 0, "hid_interval" \in g.conn[h].map => g.ref["hid_interval"] > 0
  PROVE  Removed(g, h, n, remove_profiles(g, h, n))
<1> DEFINE a == remove_profiles(g, h, n)
           active == Hushed(g, h, n)
<1> DEFINE over == {p \in Profiles : g.ref[p] \in 1..n[p]}
           left == {p \in Profiles : g.conn[h].ref[p] \in 1..n[p]}
           gone == IF "hid" \in left THEN {"hid_interval"} \cap (g.conn[h].map \ left) ELSE {}
           r == [p \in Profiles |-> g.ref[p] - n[p] - IF p \in gone THEN 1 ELSE 0]
           cr == [p \in Profiles |-> g.conn[h].ref[p] - n[p]]
           cm == (g.conn[h].map \ left) \ gone
           g1 == [g EXCEPT !.ref = r, !.map = @ \ over, !.status = @ \ over,
                           !.conn = [g.conn EXCEPT ![h] = [g.conn[h] EXCEPT !.ref = cr, !.map = cm]]]
<1>0. /\ g.conn[h] \in ConnRec /\ g.ref \in [Profiles -> Nat] /\ g.conn[h].ref \in [Profiles -> Nat]
      /\ g.conn[h].map \in SUBSET Profiles /\ "hid" \in Profiles /\ "hid_interval" \in Profiles
  BY DEF ProfRec, ConnRec, Profiles
<1>1. "hid_interval" \notin left BY <1>0
<1>2. \A p \in Profiles : p \in gone <=> p = "hid_interval" /\ active BY <1>0, <1>1 DEF Hushed
<1>3. r \in [Profiles -> Nat] /\ \A p \in Profiles : r[p] = IF p = "hid_interval" /\ active THEN g.ref[p] - 1 ELSE g.ref[p] - n[p]
  <2>1. ASSUME NEW p \in Profiles
        PROVE  r[p] \in Nat /\ r[p] = IF p = "hid_interval" /\ active THEN g.ref[p] - 1 ELSE g.ref[p] - n[p]
    <3>1. CASE p = "hid_interval" /\ active
      <4>1. p \in gone /\ g.ref[p] > 0 /\ n[p] = 0 BY <3>1, <1>2 DEF Hushed
      <4>2. r[p] = g.ref[p] - n[p] - 1 BY <4>1
      <4> QED BY <4>1, <4>2, <1>0, <3>1
    <3>2. CASE ~(p = "hid_interval" /\ active)
      <4>1. p \notin gone BY <3>2, <1>2
      <4>2. r[p] = g.ref[p] - n[p] - 0 BY <4>1
      <4> QED BY <4>1, <4>2, <1>0, <3>2
    <3> QED BY <3>1, <3>2
  <2> QED BY <2>1
<1>4. cr \in [Profiles -> Nat] /\ cm \in SUBSET Profiles BY <1>0
<1>5. a = del_timers(g1, over)
  <2>1. g1 = [g EXCEPT !.ref = [p \in Profiles |-> @[p] - n[p] - IF p \in gone THEN 1 ELSE 0],
                          !.map = @ \ over, !.status = @ \ over,
                          !.conn[h].ref = [p \in Profiles |-> @[p] - n[p]],
                          !.conn[h].map = (@ \ left) \ gone]
    <3> HIDE DEF over, left, gone
    <3> QED BY <1>0 DEF ProfRec, ConnRec
  <2> QED BY <2>1 DEF remove_profiles
<1> HIDE DEF a, r, cr, cm
<1>6. [g.conn[h] EXCEPT !.ref = cr, !.map = cm] \in ConnRec BY <1>0, <1>4 DEF ConnRec
<1> HIDE DEF over
<1>7. /\ g1 \in ProfRec /\ g1.list = g.list /\ g1.ref = r /\ g1.map = g.map \ over /\ g1.timers = g.timers
      /\ g1.conn = [g.conn EXCEPT ![h] = [g.conn[h] EXCEPT !.ref = cr, !.map = cm]]
  BY <1>3, <1>6 DEF ProfRec
<1> HIDE DEF g1
<1> DEFINE ct == [t \in Timers |-> IF t \in over THEN 0 ELSE g1.count[t]]
<1>7a. ct \in [Timers -> Nat] BY <1>7 DEF ProfRec
<1>7b. a = [g1 EXCEPT !.timers = @ \ over, !.count = ct] BY <1>5, <1>7 DEF del_timers, ProfRec
<1> HIDE DEF ct
<1>8. /\ a \in ProfRec /\ a.list = g1.list /\ a.ref = g1.ref /\ a.map = g1.map /\ a.timers = g1.timers \ over
      /\ a.conn = g1.conn
  BY <1>7, <1>7a, <1>7b DEF ProfRec
<1>9. a.conn[h] = [g.conn[h] EXCEPT !.ref = cr, !.map = cm] /\ \A x \in Handles \ {h} : a.conn[x] = g.conn[x]
  BY <1>7, <1>8 DEF ProfRec
<1>10. a.conn[h].type = g.conn[h].type /\ a.conn[h].map = cm /\ a.conn[h].ref = cr
  BY <1>0, <1>9 DEF ConnRec
<1>11. \A q \in Profiles : q \in cm <=> q \in g.conn[h].map /\ ~(g.conn[h].ref[q] \in 1..n[q]) /\ ~(q = "hid_interval" /\ active)
  BY <1>2 DEF cm
<1>12. \A q \in Profiles : cr[q] = g.conn[h].ref[q] - n[q] BY DEF cr
<1>13. Removed(g, h, n, a) BY <1>3, <1>7, <1>8, <1>9, <1>10, <1>11, <1>12 DEF over, Removed
<1> QED BY <1>13 DEF a
-----------------------------------------------------------------------------
(* The counters, bitmaps and timers agree with each other.  This does not  *)
(* speak of the list: the steps of a handler keep it one by one.           *)

Active(conn) == {h \in Handles : "hid_interval" \in conn[h].map}

IntervalsOf(g) ==
  /\ \A h \in Handles : "hid_interval" \in g.conn[h].map => g.conn[h].ref["hid"] > 0
  /\ g.ref["hid_interval"] = Cardinality(Active(g.conn))
TotalsOf(g) ==
  /\ \A p \in Counted \ {"sink"} : g.ref[p] = Cardinality(Counts(g.conn, p))
  /\ Cardinality(Counts(g.conn, "sink")) <= g.ref["sink"]
Balanced(g) == g \in ProfRec /\ BitsOf(g) /\ IntervalsOf(g) /\ TotalsOf(g)

\* The connections with a short interval can be counted.
LEMMA ActiveFinite ==
  ASSUME NEW conn
  PROVE  IsFiniteSet(Active(conn)) /\ Cardinality(Active(conn)) \in Nat
<1>1. Active(conn) \in SUBSET Handles BY DEF Active
<1> QED BY <1>1, HandlesAssumption, FS_Subset, FS_CardinalityType

\* Counting a profile keeps bitmaps, counters, totals and timers in balance.
LEMMA AddBalanced ==
  ASSUME NEW g, Balanced(g), NEW h \in Handles, NEW p \in Counted
  PROVE  Balanced(add_profile(g, h, p))
<1> DEFINE a == add_profile(g, h, p)
<1> HIDE DEF a
<1>0. g \in ProfRec /\ p \in Profiles /\ p # "hid_interval" /\ "hid" \in Profiles /\ "sink" \in Profiles /\ "hid_interval" \in Profiles
  BY DEF Balanced, Counted, Profiles
<1>1a. Added(g, h, p, a) BY <1>0, AddFields DEF a
<1>1. /\ a \in ProfRec
      /\ \A q \in Profiles : a.ref[q] = IF q = p THEN g.ref[q] + 1 ELSE g.ref[q]
      /\ a.map = IF g.ref[p] = 0 THEN g.map \cup {p} ELSE g.map
      /\ a.timers = IF g.ref[p] = 0 /\ p \in Timers THEN g.timers \cup {p} ELSE g.timers
      /\ \A x \in Handles \ {h} : a.conn[x] = g.conn[x]
      /\ a.conn[h].map = IF g.conn[h].ref[p] = 0 THEN g.conn[h].map \cup {p} ELSE g.conn[h].map
      /\ \A q \in Profiles : a.conn[h].ref[q] = IF q = p THEN g.conn[h].ref[q] + 1 ELSE g.conn[h].ref[q]
  BY <1>1a DEF Added
<1>2. /\ g.ref \in [Profiles -> Nat] /\ a.ref \in [Profiles -> Nat]
      /\ g.conn \in [Handles -> ConnRec] /\ a.conn \in [Handles -> ConnRec]
      /\ \A x \in Handles, q \in Profiles : g.conn[x].ref[q] \in Nat /\ a.conn[x].ref[q] \in Nat
  <2>1. \A c \in ConnRec : c.ref \in [Profiles -> Nat] BY DEF ConnRec
  <2>2. /\ g.ref \in [Profiles -> Nat] /\ a.ref \in [Profiles -> Nat]
        /\ g.conn \in [Handles -> ConnRec] /\ a.conn \in [Handles -> ConnRec]
    BY <1>0, <1>1 DEF ProfRec
  <2> QED BY <2>1, <2>2
<1>3. BitsOf(a)
  <2>1. \A q \in Counted : q \in a.map <=> a.ref[q] > 0
    BY <1>0, <1>1, <1>2 DEF Balanced, BitsOf, Counted
  <2>2. ASSUME NEW q \in Counted, NEW x \in Handles PROVE q \in a.conn[x].map <=> a.conn[x].ref[q] > 0
    <3>0. q \in Profiles /\ (q \in g.conn[x].map <=> g.conn[x].ref[q] > 0) BY DEF Balanced, BitsOf, Counted
    <3>1. CASE x # h BY <3>0, <3>1, <1>1
    <3>2. CASE x = h BY <3>0, <3>2, <1>0, <1>1, <1>2
    <3> QED BY <3>1, <3>2
  <2>3. a.timers = a.map \cap Timers BY <1>1 DEF Balanced, BitsOf
  <2> QED BY <2>1, <2>2, <2>3 DEF BitsOf
<1>4. IntervalsOf(a)
  <2>1. \A x \in Handles : "hid_interval" \in a.conn[x].map <=> "hid_interval" \in g.conn[x].map
    BY <1>0, <1>1
  <2>2. Active(a.conn) = Active(g.conn) BY <2>1 DEF Active
  <2>3. a.ref["hid_interval"] = g.ref["hid_interval"] BY <1>0, <1>1
  <2>4. \A x \in Handles : a.conn[x].ref["hid"] >= g.conn[x].ref["hid"]
    <3> TAKE x \in Handles
    <3>1. CASE x # h BY <3>1, <1>0, <1>1, <1>2
    <3>2. CASE x = h BY <3>2, <1>0, <1>1, <1>2
    <3> QED BY <3>1, <3>2
  <2>5. ASSUME NEW x \in Handles, "hid_interval" \in a.conn[x].map PROVE a.conn[x].ref["hid"] > 0
    <3>1. g.conn[x].ref["hid"] > 0 BY <2>1, <2>5 DEF Balanced, IntervalsOf
    <3> QED BY <3>1, <2>4, <1>0, <1>2
  <2> QED BY <2>2, <2>3, <2>5 DEF IntervalsOf, Balanced
<1>5. ASSUME NEW q \in Profiles
      PROVE  Cardinality(Counts(a.conn, q)) = Cardinality(Counts(g.conn, q)) + (IF q = p THEN 1 ELSE 0)
  <2>1. PICK k \in Nat : k = IF q = p THEN 1 ELSE 0 OBVIOUS
  <2>2. a.conn[h].ref[q] = g.conn[h].ref[q] + k BY <2>1, <1>1, <1>2
  <2>3. \A x \in Handles \ {h} : a.conn[x].ref[q] = g.conn[x].ref[q] BY <1>1
  <2> QED BY <2>1, <2>2, <2>3, <1>2, CountsChange
<1>6. TotalsOf(a)
  <2>1. \A q \in Profiles : Cardinality(Counts(g.conn, q)) \in Nat BY <1>2, CountsFinite
  <2>2. ASSUME NEW q \in Counted \ {"sink"} PROVE a.ref[q] = Cardinality(Counts(a.conn, q))
    <3>1. q \in Profiles /\ g.ref[q] = Cardinality(Counts(g.conn, q)) BY DEF Balanced, TotalsOf, Counted
    <3> QED BY <3>1, <1>1, <1>2, <1>5, <2>1
  <2>3. Cardinality(Counts(a.conn, "sink")) <= a.ref["sink"]
    <3>1. Cardinality(Counts(g.conn, "sink")) <= g.ref["sink"] BY DEF Balanced, TotalsOf
    <3>2. /\ Cardinality(Counts(a.conn, "sink")) = Cardinality(Counts(g.conn, "sink")) + (IF "sink" = p THEN 1 ELSE 0)
          /\ a.ref["sink"] = IF "sink" = p THEN g.ref["sink"] + 1 ELSE g.ref["sink"]
          /\ Cardinality(Counts(g.conn, "sink")) \in Nat /\ g.ref["sink"] \in Nat
      BY <1>0, <1>1, <1>2, <1>5, <2>1
    <3> QED BY <3>1, <3>2
  <2> QED BY <2>2, <2>3 DEF TotalsOf
<1> QED BY <1>1, <1>3, <1>4, <1>6 DEF Balanced, a

\* Counting profiles off keeps the balance, when the connection has counted them before.
LEMMA RemoveBalanced ==
  ASSUME NEW g, Balanced(g), NEW h \in Handles, NEW n \in [Profiles -> Nat],
         \A p \in Profiles : n[p] <= g.conn[h].ref[p], n["hid_interval"] = 0
  PROVE  LET a == remove_profiles(g, h, n)
         IN /\ Balanced(a)
            /\ a.list = g.list
            /\ \A x \in Handles \ {h} : a.conn[x] = g.conn[x]
            /\ a.conn[h].type = g.conn[h].type
            /\ \A q \in Profiles : a.conn[h].ref[q] = g.conn[h].ref[q] - n[q]
<1> DEFINE a == remove_profiles(g, h, n)
           active == Hushed(g, h, n)
<1> HIDE DEF a
<1>0. g \in ProfRec /\ "hid" \in Profiles /\ "sink" \in Profiles /\ "hid_interval" \in Profiles
  BY DEF Balanced, Profiles
<1>1. /\ g.ref \in [Profiles -> Nat] /\ g.conn \in [Handles -> ConnRec]
      /\ \A x \in Handles, q \in Profiles : g.conn[x].ref[q] \in Nat
      /\ \A q \in Profiles : g.ref[q] \in Nat /\ n[q] \in Nat
  BY <1>0 DEF ProfRec, ConnRec
<1>2. ASSUME NEW p \in Profiles PROVE n[p] <= g.ref[p]
  <2>1. p = "hid_interval" \/ p = "sink" \/ p \in Counted \ {"sink"} BY DEF Counted
  <2>2. CASE p = "hid_interval" BY <2>2, <1>1
  <2>3. CASE p # "hid_interval"
    <3>1. g.conn[h].ref[p] <= Cardinality(Counts(g.conn, p)) BY <1>1, CountsAtLeast
    <3>2. Cardinality(Counts(g.conn, p)) <= g.ref[p] BY <2>1, <2>3, <1>1 DEF Balanced, TotalsOf
    <3>3. Cardinality(Counts(g.conn, p)) \in Nat BY <1>1, CountsFinite
    <3> QED BY <3>1, <3>2, <3>3, <1>1
  <2> QED BY <2>2, <2>3
<1>3. "hid_interval" \in g.conn[h].map => g.ref["hid_interval"] > 0
  <2> SUFFICES ASSUME "hid_interval" \in g.conn[h].map PROVE g.ref["hid_interval"] > 0 OBVIOUS
  <2>1. h \in Active(g.conn) BY DEF Active
  <2>2. Cardinality(Active(g.conn)) # 0 BY <2>1, ActiveFinite, FS_EmptySet
  <2> QED BY <2>2, ActiveFinite DEF Balanced, IntervalsOf
<1> HIDE DEF active
<1>4. /\ a \in ProfRec
      /\ a.list = g.list
      /\ \A q \in Profiles : a.ref[q] = IF q = "hid_interval" /\ active THEN g.ref[q] - 1 ELSE g.ref[q] - n[q]
      /\ a.map = g.map \ {p \in Profiles : g.ref[p] \in 1..n[p]}
      /\ a.timers = g.timers \ {p \in Profiles : g.ref[p] \in 1..n[p]}
      /\ \A x \in Handles \ {h} : a.conn[x] = g.conn[x]
      /\ a.conn[h].type = g.conn[h].type
      /\ \A q \in Profiles : q \in a.conn[h].map <=>
              /\ q \in g.conn[h].map
              /\ ~(g.conn[h].ref[q] \in 1..n[q])
              /\ ~(q = "hid_interval" /\ active)
      /\ \A q \in Profiles : a.conn[h].ref[q] = g.conn[h].ref[q] - n[q]
  <2>1. Removed(g, h, n, a) BY <1>0, <1>2, <1>3, RemoveFields DEF a
  <2> QED BY <2>1 DEF Removed, active
<1>5. /\ a.ref \in [Profiles -> Nat] /\ a.conn \in [Handles -> ConnRec]
      /\ \A x \in Handles, q \in Profiles : a.conn[x].ref[q] \in Nat
  BY <1>4 DEF ProfRec, ConnRec
<1>6. BitsOf(a)
  <2>1. ASSUME NEW q \in Counted PROVE q \in a.map <=> a.ref[q] > 0
    <3>1. q \in Profiles /\ q # "hid_interval" /\ (q \in g.map <=> g.ref[q] > 0) BY DEF Balanced, BitsOf, Counted
    <3>2. a.ref[q] = g.ref[q] - n[q] /\ n[q] <= g.ref[q] /\ g.ref[q] \in Nat /\ n[q] \in Nat BY <3>1, <1>1, <1>2, <1>4
    <3>3. q \in a.map <=> q \in g.map /\ ~(g.ref[q] \in 1..n[q]) BY <3>1, <1>4
    <3> QED BY <3>1, <3>2, <3>3
  <2>2. ASSUME NEW q \in Counted, NEW x \in Handles PROVE q \in a.conn[x].map <=> a.conn[x].ref[q] > 0
    <3>0. q \in Profiles /\ q # "hid_interval" /\ (q \in g.conn[x].map <=> g.conn[x].ref[q] > 0) BY DEF Balanced, BitsOf, Counted
    <3>1. CASE x # h BY <3>0, <3>1, <1>4
    <3>2. CASE x = h
      <4>1. a.conn[h].ref[q] = g.conn[h].ref[q] - n[q] /\ n[q] <= g.conn[h].ref[q] /\ g.conn[h].ref[q] \in Nat /\ n[q] \in Nat
        BY <3>0, <1>1, <1>4
      <4>2. q \in a.conn[h].map <=> q \in g.conn[h].map /\ ~(g.conn[h].ref[q] \in 1..n[q]) BY <3>0, <1>4
      <4> QED BY <3>0, <3>2, <4>1, <4>2
    <3> QED BY <3>1, <3>2
  <2>3. a.timers = a.map \cap Timers BY <1>4 DEF Balanced, BitsOf
  <2> QED BY <2>1, <2>2, <2>3 DEF BitsOf
<1>7. IntervalsOf(a)
  <2>1. ASSUME NEW x \in Handles, "hid_interval" \in a.conn[x].map PROVE a.conn[x].ref["hid"] > 0
    <3>1. CASE x # h BY <3>1, <2>1, <1>4 DEF Balanced, IntervalsOf
    <3>2. CASE x = h
      <4>1. "hid_interval" \in g.conn[h].map /\ ~active BY <1>0, <1>4, <2>1, <3>2
      <4>2. ~(g.conn[h].ref["hid"] \in 1..n["hid"]) BY <4>1 DEF active, Hushed
      <4>3. g.conn[h].ref["hid"] > 0 BY <4>1 DEF Balanced, IntervalsOf
      <4>4. a.conn[h].ref["hid"] = g.conn[h].ref["hid"] - n["hid"] BY <1>0, <1>4
      <4> QED BY <1>0, <1>1, <3>2, <4>2, <4>3, <4>4
    <3> QED BY <3>1, <3>2
  <2>2. ~(g.conn[h].ref["hid_interval"] \in 1..n["hid_interval"]) BY <1>0, <1>1
  <2>3. g.ref["hid_interval"] = Cardinality(Active(g.conn)) BY DEF Balanced, IntervalsOf
  <2>4. CASE active
    <3>1. Active(a.conn) = Active(g.conn) \ {h} /\ h \in Active(g.conn)
      BY <1>0, <1>4, <2>2, <2>4 DEF Active, active, Hushed
    <3>2. Cardinality(Active(a.conn)) = Cardinality(Active(g.conn)) - 1
      BY <3>1, ActiveFinite, FS_RemoveElement
    <3>3. a.ref["hid_interval"] = g.ref["hid_interval"] - 1 BY <1>0, <1>4, <2>4
    <3> QED BY <2>1, <2>3, <3>2, <3>3 DEF IntervalsOf
  <2>5. CASE ~active
    <3>1. Active(a.conn) = Active(g.conn)
      BY <1>0, <1>4, <2>2, <2>5 DEF Active
    <3>2. a.ref["hid_interval"] = g.ref["hid_interval"] BY <1>0, <1>1, <1>4, <2>5
    <3> QED BY <2>1, <2>3, <3>1, <3>2 DEF IntervalsOf
  <2> QED BY <2>4, <2>5
<1>8. ASSUME NEW q \in Profiles PROVE Cardinality(Counts(g.conn, q)) = Cardinality(Counts(a.conn, q)) + n[q]
  <2>1. g.conn[h].ref[q] = a.conn[h].ref[q] + n[q] BY <1>1, <1>4
  <2>2. \A x \in Handles \ {h} : g.conn[x].ref[q] = a.conn[x].ref[q] BY <1>4
  <2> QED BY <2>1, <2>2, <1>1, <1>5, CountsChange
<1>9. TotalsOf(a)
  <2>1. \A q \in Profiles : Cardinality(Counts(a.conn, q)) \in Nat BY <1>5, CountsFinite
  <2>2. ASSUME NEW q \in Counted \ {"sink"} PROVE a.ref[q] = Cardinality(Counts(a.conn, q))
    <3>1. q \in Profiles /\ q # "hid_interval" /\ g.ref[q] = Cardinality(Counts(g.conn, q)) BY DEF Balanced, TotalsOf, Counted
    <3>2. a.ref[q] = g.ref[q] - n[q] BY <3>1, <1>4
    <3> QED BY <3>1, <3>2, <1>1, <1>8, <2>1
  <2>3. Cardinality(Counts(a.conn, "sink")) <= a.ref["sink"]
    <3>1. Cardinality(Counts(g.conn, "sink")) <= g.ref["sink"] BY DEF Balanced, TotalsOf
    <3>2. a.ref["sink"] = g.ref["sink"] - n["sink"] BY <1>0, <1>4
    <3> QED BY <3>1, <3>2, <1>0, <1>1, <1>8, <2>1
  <2> QED BY <2>2, <2>3 DEF TotalsOf
<1> QED BY <1>4, <1>6, <1>7, <1>9 DEF Balanced, a
\* Changes of the list, the status and the packet counts.
LEMMA OtherBalanced ==
  ASSUME NEW g, Balanced(g), NEW a \in ProfRec,
         a.conn = g.conn, a.ref = g.ref, a.map = g.map, a.timers = g.timers
  PROVE  Balanced(a)
BY DEF Balanced, BitsOf, IntervalsOf, TotalsOf

\* A connection that counts nothing but the sink begins anew or is gone.
LEMMA ResetBalanced ==
  ASSUME NEW g, Balanced(g), NEW h \in Handles, NEW t \in {"none", "acl", "sco", "le"},
         \A p \in Profiles \ {"sink"} : g.conn[h].ref[p] = 0
  PROVE  LET a == new_conn(g, h, t)
         IN /\ Balanced(a)
            /\ a.list = g.list
            /\ \A x \in Handles \ {h} : a.conn[x] = g.conn[x]
            /\ a.conn[h].type = t
            /\ \A q \in Profiles : a.conn[h].ref[q] = 0
<1> DEFINE c == [NoConn EXCEPT !.type = t]
           a == [g EXCEPT !.conn[h] = c]
<1>0. g \in ProfRec /\ "hid" \in Profiles \ {"sink"} /\ "sink" \in Profiles /\ "hid_interval" \in Profiles \ {"sink"}
  BY DEF Balanced, Profiles
<1>1. c \in ConnRec /\ c.type = t /\ c.map = {} /\ \A q \in Profiles : c.ref[q] = 0
  BY DEF NoConn, ConnRec
<1> HIDE DEF c
<1>2. /\ a \in ProfRec /\ a.list = g.list /\ a.ref = g.ref /\ a.map = g.map /\ a.timers = g.timers
      /\ a.conn = [g.conn EXCEPT ![h] = c]
  BY <1>0, <1>1 DEF ProfRec
<1>3. /\ g.conn \in [Handles -> ConnRec] /\ a.conn \in [Handles -> ConnRec]
      /\ g.ref \in [Profiles -> Nat]
  BY <1>0, <1>2 DEF ProfRec
<1>4. a.conn[h] = c /\ \A x \in Handles \ {h} : a.conn[x] = g.conn[x] BY <1>2, <1>3
<1> HIDE DEF a
<1>5. \A x \in Handles, q \in Profiles : g.conn[x].ref[q] \in Nat BY <1>3 DEF ConnRec
<1>6. BitsOf(a)
  <2>1. ASSUME NEW q \in Counted, NEW x \in Handles PROVE q \in a.conn[x].map <=> a.conn[x].ref[q] > 0
    <3>0. q \in Profiles BY DEF Counted
    <3>1. CASE x # h BY <3>1, <1>4 DEF Balanced, BitsOf
    <3>2. CASE x = h BY <3>0, <3>2, <1>1, <1>4
    <3> QED BY <3>1, <3>2
  <2> QED BY <2>1, <1>2 DEF Balanced, BitsOf
<1>7. IntervalsOf(a)
  <2>1. "hid_interval" \notin g.conn[h].map BY <1>0 DEF Balanced, IntervalsOf
  <2>2. \A x \in Handles : "hid_interval" \in a.conn[x].map <=> "hid_interval" \in g.conn[x].map
    BY <2>1, <1>1, <1>4
  <2>3. Active(a.conn) = Active(g.conn) BY <2>2 DEF Active
  <2>4. ASSUME NEW x \in Handles, "hid_interval" \in a.conn[x].map PROVE a.conn[x].ref["hid"] > 0
    <3>1. x # h BY <2>4, <1>1, <1>4
    <3> QED BY <3>1, <2>4, <1>4 DEF Balanced, IntervalsOf
  <2> QED BY <2>3, <2>4, <1>2 DEF Balanced, IntervalsOf
<1>8. ASSUME NEW q \in Profiles
      PROVE  Cardinality(Counts(g.conn, q)) = Cardinality(Counts(a.conn, q)) + g.conn[h].ref[q]
  <2>1. g.conn[h].ref[q] = a.conn[h].ref[q] + g.conn[h].ref[q] BY <1>1, <1>4, <1>5
  <2>2. \A x \in Handles \ {h} : g.conn[x].ref[q] = a.conn[x].ref[q] BY <1>4
  <2> QED BY <2>1, <2>2, <1>3, <1>5, CountsChange
<1>9. TotalsOf(a)
  <2>1. \A q \in Profiles : Cardinality(Counts(a.conn, q)) \in Nat BY <1>3, CountsFinite
  <2>2. ASSUME NEW q \in Counted \ {"sink"} PROVE a.ref[q] = Cardinality(Counts(a.conn, q))
    <3>1. q \in Profiles \ {"sink"} /\ g.ref[q] = Cardinality(Counts(g.conn, q)) BY DEF Balanced, TotalsOf, Counted
    <3>2. g.conn[h].ref[q] = 0 BY <3>1
    <3> QED BY <3>1, <3>2, <1>2, <1>8, <2>1
  <2>3. Cardinality(Counts(a.conn, "sink")) <= a.ref["sink"]
    <3>1. Cardinality(Counts(g.conn, "sink")) <= g.ref["sink"] BY DEF Balanced, TotalsOf
    <3>2. g.conn[h].ref["sink"] \in Nat /\ g.ref["sink"] \in Nat BY <1>0, <1>3, <1>5
    <3> QED BY <3>1, <3>2, <1>0, <1>2, <1>8, <2>1
  <2> QED BY <2>2, <2>3 DEF TotalsOf
<1>10. Balanced(a) BY <1>2, <1>6, <1>7, <1>9 DEF Balanced
<1> QED BY <1>1, <1>2, <1>4, <1>10 DEF a, c, new_conn

\* A change of the interval.
ActiveWith(g, h, m) == {x \in Handles : "hid_interval" \in IF x = h THEN m ELSE g.conn[x].map}

\* update_hid_active_state keeps the balance and counts nothing but the interval.
LEMMA HidBalanced ==
  ASSUME NEW g, Balanced(g), NEW h \in Handles, NEW short \in BOOLEAN
  PROVE  LET a == hid_active(g, h, short)
         IN /\ Balanced(a)
            /\ a.list = g.list
            /\ \A x \in Handles : a.conn[x].type = g.conn[x].type /\ a.conn[x].ref = g.conn[x].ref
<1> DEFINE on == "hid_interval" \in g.conn[h].map
           n == g.ref["hid_interval"]
<1>0. /\ g \in ProfRec /\ "hid" \in Counted /\ "hid_interval" \in Profiles /\ "hid" \in Profiles
      /\ "hid_interval" \notin Counted
  BY DEF Balanced, Profiles, Counted
<1>1. /\ g.conn \in [Handles -> ConnRec] /\ g.ref \in [Profiles -> Nat] /\ g.status \in SUBSET Profiles
      /\ n \in Nat /\ g.conn[h] \in ConnRec /\ g.conn[h].map \in SUBSET Profiles
  BY <1>0 DEF ProfRec, ConnRec
<1>2. ASSUME NEW m \in SUBSET Profiles, NEW k \in Nat, NEW st \in SUBSET Profiles, NEW a, a = Interval(g, h, m, k, st),
             \A q \in Counted : q \in m <=> q \in g.conn[h].map,
             "hid" \in g.conn[h].map,
             k = Cardinality(ActiveWith(g, h, m))
      PROVE  /\ Balanced(a)
             /\ a.list = g.list
             /\ \A x \in Handles : a.conn[x].type = g.conn[x].type /\ a.conn[x].ref = g.conn[x].ref
  <2> DEFINE c == [g.conn[h] EXCEPT !.map = m]
  <2>1. c \in ConnRec /\ c.map = m /\ c.type = g.conn[h].type /\ c.ref = g.conn[h].ref BY <1>1 DEF ConnRec
  <2>2. a = [g EXCEPT !.conn = [g.conn EXCEPT ![h] = c], !.ref = [g.ref EXCEPT !["hid_interval"] = k], !.status = st]
    BY <1>1, <1>2 DEF ProfRec, Interval
  <2> HIDE DEF c
  <2> DEFINE C == [g.conn EXCEPT ![h] = c]
             R == [g.ref EXCEPT !["hid_interval"] = k]
  <2>3. C \in [Handles -> ConnRec] /\ R \in [Profiles -> Nat] BY <1>0, <1>1, <2>1
  <2>3a. C[h] = c /\ \A x \in Handles \ {h} : C[x] = g.conn[x] BY <1>1
  <2>3b. R["hid_interval"] = k /\ \A q \in Counted : R[q] = g.ref[q] BY <1>0, <1>1 DEF Counted
  <2> HIDE DEF C, R
  <2>4. /\ a \in ProfRec /\ a.list = g.list /\ a.map = g.map /\ a.timers = g.timers /\ a.conn = C /\ a.ref = R
    BY <1>0, <2>2, <2>3 DEF ProfRec, C, R
  <2>5. \A x \in Handles : C[x].type = g.conn[x].type /\ C[x].ref = g.conn[x].ref
    BY <2>1, <2>3a
  <2>6. \A x \in Handles : C[x].map = IF x = h THEN m ELSE g.conn[x].map BY <2>1, <2>3a
  <2>7. BitsOf(a)
    <3>1. ASSUME NEW q \in Counted, NEW x \in Handles PROVE q \in a.conn[x].map <=> a.conn[x].ref[q] > 0
      BY <1>2, <2>4, <2>5, <2>6 DEF Balanced, BitsOf
    <3>2. \A q \in Counted : q \in a.map <=> a.ref[q] > 0 BY <2>3b, <2>4 DEF Balanced, BitsOf
    <3> QED BY <3>1, <3>2, <2>4 DEF Balanced, BitsOf
  <2>8. IntervalsOf(a)
    <3>1. Active(a.conn) = ActiveWith(g, h, m)
      BY <2>4, <2>6 DEF Active, ActiveWith
    <3>2. a.ref["hid_interval"] = Cardinality(Active(a.conn)) BY <1>2, <2>3b, <2>4, <3>1
    <3>3. g.conn[h].ref["hid"] > 0 BY <1>0, <1>2 DEF Balanced, BitsOf
    <3>4. ASSUME NEW x \in Handles, "hid_interval" \in a.conn[x].map PROVE a.conn[x].ref["hid"] > 0
      <4>1. CASE x = h BY <4>1, <3>3, <2>4, <2>5
      <4>2. CASE x # h BY <4>2, <3>4, <2>4, <2>5, <2>6 DEF Balanced, IntervalsOf
      <4> QED BY <4>1, <4>2
    <3> QED BY <3>2, <3>4 DEF IntervalsOf
  <2>9. \A q \in Profiles : Counts(a.conn, q) = Counts(g.conn, q)
    BY <2>4, <2>5 DEF Counts
  <2>10. TotalsOf(a)
    <3>1. "sink" \in Counted /\ "sink" \in Profiles /\ Counted \subseteq Profiles BY DEF Counted, Profiles
    <3>2. \A q \in Counted \ {"sink"} : a.ref[q] = Cardinality(Counts(a.conn, q))
      BY <3>1, <2>3b, <2>4, <2>9 DEF Balanced, TotalsOf
    <3>3. Cardinality(Counts(a.conn, "sink")) <= a.ref["sink"]
      BY <3>1, <2>3b, <2>4, <2>9 DEF Balanced, TotalsOf
    <3> QED BY <3>2, <3>3 DEF TotalsOf
  <2> QED BY <2>4, <2>5, <2>7, <2>8, <2>10 DEF Balanced
<1>3. n = Cardinality(Active(g.conn)) BY DEF Balanced, IntervalsOf
<1>4. CASE "hid" \notin g.conn[h].map \/ short = on
  <2>1. hid_active(g, h, short) = g BY <1>4 DEF hid_active
  <2> QED BY <2>1
<1>5. CASE "hid" \in g.conn[h].map /\ short /\ ~on
  <2> DEFINE m == g.conn[h].map \cup {"hid_interval"}
             st == IF n + 1 = 1 THEN g.status \cup {"hid"} ELSE g.status
  <2>1. hid_active(g, h, short) = Interval(g, h, m, n + 1, st) BY <1>5 DEF hid_active, Interval
  <2>2. ActiveWith(g, h, m) = Active(g.conn) \cup {h}
    BY DEF Active, ActiveWith
  <2>3. h \notin Active(g.conn) BY <1>5 DEF Active
  <2>4. n + 1 = Cardinality(Active(g.conn) \cup {h}) BY <1>3, <2>3, ActiveFinite, FS_AddElement
  <2>5. m \in SUBSET Profiles /\ n + 1 \in Nat /\ st \in SUBSET Profiles /\ \A q \in Counted : q \in m <=> q \in g.conn[h].map
    BY <1>0, <1>1
  <2> DEFINE a == hid_active(g, h, short)
             k == n + 1
  <2> HIDE DEF m, st, a, k
  <2>6. a = Interval(g, h, m, k, st) /\ k \in Nat BY <2>1, <2>5 DEF a, k
  <2>7. k = Cardinality(ActiveWith(g, h, m))
    BY <2>2, <2>4 DEF k
  <2>8. /\ Balanced(a)
        /\ a.list = g.list
        /\ \A x \in Handles : a.conn[x].type = g.conn[x].type /\ a.conn[x].ref = g.conn[x].ref
    BY <1>2, <1>5, <2>5, <2>6, <2>7
  <2> QED BY <2>8 DEF a
<1>6. CASE "hid" \in g.conn[h].map /\ ~short /\ on
  <2> DEFINE m == g.conn[h].map \ {"hid_interval"}
             st == IF n - 1 = 0 THEN g.status \ {"hid"} ELSE g.status
  <2>1. hid_active(g, h, short) = Interval(g, h, m, n - 1, st) BY <1>6 DEF hid_active, Interval
  <2>2. ActiveWith(g, h, m) = Active(g.conn) \ {h}
    BY DEF Active, ActiveWith
  <2>3. h \in Active(g.conn) BY <1>6 DEF Active
  <2>4. n - 1 = Cardinality(Active(g.conn) \ {h}) BY <1>3, <2>3, ActiveFinite, FS_RemoveElement
  <2>4a. Cardinality(Active(g.conn) \ {h}) \in Nat
    BY ActiveFinite, FS_RemoveElement, FS_CardinalityType
  <2>5. m \in SUBSET Profiles /\ n - 1 \in Nat /\ st \in SUBSET Profiles /\ \A q \in Counted : q \in m <=> q \in g.conn[h].map
    BY <1>0, <1>1, <2>4, <2>4a
  <2> DEFINE a == hid_active(g, h, short)
             k == n - 1
  <2> HIDE DEF m, st, a, k
  <2>6. a = Interval(g, h, m, k, st) /\ k \in Nat BY <2>1, <2>5 DEF a, k
  <2>7. k = Cardinality(ActiveWith(g, h, m))
    BY <2>2, <2>4 DEF k
  <2>8. /\ Balanced(a)
        /\ a.list = g.list
        /\ \A x \in Handles : a.conn[x].type = g.conn[x].type /\ a.conn[x].ref = g.conn[x].ref
    BY <1>2, <1>6, <2>5, <2>6, <2>7
  <2> QED BY <2>8 DEF a
<1> QED BY <1>4, <1>5, <1>6
-----------------------------------------------------------------------------
(* The counters of each connection agree with the list.                    *)

Expected(g, h, p) ==
  CASE g.conn[h].type = "none" -> 0
    [] g.conn[h].type = "sco"  -> IF p = "sco" THEN 1 ELSE 0
    [] g.conn[h].type = "le"   -> IF p = "hid" THEN 1 ELSE 0
    [] g.conn[h].type = "acl"  -> Cardinality(Positions(g.list, h, p))
Tally(g) ==
  \A h \in Handles :
    /\ \A p \in Profiles \ {"sink"} : g.conn[h].ref[p] = Expected(g, h, p)
    /\ g.conn[h].type # "acl" => g.conn[h].ref["sink"] = 0
Sound(g) == Balanced(g) /\ Tally(g)

\* Types of the parts of rtk_prof.
LEMMA SoundTypes ==
  ASSUME NEW g, Sound(g)
  PROVE  /\ g \in ProfRec /\ g.list \in Seq(Entry) /\ Len(g.list) \in Nat
         /\ g.conn \in [Handles -> ConnRec] /\ g.ref \in [Profiles -> Nat]
         /\ g.map \in SUBSET Profiles /\ g.status \in SUBSET Profiles
         /\ g.timers \in SUBSET Timers /\ g.count \in [Timers -> Nat]
         /\ \A h \in Handles : /\ g.conn[h].type \in {"none", "acl", "sco", "le"}
                               /\ g.conn[h].ref \in [Profiles -> Nat]
         /\ \A i \in 1..Len(g.list) : g.list[i] \in Entry
<1>1. g \in ProfRec BY DEF Sound, Balanced
<1>2. /\ g.list \in Seq(Entry)
      /\ g.conn \in [Handles -> ConnRec] /\ g.ref \in [Profiles -> Nat]
      /\ g.map \in SUBSET Profiles /\ g.status \in SUBSET Profiles
      /\ g.timers \in SUBSET Timers /\ g.count \in [Timers -> Nat]
  BY <1>1 DEF ProfRec
<1>3. \A c \in ConnRec : c.type \in {"none", "acl", "sco", "le"} /\ c.ref \in [Profiles -> Nat] BY DEF ConnRec
<1> QED BY <1>1, <1>2, <1>3

\* Only the profiles of L2CAP are in the list.
LEMMA PositionsPsm ==
  ASSUME NEW l \in Seq(Entry), NEW h, NEW p, p \notin Psms
  PROVE  Positions(l, h, p) = {}
<1>0. \A e \in Entry : e.profile \in Psms BY DEF Entry
<1>1. \A i \in 1..Len(l) : l[i].profile \in Psms BY <1>0
<1> QED BY <1>1 DEF Positions

\* A request adds no established channel.
LEMMA PositionsAppend ==
  ASSUME NEW l \in Seq(Entry), NEW e \in Entry, ~Established(e), NEW h, NEW p
  PROVE  Positions(Append(l, e), h, p) = Positions(l, h, p)
<1> DEFINE l2 == Append(l, e)
<1> PICK n \in Nat : n = Len(l) OBVIOUS
<1>1. Len(l2) = n + 1 /\ l2[n + 1] = e /\ \A i \in 1..n : l2[i] = l[i] OBVIOUS
<1> HIDE DEF l2
<1>2. ASSUME NEW i \in Positions(l2, h, p) PROVE i \in Positions(l, h, p)
  <2>1. i \in 1..(n + 1) /\ l2[i].handle = h /\ l2[i].profile = p /\ Established(l2[i])
    BY <1>1 DEF Positions
  <2>2. i # n + 1 BY <2>1, <1>1
  <2>3. i \in 1..n BY <2>1, <2>2
  <2> QED BY <2>1, <2>3, <1>1 DEF Positions
<1>3. ASSUME NEW i \in Positions(l, h, p) PROVE i \in Positions(l2, h, p)
  <2>1. i \in 1..n /\ i \in 1..(n + 1) BY DEF Positions
  <2> QED BY <2>1, <1>1 DEF Positions
<1> QED BY <1>2, <1>3 DEF l2

\* An answer that completes the entry of its request.
Complete(l, i, s, d) == [l EXCEPT ![i].scid = s, ![i].dcid = d]
Completed(l, i, s, d, l2) ==
  /\ l2 \in Seq(Entry) /\ Len(l2) = Len(l)
  /\ l2[i] \in Entry /\ Established(l2[i]) /\ l2[i].handle = l[i].handle /\ l2[i].profile = l[i].profile
  /\ l2[i].scid = s /\ l2[i].dcid = d
  /\ \A j \in 1..Len(l) : j # i => l2[j] = l[j]
  /\ \A h, p : Cardinality(Positions(l2, h, p)) =
       IF h = l[i].handle /\ p = l[i].profile THEN Cardinality(Positions(l, h, p)) + 1
                                              ELSE Cardinality(Positions(l, h, p))

\* Completing an entry adds one established channel, of its connection and profile.
LEMMA PositionsSet ==
  ASSUME NEW l \in Seq(Entry), NEW i \in 1..Len(l), ~Established(l[i]),
         NEW s \in HostCids, NEW d \in RemoteCids
  PROVE  Completed(l, i, s, d, Complete(l, i, s, d))
<1> DEFINE l2 == Complete(l, i, s, d)
<1> DEFINE e == [l[i] EXCEPT !.scid = s, !.dcid = d]
<1>0. s # 0 /\ d # 0 BY CidAssumption
<1>1. l[i] \in Entry OBVIOUS
<1>2. e \in Entry /\ e.handle = l[i].handle /\ e.profile = l[i].profile /\ e.scid = s /\ e.dcid = d
  BY <1>1 DEF Entry
<1>3. l2 = [l EXCEPT ![i] = e] BY <1>1 DEF Entry, Complete
<1> HIDE DEF e, l2
<1>4. l2 \in Seq(Entry) /\ Len(l2) = Len(l) /\ l2[i] = e /\ \A j \in 1..Len(l) : j # i => l2[j] = l[j]
  BY <1>2, <1>3, ExceptSeq
<1>5. Established(e) BY <1>0, <1>2 DEF Established
<1>6. ASSUME NEW h, NEW p
      PROVE  Cardinality(Positions(l2, h, p)) =
              IF h = l[i].handle /\ p = l[i].profile THEN Cardinality(Positions(l, h, p)) + 1
                                                     ELSE Cardinality(Positions(l, h, p))
  <2>1. i \notin Positions(l, h, p) BY DEF Positions
  <2>2. CASE h = l[i].handle /\ p = l[i].profile
    <3>1. Positions(l2, h, p) = Positions(l, h, p) \cup {i} BY <1>2, <1>4, <1>5, <2>2 DEF Positions
    <3>2. IsFiniteSet(Positions(l, h, p)) BY PositionsFinite
    <3>3. Cardinality(Positions(l, h, p) \cup {i}) = Cardinality(Positions(l, h, p)) + 1
      BY <2>1, <3>2, FS_AddElement
    <3> QED BY <2>2, <3>1, <3>3
  <2>3. CASE ~(h = l[i].handle /\ p = l[i].profile)
    <3>1. Positions(l2, h, p) = Positions(l, h, p) BY <1>2, <1>4, <2>1, <2>3 DEF Positions
    <3> QED BY <2>3, <3>1
  <2> QED BY <2>2, <2>3
<1>7. Completed(l, i, s, d, l2) BY <1>2, <1>4, <1>5, <1>6 DEF Completed
<1> QED BY <1>7 DEF l2

\* The list may change as long as the established channels are the same.
LEMMA SameSound ==
  ASSUME NEW g, Sound(g), NEW a, Balanced(a),
         \A x \in Handles : a.conn[x].type = g.conn[x].type /\ a.conn[x].ref = g.conn[x].ref,
         \A h \in Handles, p \in Profiles : Cardinality(Positions(a.list, h, p)) = Cardinality(Positions(g.list, h, p))
  PROVE  Sound(a)
<1>1. \A h \in Handles, p \in Profiles : Expected(a, h, p) = Expected(g, h, p)
  <2> TAKE h \in Handles, p \in Profiles
  <2>1. g.conn[h].type \in {"none", "acl", "sco", "le"} BY SoundTypes
  <2> QED BY <2>1 DEF Expected
<1>2. Tally(a) BY <1>1 DEF Sound, Tally
<1> QED BY <1>2 DEF Sound

\* handle_l2cap_con_req leaves the counters alone and adds at most an entry without an answer.
LEMMA ConReqSound ==
  ASSUME NEW g, Sound(g), NEW h \in Handles, NEW p \in Psms,
         NEW s \in HostCids \cup {0}, NEW d \in RemoteCids \cup {0}, s = 0 \/ d = 0
  PROVE  LET a == con_req(g, h, p, s, d)
         IN /\ Sound(a) /\ a.conn = g.conn
            /\ \/ a.list = g.list
               \/ \E e \in Entry : ~Established(e) /\ a.list = Append(g.list, e)
<1> DEFINE a == con_req(g, h, p, s, d)
           e == [handle |-> h, profile |-> p, scid |-> s, dcid |-> d]
           b == [g EXCEPT !.list = Append(@, e)]
<1>1. a = g \/ a = b BY DEF con_req
<1>2. e \in Entry /\ ~Established(e) BY DEF Entry, Established
<1> HIDE DEF e
<1>3. g \in ProfRec /\ g.list \in Seq(Entry) BY SoundTypes
<1>4. /\ b \in ProfRec /\ b.list = Append(g.list, e) /\ b.conn = g.conn /\ b.ref = g.ref
      /\ b.map = g.map /\ b.timers = g.timers
  <2> DEFINE l == Append(g.list, e)
  <2>1. l \in Seq(Entry) BY <1>2, <1>3
  <2>2. b = [g EXCEPT !.list = l] OBVIOUS
  <2> HIDE DEF l, b
  <2>3. /\ b \in ProfRec /\ b.list = l /\ b.conn = g.conn /\ b.ref = g.ref
        /\ b.map = g.map /\ b.timers = g.timers
    BY <1>3, <2>1, <2>2 DEF ProfRec
  <2> QED BY <2>3 DEF l
<1> HIDE DEF b
<1>5. Balanced(b) BY <1>4, OtherBalanced DEF Sound
<1>6. \A x \in Handles, q \in Profiles : Positions(b.list, x, q) = Positions(g.list, x, q)
  BY <1>2, <1>3, <1>4, PositionsAppend
<1>7. Sound(b) BY <1>4, <1>5, <1>6, SameSound
<1> HIDE DEF a
<1>8. /\ Sound(a) /\ a.conn = g.conn
      /\ \/ a.list = g.list
         \/ \E x \in Entry : ~Established(x) /\ a.list = Append(g.list, x)
  BY <1>1, <1>2, <1>4, <1>7
<1> QED BY <1>8 DEF a

\* handle_l2cap_con_rsp of an answer that accepts.
accepted(g, h, i, s, d) == con_rsp(g, h, i, s, d, TRUE)
\* It counts the profile of the entry it completes.
LEMMA ConRspSound ==
  ASSUME NEW g, Sound(g), NEW h \in Handles, g.conn[h].type = "acl", NEW i \in 1..Len(g.list),
         g.list[i].handle = h, ~Established(g.list[i]), NEW s \in HostCids, NEW d \in RemoteCids
  PROVE  LET a == accepted(g, h, i, s, d)
         IN /\ Sound(a)
            /\ a.list = Complete(g.list, i, s, d)
            /\ \A x \in Handles : a.conn[x].type = g.conn[x].type
<1> DEFINE l == Complete(g.list, i, s, d)
           g1 == [g EXCEPT !.list = l]
           p == g.list[i].profile
           a == add_profile(g1, h, p)
<1>0. g \in ProfRec /\ g.list \in Seq(Entry) /\ i # 0 /\ p \in Psms
  <2>1. \A e \in Entry : e.profile \in Psms BY DEF Entry
  <2> QED BY <2>1, SoundTypes
<1>1. accepted(g, h, i, s, d) = a
  <2>1. [g EXCEPT !.list[i].scid = s, !.list[i].dcid = d] = g1 BY <1>0 DEF ProfRec, Complete
  <2> QED BY <1>0, <2>1 DEF con_rsp, accepted
<1> HIDE DEF l
<1>2. /\ l \in Seq(Entry)
      /\ \A x, q : Cardinality(Positions(l, x, q)) =
              IF x = h /\ q = p THEN Cardinality(Positions(g.list, x, q)) + 1
                                ELSE Cardinality(Positions(g.list, x, q))
  <2>1. Completed(g.list, i, s, d, l) BY <1>0, PositionsSet DEF l
  <2> QED BY <2>1 DEF Completed
<1>3. /\ g1 \in ProfRec /\ g1.list = l /\ g1.conn = g.conn /\ g1.ref = g.ref
      /\ g1.map = g.map /\ g1.timers = g.timers
  BY <1>0, <1>2 DEF ProfRec
<1>4. p \in Counted /\ p \in Profiles /\ p # "sink" /\ p # "hid_interval" BY <1>0, PsmAssumption DEF Counted, Profiles
<1> HIDE DEF g1, p
<1>5. Balanced(g1) BY <1>3, OtherBalanced DEF Sound
<1>6. Balanced(a) BY <1>4, <1>5, AddBalanced
<1>7. Added(g1, h, p, a) BY <1>3, <1>4, AddFields
<1> HIDE DEF a
<1>8. /\ a.list = l /\ \A x \in Handles \ {h} : a.conn[x] = g.conn[x]
      /\ a.conn[h].type = "acl"
      /\ \A q \in Profiles : a.conn[h].ref[q] = IF q = p THEN g.conn[h].ref[q] + 1 ELSE g.conn[h].ref[q]
  BY <1>3, <1>7 DEF Added
<1>9. Tally(a)
  <2> SUFFICES ASSUME NEW x \in Handles
               PROVE  /\ \A q \in Profiles \ {"sink"} : a.conn[x].ref[q] = Expected(a, x, q)
                      /\ a.conn[x].type # "acl" => a.conn[x].ref["sink"] = 0
    BY DEF Tally
  <2>1. /\ \A q \in Profiles \ {"sink"} : g.conn[x].ref[q] = Expected(g, x, q)
        /\ g.conn[x].type # "acl" => g.conn[x].ref["sink"] = 0
        /\ g.conn[x].type \in {"none", "acl", "sco", "le"}
    BY SoundTypes DEF Sound, Tally
  <2>2. CASE x # h
    <3>1. \A q \in Profiles : Expected(a, x, q) = Expected(g, x, q)
      <4>1. a.conn[x] = g.conn[x] /\ \A q : Cardinality(Positions(a.list, x, q)) = Cardinality(Positions(g.list, x, q))
        BY <1>2, <1>8, <2>2
      <4> QED BY <4>1, <2>1 DEF Expected
    <3> QED BY <2>1, <2>2, <3>1, <1>8
  <2>3. CASE x = h
    <3>1. ASSUME NEW q \in Profiles \ {"sink"} PROVE a.conn[h].ref[q] = Expected(a, h, q)
      <4>1. Expected(a, h, q) = Cardinality(Positions(l, h, q)) BY <1>8 DEF Expected
      <4>2. g.conn[h].ref[q] = Cardinality(Positions(g.list, h, q)) BY <2>1, <2>3 DEF Expected
      <4> QED BY <4>1, <4>2, <1>2, <1>8
    <3> QED BY <2>3, <3>1, <1>8
  <2> QED BY <2>2, <2>3
<1>10. \A x \in Handles : a.conn[x].type = g.conn[x].type BY <1>8
<1>11. Sound(a) /\ a.list = l BY <1>6, <1>8, <1>9 DEF Sound
<1> QED BY <1>1, <1>10, <1>11 DEF l
\* update_profile_connection(..., FALSE), once.
LEMMA RemoveOne ==
  ASSUME NEW g, Balanced(g), NEW h \in Handles, NEW p \in Counted, g.conn[h].ref[p] > 0
  PROVE  LET a == remove_profile(g, h, p)
         IN /\ Balanced(a)
            /\ a.list = g.list
            /\ \A x \in Handles \ {h} : a.conn[x] = g.conn[x]
            /\ a.conn[h].type = g.conn[h].type
            /\ \A q \in Profiles : a.conn[h].ref[q] = IF q = p THEN g.conn[h].ref[q] - 1 ELSE g.conn[h].ref[q]
<1> DEFINE n == [q \in Profiles |-> IF q = p THEN 1 ELSE 0]
           a == remove_profile(g, h, p)
<1>0. p \in Profiles /\ p # "hid_interval" /\ "hid_interval" \in Profiles BY DEF Counted, Profiles
<1>1. n \in [Profiles -> Nat] /\ n["hid_interval"] = 0 /\ \A q \in Profiles : n[q] = IF q = p THEN 1 ELSE 0
  BY <1>0
<1>2. \A q \in Profiles : g.conn[h].ref[q] \in Nat
  <2>1. g \in ProfRec BY DEF Balanced
  <2>2. g.conn \in [Handles -> ConnRec] BY <2>1 DEF ProfRec
  <2> QED BY <2>2 DEF ConnRec
<1>3. a = remove_profiles(g, h, n) BY DEF remove_profile
<1> HIDE DEF n, a
<1>4. \A q \in Profiles : n[q] <= g.conn[h].ref[q] BY <1>1, <1>2
<1>5. /\ Balanced(a)
      /\ a.list = g.list
      /\ \A x \in Handles \ {h} : a.conn[x] = g.conn[x]
      /\ a.conn[h].type = g.conn[h].type
      /\ \A q \in Profiles : a.conn[h].ref[q] = g.conn[h].ref[q] - n[q]
  BY <1>1, <1>3, <1>4, RemoveBalanced
<1>6. \A q \in Profiles : a.conn[h].ref[q] = IF q = p THEN g.conn[h].ref[q] - 1 ELSE g.conn[h].ref[q]
  BY <1>1, <1>2, <1>5
<1> QED BY <1>5, <1>6 DEF a

\* With another list.
LEMMA ListBalanced ==
  ASSUME NEW g, Balanced(g), NEW l \in Seq(Entry)
  PROVE  LET a == [g EXCEPT !.list = l]
         IN Balanced(a) /\ a.list = l /\ a.conn = g.conn
<1> DEFINE a == [g EXCEPT !.list = l]
<1>1. g \in ProfRec BY DEF Balanced
<1>2. /\ a \in ProfRec /\ a.list = l /\ a.conn = g.conn /\ a.ref = g.ref /\ a.map = g.map /\ a.timers = g.timers
  BY <1>1 DEF ProfRec
<1> HIDE DEF a
<1>3. Balanced(a) BY <1>2, OtherBalanced
<1> QED BY <1>2, <1>3 DEF a

\* handle_l2cap_discon_req takes the entry out of the list and counts it off.
Disconnected(g, i, a) ==
  /\ Sound(a)
  /\ i = 0 => a = g
  /\ i # 0 => a.list = Without(g.list, {i})
  /\ \A x \in Handles : a.conn[x].type = g.conn[x].type

\* It counts off what the channel has counted, and the sink of an A2DP channel.
LEMMA DisconSound ==
  ASSUME NEW g, Sound(g), NEW h \in Handles, g.conn[h].type = "acl", NEW s \in HostCids, NEW d \in RemoteCids
  PROVE  Disconnected(g, find_both(g, h, d, s), discon_req(g, h, s, d))
<1> DEFINE i == find_both(g, h, d, s)
           a == discon_req(g, h, s, d)
<1> HIDE DEF i, a
<1> SUFFICES Disconnected(g, i, a) BY DEF i, a
<1>a. i = 0 \/ (i \in 1..Len(g.list) /\ g.list[i].handle = h /\ g.list[i].dcid = d /\ g.list[i].scid = s)
  BY Finds, SoundTypes DEF i
<1>b. discon_req(g, h, s, d) =
       LET g1 == remove_profile(g, h, g.list[i].profile)
           g2 == IF g.list[i].profile = "a2dp" /\ "sink" \in g1.conn[h].map
                 THEN remove_profile(g1, h, "sink") ELSE g1
       IN IF i = 0 \/ g.conn[h].type = "none" THEN g ELSE [g2 EXCEPT !.list = Without(@, {i})]
  BY DEF discon_req, i
<1>0. CASE i = 0
  <2>1. a = g BY <1>0, <1>b DEF a
  <2> QED BY <1>0, <2>1 DEF Disconnected
<1>1. CASE i # 0
  <2> DEFINE l == Without(g.list, {i})
             p == g.list[i].profile
             g1 == remove_profile(g, h, p)
             g2 == IF p = "a2dp" /\ "sink" \in g1.conn[h].map THEN remove_profile(g1, h, "sink") ELSE g1
  <2>1. a = [g2 EXCEPT !.list = Without(@, {i})] BY <1>1, <1>b DEF a
  <2>2. /\ i \in 1..Len(g.list) /\ g.list[i].handle = h /\ g.list[i].dcid = d /\ g.list[i].scid = s
        /\ g.list[i] \in Entry /\ g.list \in Seq(Entry)
    BY <1>1, <1>a, SoundTypes
  <2>3. p \in Psms /\ Established(g.list[i])
    <3>1. \A e \in Entry : e.profile \in Psms BY DEF Entry
    <3> QED BY <2>2, <3>1, CidAssumption DEF Established
  <2> HIDE DEF p
  <2>4. p \in Counted /\ p \in Profiles /\ p # "sink" /\ "sink" \in Counted /\ "sink" \in Profiles
    BY <2>3, PsmAssumption DEF Counted, Profiles
  <2>5. i \in Positions(g.list, h, p) BY <2>2, <2>3 DEF Positions, p
  <2>6. g.conn[h].ref[p] = Cardinality(Positions(g.list, h, p)) BY <2>4 DEF Sound, Tally, Expected
  <2>7. g.conn[h].ref[p] > 0
    <3>1. IsFiniteSet(Positions(g.list, h, p)) /\ Cardinality(Positions(g.list, h, p)) \in Nat BY <2>2, PositionsFinite
    <3>2. Cardinality(Positions(g.list, h, p)) # 0 BY <2>5, <3>1, FS_EmptySet
    <3> QED BY <2>6, <3>1, <3>2
  <2>8. Balanced(g) BY DEF Sound
  <2> HIDE DEF g1
  <2>9. /\ Balanced(g1)
        /\ g1.list = g.list
        /\ \A x \in Handles \ {h} : g1.conn[x] = g.conn[x]
        /\ g1.conn[h].type = g.conn[h].type
        /\ \A q \in Profiles : g1.conn[h].ref[q] = IF q = p THEN g.conn[h].ref[q] - 1 ELSE g.conn[h].ref[q]
    BY <2>4, <2>7, <2>8, RemoveOne DEF g1
  <2>10. /\ Balanced(g2)
         /\ g2.list = g.list
         /\ \A x \in Handles \ {h} : g2.conn[x] = g.conn[x]
         /\ g2.conn[h].type = g.conn[h].type
         /\ \A q \in Profiles \ {"sink"} : g2.conn[h].ref[q] = IF q = p THEN g.conn[h].ref[q] - 1 ELSE g.conn[h].ref[q]
    <3>1. CASE p = "a2dp" /\ "sink" \in g1.conn[h].map
      <4>1. g1.conn[h].ref["sink"] > 0 BY <3>1, <2>4, <2>9 DEF Balanced, BitsOf
      <4> DEFINE b == remove_profile(g1, h, "sink")
      <4>2. g2 = b BY <3>1
      <4> HIDE DEF b, g2
      <4>3. /\ Balanced(b)
            /\ b.list = g1.list
            /\ \A x \in Handles \ {h} : b.conn[x] = g1.conn[x]
            /\ b.conn[h].type = g1.conn[h].type
            /\ \A q \in Profiles : b.conn[h].ref[q] = IF q = "sink" THEN g1.conn[h].ref[q] - 1 ELSE g1.conn[h].ref[q]
        BY <4>1, <2>4, <2>9, RemoveOne DEF b
      <4> QED BY <4>2, <4>3, <2>9
    <3>2. CASE ~(p = "a2dp" /\ "sink" \in g1.conn[h].map)
      <4>1. g2 = g1 BY <3>2
      <4> QED BY <4>1, <2>9
    <3> QED BY <3>1, <3>2
  <2> HIDE DEF g2
  <2>11. l \in Seq(Entry) BY <2>2, WithoutMoves
  <2>12. a = [g2 EXCEPT !.list = l] BY <2>1, <2>10
  <2> HIDE DEF l
  <2>13. Balanced(a) /\ a.list = l /\ a.conn = g2.conn BY <2>10, <2>11, <2>12, ListBalanced
  <2>14. ASSUME NEW x \in Handles, NEW q \in Profiles
         PROVE  Cardinality(Positions(l, x, q)) =
                  IF x = h /\ q = p THEN Cardinality(Positions(g.list, x, q)) - 1
                                    ELSE Cardinality(Positions(g.list, x, q))
    <3>1. Cardinality(Positions(l, x, q)) = Cardinality(Positions(g.list, x, q) \ {i})
      BY <2>2, WithoutPositions DEF l
    <3>2. IsFiniteSet(Positions(g.list, x, q)) BY <2>2, PositionsFinite
    <3>3. i \in Positions(g.list, x, q) <=> x = h /\ q = p BY <2>2, <2>5 DEF Positions, p
    <3>4. Cardinality(Positions(g.list, x, q) \ {i}) =
            IF i \in Positions(g.list, x, q) THEN Cardinality(Positions(g.list, x, q)) - 1
                                            ELSE Cardinality(Positions(g.list, x, q))
      BY <3>2, FS_RemoveElement
    <3> QED BY <3>1, <3>3, <3>4
  <2>15. Tally(a)
    <3> SUFFICES ASSUME NEW x \in Handles
                 PROVE  /\ \A q \in Profiles \ {"sink"} : a.conn[x].ref[q] = Expected(a, x, q)
                        /\ a.conn[x].type # "acl" => a.conn[x].ref["sink"] = 0
      BY DEF Tally
    <3>1. /\ \A q \in Profiles \ {"sink"} : g.conn[x].ref[q] = Expected(g, x, q)
          /\ g.conn[x].type # "acl" => g.conn[x].ref["sink"] = 0
          /\ g.conn[x].type \in {"none", "acl", "sco", "le"}
      BY SoundTypes DEF Sound, Tally
    <3>2. CASE x # h
      <4>1. a.conn[x] = g.conn[x] /\ \A q \in Profiles : Cardinality(Positions(a.list, x, q)) = Cardinality(Positions(g.list, x, q))
        BY <2>10, <2>13, <2>14, <3>2
      <4>2. \A q \in Profiles : Expected(a, x, q) = Expected(g, x, q) BY <4>1, <3>1 DEF Expected
      <4> QED BY <4>1, <4>2, <3>1
    <3>3. CASE x = h
      <4>1. ASSUME NEW q \in Profiles \ {"sink"} PROVE a.conn[h].ref[q] = Expected(a, h, q)
        <5>1. Expected(a, h, q) = Cardinality(Positions(l, h, q)) BY <2>10, <2>13 DEF Expected
        <5>2. g.conn[h].ref[q] = Cardinality(Positions(g.list, h, q)) BY <3>1, <3>3 DEF Expected
        <5> QED BY <5>1, <5>2, <2>10, <2>13, <2>14
      <4> QED BY <3>3, <4>1, <2>10, <2>13
    <3> QED BY <3>2, <3>3
  <2>16. \A x \in Handles : a.conn[x].type = g.conn[x].type BY <2>10, <2>13
  <2> QED BY <1>1, <2>13, <2>15, <2>16 DEF Sound, l, Disconnected
<1> QED BY <1>0, <1>1

\* h counts nothing but the sink any more, the other connections are as before.
Emptied(g, h, b) ==
  /\ Balanced(b)
  /\ \A x \in Handles \ {h} : b.conn[x] = g.conn[x]
  /\ \A q \in Profiles \ {"sink"} : b.conn[h].ref[q] = 0
  /\ \A x \in Handles \ {h}, q \in Profiles :
       Cardinality(Positions(b.list, x, q)) = Cardinality(Positions(g.list, x, q))
Gone(l, h) == {i \in 1..Len(l) : l[i].handle = h /\ Established(l[i])}

\* The list loses the established channels of one connection.
LEMMA DropSound ==
  ASSUME NEW g, Sound(g), NEW h \in Handles, g.conn[h].type = "acl"
  PROVE  /\ Emptied(g, h, drop_channels(g, h))
         /\ drop_channels(g, h).list = Without(g.list, Gone(g.list, h))
<1> DEFINE n == [p \in Profiles |-> Cardinality(Positions(g.list, h, p))]
           g1 == remove_profiles(g, h, n)
           l == Without(g.list, Gone(g.list, h))
           a == drop_channels(g, h)
<1>0. g.list \in Seq(Entry) /\ Balanced(g) /\ g.conn[h].ref \in [Profiles -> Nat] BY SoundTypes DEF Sound
<1>1. a = [g1 EXCEPT !.list = l] BY DEF drop_channels, Gone
<1>2. n \in [Profiles -> Nat] BY <1>0, PositionsFinite
<1>3. "hid_interval" \in Profiles /\ "hid_interval" \notin Psms /\ "sink" \notin Psms /\ "sink" \in Profiles
  BY PsmAssumption DEF Profiles
<1>4. n["hid_interval"] = 0 /\ n["sink"] = 0
  <2>1. Positions(g.list, h, "hid_interval") = {} /\ Positions(g.list, h, "sink") = {} BY <1>0, <1>3, PositionsPsm
  <2> QED BY <1>3, <2>1, FS_EmptySet
<1>5. \A p \in Profiles \ {"sink"} : n[p] = g.conn[h].ref[p]
  <2> TAKE p \in Profiles \ {"sink"}
  <2>1. g.conn[h].ref[p] = Expected(g, h, p) BY DEF Sound, Tally
  <2> QED BY <2>1 DEF Expected
<1> HIDE DEF n
<1>6. \A p \in Profiles : n[p] <= g.conn[h].ref[p]
  <2> TAKE p \in Profiles
  <2>1. n[p] \in Nat /\ g.conn[h].ref[p] \in Nat BY <1>0, <1>2
  <2>2. CASE p = "sink" BY <1>4, <2>1, <2>2
  <2>3. CASE p # "sink"
    <3>1. n[p] = g.conn[h].ref[p] BY <1>5, <2>3
    <3> QED BY <3>1, <2>1
  <2> QED BY <2>2, <2>3
<1> HIDE DEF g1, l, a
<1>7. /\ Balanced(g1)
      /\ g1.list = g.list
      /\ \A x \in Handles \ {h} : g1.conn[x] = g.conn[x]
      /\ \A q \in Profiles : g1.conn[h].ref[q] = g.conn[h].ref[q] - n[q]
  <2>1. Balanced(g) /\ n["hid_interval"] = 0 BY <1>0, <1>4
  <2> QED BY <2>1, <1>2, <1>6, RemoveBalanced, SMTT(30) DEF g1
<1>8. l \in Seq(Entry) BY <1>0, WithoutMoves DEF l
<1>9. Balanced(a) /\ a.list = l /\ a.conn = g1.conn BY <1>1, <1>7, <1>8, ListBalanced
<1>10. \A q \in Profiles \ {"sink"} : a.conn[h].ref[q] = 0 BY <1>0, <1>5, <1>7, <1>9
<1>11. ASSUME NEW x \in Handles \ {h}, NEW q \in Profiles
       PROVE  Cardinality(Positions(a.list, x, q)) = Cardinality(Positions(g.list, x, q))
  <2>1. Cardinality(Positions(l, x, q)) = Cardinality(Positions(g.list, x, q) \ Gone(g.list, h))
    BY <1>0, WithoutPositions DEF l
  <2>2. Positions(g.list, x, q) \ Gone(g.list, h) = Positions(g.list, x, q) BY DEF Positions, Gone
  <2> QED BY <2>1, <2>2, <1>9
<1>12. Emptied(g, h, a) BY <1>7, <1>9, <1>10, <1>11 DEF Emptied
<1> QED BY <1>9, <1>12 DEF l, a

\* After that h may have another type and counts nothing.
Restarted(g, h, b, t, a) ==
  /\ Balanced(a) /\ a.list = b.list
  /\ \A x \in Handles \ {h} :
       /\ a.conn[x] = g.conn[x]
       /\ \A q \in Profiles \ {"sink"} : a.conn[x].ref[q] = Expected(a, x, q)
       /\ a.conn[x].type # "acl" => a.conn[x].ref["sink"] = 0
  /\ a.conn[h].type = t /\ \A q \in Profiles : a.conn[h].ref[q] = 0

\* The record of h is new, the others still agree with the list.
LEMMA ResetSound ==
  ASSUME NEW g, Sound(g), NEW h \in Handles, NEW b, Emptied(g, h, b), NEW t \in {"none", "acl", "sco", "le"}
  PROVE  Restarted(g, h, b, t, new_conn(b, h, t))
<1> DEFINE a == new_conn(b, h, t)
<1> HIDE DEF a
<1>0. Balanced(b) /\ \A q \in Profiles \ {"sink"} : b.conn[h].ref[q] = 0 BY DEF Emptied
<1>1. /\ Balanced(a)
      /\ a.list = b.list
      /\ \A x \in Handles \ {h} : a.conn[x] = b.conn[x]
      /\ a.conn[h].type = t
      /\ \A q \in Profiles : a.conn[h].ref[q] = 0
  BY <1>0, ResetBalanced DEF a
<1>2. ASSUME NEW x \in Handles \ {h}
      PROVE  /\ a.conn[x] = g.conn[x]
             /\ \A q \in Profiles \ {"sink"} : a.conn[x].ref[q] = Expected(a, x, q)
             /\ a.conn[x].type # "acl" => a.conn[x].ref["sink"] = 0
  <2>1. /\ \A q \in Profiles \ {"sink"} : g.conn[x].ref[q] = Expected(g, x, q)
        /\ g.conn[x].type # "acl" => g.conn[x].ref["sink"] = 0
        /\ g.conn[x].type \in {"none", "acl", "sco", "le"}
    BY SoundTypes DEF Sound, Tally
  <2>2. a.conn[x] = g.conn[x] /\ \A q \in Profiles : Cardinality(Positions(a.list, x, q)) = Cardinality(Positions(g.list, x, q))
    BY <1>1 DEF Emptied
  <2>3. \A q \in Profiles : Expected(a, x, q) = Expected(g, x, q) BY <2>1, <2>2 DEF Expected
  <2> QED BY <2>1, <2>2, <2>3
<1>3. Restarted(g, h, b, t, a) BY <1>1, <1>2 DEF Restarted
<1> QED BY <1>3 DEF a

\* The end of a link that is counted once, for its own profile.
LEMMA LinkEmptied ==
  ASSUME NEW g, Sound(g), NEW h \in Handles, NEW p \in {"sco", "hid"},
         \A q \in Profiles \ {"sink"} : g.conn[h].ref[q] = IF q = p THEN 1 ELSE 0
  PROVE  Emptied(g, h, remove_profile(g, h, p)) /\ remove_profile(g, h, p).list = g.list
<1> DEFINE b == remove_profile(g, h, p)
<1> HIDE DEF b
<1>1. p \in Counted /\ p \in Profiles \ {"sink"} BY DEF Counted, Profiles
<1>2. g.conn[h].ref[p] = 1 BY <1>1
<1>3. Balanced(g) BY DEF Sound
<1>4. /\ Balanced(b)
      /\ b.list = g.list
      /\ \A x \in Handles \ {h} : b.conn[x] = g.conn[x]
      /\ \A q \in Profiles : b.conn[h].ref[q] = IF q = p THEN g.conn[h].ref[q] - 1 ELSE g.conn[h].ref[q]
  BY <1>1, <1>2, <1>3, RemoveOne DEF b
<1>5. \A q \in Profiles \ {"sink"} : b.conn[h].ref[q] = 0 BY <1>4
<1>6. Emptied(g, h, b) BY <1>4, <1>5 DEF Emptied
<1> QED BY <1>4, <1>6 DEF b

\* rtk_handle_disconnect_complete_evt: b is what is left without the counts of h.
Ended(g, h, a) ==
  /\ Sound(a)
  /\ a.list = IF g.conn[h].type = "acl" THEN Without(g.list, Gone(g.list, h)) ELSE g.list
  /\ a.conn[h].type = "none" /\ \A x \in Handles \ {h} : a.conn[x].type = g.conn[x].type
Unlinked(g, h) ==
  CASE g.conn[h].type = "acl" -> drop_channels(g, h)
    [] g.conn[h].type = "sco" -> remove_profile(g, h, "sco")
    [] g.conn[h].type = "le"  -> remove_profile(g, h, "hid")
\* The end of a connection of any type leaves the counters and the list in agreement.
LEMMA EndSound ==
  ASSUME NEW g, Sound(g), NEW h \in Handles, g.conn[h].type # "none"
  PROVE  Ended(g, h, [Unlinked(g, h) EXCEPT !.conn[h] = NoConn])
<1> DEFINE b == Unlinked(g, h)
           a == new_conn(b, h, "none")
           l == IF g.conn[h].type = "acl" THEN Without(g.list, Gone(g.list, h)) ELSE g.list
<1>0. g.conn[h].type \in {"none", "acl", "sco", "le"} BY SoundTypes
<1> HIDE DEF b, a
<1>1. Emptied(g, h, b) /\ b.list = l
  <2>1. CASE g.conn[h].type = "acl"
    <3>1. b = drop_channels(g, h) BY <2>1 DEF Unlinked, b
    <3> QED BY <2>1, <3>1, DropSound
  <2>2. CASE g.conn[h].type = "sco"
    <3>1. b = remove_profile(g, h, "sco") BY <2>2 DEF Unlinked, b
    <3>2. \A q \in Profiles \ {"sink"} : g.conn[h].ref[q] = IF q = "sco" THEN 1 ELSE 0
      BY <2>2 DEF Sound, Tally, Expected
    <3> QED BY <2>2, <3>1, <3>2, LinkEmptied
  <2>3. CASE g.conn[h].type = "le"
    <3>1. b = remove_profile(g, h, "hid") BY <2>3 DEF Unlinked, b
    <3>2. \A q \in Profiles \ {"sink"} : g.conn[h].ref[q] = IF q = "hid" THEN 1 ELSE 0
      BY <2>3 DEF Sound, Tally, Expected
    <3> QED BY <2>3, <3>1, <3>2, LinkEmptied
  <2> QED BY <1>0, <2>1, <2>2, <2>3
<1> HIDE DEF l
<1>2. Restarted(g, h, b, "none", a) BY <1>1, ResetSound DEF a
<1>3. Tally(a)
  <2>1. \A q \in Profiles : Expected(a, h, q) = 0 BY <1>2 DEF Expected, Restarted
  <2>2. "sink" \in Profiles BY DEF Profiles
  <2> QED BY <1>2, <2>1, <2>2 DEF Tally, Restarted
<1>4. Ended(g, h, a) BY <1>1, <1>2, <1>3 DEF Sound, Restarted, Ended, l
<1>5. a = [b EXCEPT !.conn[h] = NoConn]
  <2>1. [NoConn EXCEPT !.type = "none"] = NoConn BY DEF NoConn
  <2> QED BY <2>1 DEF a, new_conn
<1> QED BY <1>4, <1>5 DEF b

\* The connection complete events.
Begun(g, h, t, a) ==
  /\ Sound(a)
  /\ a.list = g.list
  /\ a.conn[h].type = t /\ \A x \in Handles \ {h} : a.conn[x].type = g.conn[x].type

\* A handle that is not in use counts nothing.
LEMMA BeginEmptied ==
  ASSUME NEW g, Sound(g), NEW h \in Handles, g.conn[h].type = "none", NEW t \in {"acl", "sco", "le"}
  PROVE  Restarted(g, h, g, t, new_conn(g, h, t))
<1>1. \A q \in Profiles \ {"sink"} : g.conn[h].ref[q] = 0 BY DEF Sound, Tally, Expected
<1>2. Emptied(g, h, g) BY <1>1 DEF Emptied, Sound
<1> QED BY <1>2, ResetSound

\* A new link that counts its own profile, if it has one.
LEMMA BegunSound ==
  ASSUME NEW g, Sound(g), NEW h \in Handles,
         \A q \in Profiles : Positions(g.list, h, q) = {},
         NEW t \in {"acl", "sco", "le"}, NEW b, Restarted(g, h, g, t, b),
         NEW a, Balanced(a), a.list = b.list,
         \A x \in Handles \ {h} : a.conn[x].type = b.conn[x].type /\ a.conn[x].ref = b.conn[x].ref,
         a.conn[h].type = t,
         \A q \in Profiles : a.conn[h].ref[q] =
               IF (t = "sco" /\ q = "sco") \/ (t = "le" /\ q = "hid") THEN 1 ELSE 0
  PROVE  Begun(g, h, t, a)
<1>0. "sink" \in Profiles BY DEF Profiles
<1>1. \A x \in Handles \ {h}, q \in Profiles : Expected(a, x, q) = Expected(b, x, q)
  <2> TAKE x \in Handles \ {h}, q \in Profiles
  <2>1. b.conn[x].type \in {"none", "acl", "sco", "le"} BY SoundTypes DEF Restarted
  <2> QED BY <2>1 DEF Expected
<1>2. \A q \in Profiles \ {"sink"} : Expected(a, h, q) = a.conn[h].ref[q]
  <2> TAKE q \in Profiles \ {"sink"}
  <2>1. Cardinality(Positions(a.list, h, q)) = 0 BY FS_EmptySet DEF Restarted
  <2>2. CASE t = "acl" BY <2>1, <2>2 DEF Expected
  <2>3. CASE t = "sco" BY <2>3 DEF Expected
  <2>4. CASE t = "le" BY <2>4 DEF Expected
  <2> QED BY <2>2, <2>3, <2>4
<1>3. ASSUME NEW x \in Handles
      PROVE  /\ \A p \in Profiles \ {"sink"} : a.conn[x].ref[p] = Expected(a, x, p)
             /\ a.conn[x].type # "acl" => a.conn[x].ref["sink"] = 0
  <2>1. CASE x = h BY <2>1, <1>0, <1>2
  <2>2. CASE x # h BY <2>2, <1>1 DEF Restarted
  <2> QED BY <2>1, <2>2
<1>4. Tally(a) BY <1>3 DEF Tally
<1>5. \A x \in Handles \ {h} : a.conn[x].type = g.conn[x].type BY DEF Restarted
<1> QED BY <1>4, <1>5 DEF Begun, Sound, Restarted

\* Counting the profile of a new link, SCO or LE.
LEMMA LinkBegun ==
  ASSUME NEW g, Sound(g), NEW h \in Handles, NEW t \in {"acl", "sco", "le"}, NEW b, Restarted(g, h, g, t, b),
         NEW p \in {"sco", "hid"}
  PROVE  LET a == add_profile(b, h, p)
         IN /\ Balanced(a) /\ a.list = b.list
            /\ \A x \in Handles \ {h} : a.conn[x] = b.conn[x]
            /\ a.conn[h].type = t
            /\ \A q \in Profiles : a.conn[h].ref[q] = IF q = p THEN 1 ELSE 0
<1> DEFINE a == add_profile(b, h, p)
<1>1. p \in Counted /\ p \in Profiles /\ p # "sink" /\ b \in ProfRec /\ Balanced(b) BY DEF Counted, Profiles, Balanced, Restarted
<1>2. Balanced(a) BY <1>1, AddBalanced
<1>3. Added(b, h, p, a) BY <1>1, AddFields
<1> HIDE DEF a
<1>4. b.conn[h].type = t /\ \A q \in Profiles : b.conn[h].ref[q] = 0 BY DEF Restarted
<1>5. /\ a.list = b.list /\ \A x \in Handles \ {h} : a.conn[x] = b.conn[x]
      /\ a.conn[h].type = t
      /\ \A q \in Profiles : a.conn[h].ref[q] = IF q = p THEN b.conn[h].ref[q] + 1 ELSE b.conn[h].ref[q]
  BY <1>3, <1>4 DEF Added
<1>6. \A q \in Profiles : a.conn[h].ref[q] = IF q = p THEN 1 ELSE 0 BY <1>4, <1>5
<1> QED BY <1>2, <1>5, <1>6 DEF a

\* rtk_handle_connection_complete_evt for an ACL link,
LEMMA AclBegins ==
  ASSUME NEW g, Sound(g), NEW h \in Handles, g.conn[h].type = "none",
         \A q \in Profiles : Positions(g.list, h, q) = {}
  PROVE  Begun(g, h, "acl", new_conn(g, h, "acl"))
<1> DEFINE a == new_conn(g, h, "acl")
<1> HIDE DEF a
<1>1. Restarted(g, h, g, "acl", a) BY BeginEmptied DEF a
<1>2. /\ Balanced(a) /\ a.conn[h].type = "acl"
      /\ \A q \in Profiles : a.conn[h].ref[q] = IF ("acl" = "sco" /\ q = "sco") \/ ("acl" = "le" /\ q = "hid") THEN 1 ELSE 0
  BY <1>1 DEF Restarted
<1>3. Begun(g, h, "acl", a) BY <1>1, <1>2, BegunSound
<1> QED BY <1>3 DEF a

\* for a SCO link,
LEMMA ScoBegins ==
  ASSUME NEW g, Sound(g), NEW h \in Handles, g.conn[h].type = "none",
         \A q \in Profiles : Positions(g.list, h, q) = {}
  PROVE  Begun(g, h, "sco", add_profile(new_conn(g, h, "sco"), h, "sco"))
<1> DEFINE b == new_conn(g, h, "sco")
           a == add_profile(b, h, "sco")
<1> HIDE DEF a, b
<1>1. Restarted(g, h, g, "sco", b) BY BeginEmptied DEF b
<1>2. /\ Balanced(a) /\ a.list = b.list
      /\ \A x \in Handles \ {h} : a.conn[x] = b.conn[x]
      /\ a.conn[h].type = "sco"
      /\ \A q \in Profiles : a.conn[h].ref[q] = IF q = "sco" THEN 1 ELSE 0
  BY <1>1, LinkBegun DEF a
<1>3. \A q \in Profiles : a.conn[h].ref[q] = IF ("sco" = "sco" /\ q = "sco") \/ ("sco" = "le" /\ q = "hid") THEN 1 ELSE 0
  BY <1>2
<1>4. Begun(g, h, "sco", a) BY <1>1, <1>2, <1>3, BegunSound
<1> QED BY <1>4 DEF a, b

\* and rtk_handle_le_connection_complete_evt.
LEMMA LeBegins ==
  ASSUME NEW g, Sound(g), NEW h \in Handles, g.conn[h].type = "none",
         \A q \in Profiles : Positions(g.list, h, q) = {}, NEW short \in BOOLEAN
  PROVE  Begun(g, h, "le", hid_active(add_profile(new_conn(g, h, "le"), h, "hid"), h, short))
<1> DEFINE b == new_conn(g, h, "le")
           c == add_profile(b, h, "hid")
           a == hid_active(c, h, short)
<1> HIDE DEF a, b, c
<1>1. Restarted(g, h, g, "le", b) BY BeginEmptied DEF b
<1>2. /\ Balanced(c) /\ c.list = b.list
      /\ \A x \in Handles \ {h} : c.conn[x] = b.conn[x]
      /\ c.conn[h].type = "le"
      /\ \A q \in Profiles : c.conn[h].ref[q] = IF q = "hid" THEN 1 ELSE 0
  BY <1>1, LinkBegun DEF c
<1>3. /\ Balanced(a) /\ a.list = c.list
      /\ \A x \in Handles : a.conn[x].type = c.conn[x].type /\ a.conn[x].ref = c.conn[x].ref
  BY <1>2, HidBalanced DEF a
<1>4. \A q \in Profiles : a.conn[h].ref[q] = IF ("le" = "sco" /\ q = "sco") \/ ("le" = "le" /\ q = "hid") THEN 1 ELSE 0
  BY <1>2, <1>3
<1>5. \A x \in Handles \ {h} : a.conn[x].type = b.conn[x].type /\ a.conn[x].ref = b.conn[x].ref BY <1>2, <1>3
<1>6. a.list = b.list /\ a.conn[h].type = "le" BY <1>2, <1>3
<1>7. Begun(g, h, "le", a) BY <1>1, <1>3, <1>4, <1>5, <1>6, BegunSound
<1> QED BY <1>7 DEF a, b, c

\* A change of the interval.
LEMMA IntervalSound ==
  ASSUME NEW g, Sound(g), NEW h \in Handles, NEW short \in BOOLEAN
  PROVE  LET a == hid_active(g, h, short)
         IN /\ Sound(a) /\ a.list = g.list
            /\ \A x \in Handles : a.conn[x].type = g.conn[x].type
<1> DEFINE a == hid_active(g, h, short)
<1> HIDE DEF a
<1>0. Balanced(g) BY DEF Sound
<1>1. /\ Balanced(a) /\ a.list = g.list
      /\ \A x \in Handles : a.conn[x].type = g.conn[x].type /\ a.conn[x].ref = g.conn[x].ref
  BY <1>0, HidBalanced DEF a
<1>2. Sound(a) BY <1>1, SameSound
<1> QED BY <1>1, <1>2 DEF a

\* What a step leaves as it is: the list and the types of the connections.
Kept(g, a) ==
  /\ Sound(a)
  /\ a.list = g.list
  /\ \A x \in Handles : a.conn[x].type = g.conn[x].type

\* A change of nothing but the status and the packet counts.
WithStatus(g, st, n) == [g EXCEPT !.status = st, !.count = n]
\* The counters and the list do not depend on them.
LEMMA StatusSound ==
  ASSUME NEW g, Sound(g), NEW st \in SUBSET Profiles, NEW n \in [Timers -> Nat]
  PROVE  Kept(g, WithStatus(g, st, n))
<1> DEFINE a == WithStatus(g, st, n)
<1>1. g \in ProfRec /\ Balanced(g) BY SoundTypes DEF Sound
<1>2. /\ a \in ProfRec /\ a.conn = g.conn /\ a.ref = g.ref /\ a.map = g.map /\ a.timers = g.timers /\ a.list = g.list
  BY <1>1 DEF ProfRec, WithStatus
<1> HIDE DEF a
<1>3. Balanced(a) BY <1>1, <1>2, OtherBalanced
<1>4. Sound(a) BY <1>2, <1>3, SameSound
<1>5. Kept(g, a) BY <1>2, <1>4 DEF Kept
<1> QED BY <1>5 DEF a

\* The sink of a stream is counted.
LEMMA SinkSound ==
  ASSUME NEW g, Sound(g), NEW h \in Handles, g.conn[h].type = "acl"
  PROVE  Kept(g, add_profile(g, h, "sink"))
<1> DEFINE a == add_profile(g, h, "sink")
<1>0. g \in ProfRec /\ Balanced(g) /\ "sink" \in Counted /\ "sink" \in Profiles
  BY SoundTypes DEF Sound, Counted, Profiles
<1>1. Balanced(a) BY <1>0, AddBalanced
<1>2. Added(g, h, "sink", a) BY <1>0, AddFields
<1> HIDE DEF a
<1>3. /\ a.list = g.list /\ \A x \in Handles \ {h} : a.conn[x] = g.conn[x]
      /\ a.conn[h].type = g.conn[h].type
      /\ \A q \in Profiles \ {"sink"} : a.conn[h].ref[q] = g.conn[h].ref[q]
  BY <1>2 DEF Added
<1>4. \A x \in Handles : a.conn[x].type = g.conn[x].type BY <1>3
<1>5. ASSUME NEW x \in Handles
      PROVE  /\ \A q \in Profiles \ {"sink"} : a.conn[x].ref[q] = Expected(a, x, q)
             /\ a.conn[x].type # "acl" => a.conn[x].ref["sink"] = 0
  <2>1. /\ \A q \in Profiles \ {"sink"} : g.conn[x].ref[q] = Expected(g, x, q)
        /\ g.conn[x].type # "acl" => g.conn[x].ref["sink"] = 0
        /\ g.conn[x].type \in {"none", "acl", "sco", "le"}
    BY SoundTypes DEF Sound, Tally
  <2>2. \A q \in Profiles : Expected(a, x, q) = Expected(g, x, q) BY <1>3, <1>4, <2>1 DEF Expected
  <2>3. CASE x = h BY <2>1, <2>2, <2>3, <1>3
  <2>4. CASE x # h BY <2>1, <2>2, <2>4, <1>3
  <2> QED BY <2>3, <2>4
<1>6. Tally(a) BY <1>5 DEF Tally
<1>7. Kept(g, a) BY <1>1, <1>3, <1>4, <1>6 DEF Kept, Sound
<1> QED BY <1>7 DEF a

\* update_profile_state changes the status only.
LEMMA BusySound ==
  ASSUME NEW g, Sound(g), NEW p \in Profiles
  PROVE  Kept(g, set_busy(g, p))
<1> DEFINE a == [g EXCEPT !.status = @ \cup {p}]
           st == g.status \cup {p}
<1>0. /\ g \in ProfRec /\ st \in SUBSET Profiles /\ g.count \in [Timers -> Nat] BY SoundTypes
<1>1. a = WithStatus(g, st, g.count)
  <2>1. a = [g EXCEPT !.status = st] OBVIOUS
  <2> HIDE DEF a, st
  <2> QED BY <1>0, <2>1 DEF ProfRec, WithStatus
<1> HIDE DEF a, st
<1>2. Kept(g, a) BY <1>0, <1>1, StatusSound
<1>3. set_busy(g, p) = g \/ set_busy(g, p) = a BY DEF set_busy, a
<1> QED BY <1>2, <1>3 DEF Kept

\* A data packet is counted up to the limit.
LEMMA CountSound ==
  ASSUME NEW g, Sound(g), NEW p \in Timers, NEW limit \in Nat
  PROVE  Kept(g, [g EXCEPT !.count[p] = IF @ < limit THEN @ + 1 ELSE @])
<1> DEFINE a == [g EXCEPT !.count[p] = IF @ < limit THEN @ + 1 ELSE @]
           n == [g.count EXCEPT ![p] = IF @ < limit THEN @ + 1 ELSE @]
<1>0. /\ g \in ProfRec /\ g.status \in SUBSET Profiles /\ g.count \in [Timers -> Nat] BY SoundTypes
<1>1. n \in [Timers -> Nat] BY <1>0
<1>2. a = WithStatus(g, g.status, n)
  <2>1. a = [g EXCEPT !.count = n] OBVIOUS
  <2> HIDE DEF a, n
  <2> QED BY <1>0, <2>1 DEF ProfRec, WithStatus
<1> HIDE DEF a, n
<1>3. Kept(g, a) BY <1>0, <1>1, <1>2, StatusSound
<1> QED BY <1>3 DEF a

\* One such step after another.
LEMMA KeptTrans ==
  ASSUME NEW a, NEW b, NEW c, Kept(a, b), Kept(b, c)
  PROVE  Kept(a, c)
BY DEF Kept

\* packets_count
LEMMA PacketSound ==
  ASSUME NEW g, Sound(g), NEW h \in Handles, g.conn[h].type = "acl", NEW p \in Timers,
         NEW first \in BOOLEAN, NEW incoming \in BOOLEAN, NEW limit \in Nat
  PROVE  LET g1 == IF first THEN set_busy(g, "a2dp") ELSE g
             g2 == IF first /\ incoming THEN set_busy(add_profile(g1, h, "sink"), "sink") ELSE g1
         IN Kept(g, [g2 EXCEPT !.count[p] = IF @ < limit THEN @ + 1 ELSE @])
<1> DEFINE g1 == IF first THEN set_busy(g, "a2dp") ELSE g
           b == add_profile(g1, h, "sink")
           g2 == IF first /\ incoming THEN set_busy(b, "sink") ELSE g1
           a == [g2 EXCEPT !.count[p] = IF @ < limit THEN @ + 1 ELSE @]
<1>0. "a2dp" \in Profiles /\ "sink" \in Profiles BY DEF Profiles
<1>1. Kept(g, g) BY DEF Kept
<1>2. Kept(g, g1) BY <1>0, <1>1, BusySound
<1> HIDE DEF g1
<1>3. Kept(g1, b) BY <1>2, SinkSound DEF Kept
<1> HIDE DEF b
<1>4. Kept(b, set_busy(b, "sink")) BY <1>0, <1>3, BusySound DEF Kept
<1>5. Kept(g, g2)
  <2>1. Kept(g, b) BY <1>2, <1>3, KeptTrans
  <2>2. Kept(g, set_busy(b, "sink")) BY <2>1, <1>4, KeptTrans
  <2> QED BY <1>2, <2>2
<1> HIDE DEF g2
<1>6. Kept(g2, a) BY <1>5, CountSound DEF Kept
<1> HIDE DEF a
<1>7. Kept(g, a) BY <1>5, <1>6, KeptTrans
<1> QED BY <1>7 DEF a, g2, b, g1

-----------------------------------------------------------------------------
(* The signals.  The list knows an established channel as long as its two  *)
(* ends do, but for signals on their way to the parser.                    *)

\* Two records of the same channel.
Same(a, b) == a.handle = b.handle /\ a.scid = b.scid /\ a.dcid = b.dcid
Known(C, e) == \E c \in C : Same(c, e)
EndsAfter(q, k, e) == \E j \in 1..Len(q) : j > k /\ q[j].kind = "discon" /\ Same(q[j], e)
NotUsed(l, x) ==
  \A i \in 1..Len(l) : Established(l[i]) /\ l[i].handle = x.handle => l[i].dcid # x.dcid

ChanShape(g, C) ==
  \A c \in C : /\ c \in Chan
               /\ g.conn[c.handle].type = "acl"
               /\ c.st = "asked" <=> c.dcid = 0
               /\ c.st = "answering" <=> c.scid = 0
ChansDiffer(C) ==
  \A c, d \in C : c # d /\ c.handle = d.handle =>
    /\ c.scid # 0 => c.scid # d.scid
    /\ c.dcid # 0 => c.dcid # d.dcid
LateShape(g, q) ==
  /\ q \in Seq(Sig)
  /\ \A k \in 1..Len(q) : g.conn[q[k].handle].type = "acl"
EstAcl(g) == \A i \in 1..Len(g.list) : Established(g.list[i]) => g.conn[g.list[i].handle].type = "acl"
EstDiffer(l) ==
  \A i, j \in 1..Len(l) :
    i # j /\ Established(l[i]) /\ Established(l[j]) /\ l[i].handle = l[j].handle => l[i].dcid # l[j].dcid
EstKnown(l, C, q) ==
  \A i \in 1..Len(l) : Established(l[i]) => Known(C, l[i]) \/ EndsAfter(q, 0, l[i])
RspKnown(C, q) ==
  \A k \in 1..Len(q) : q[k].kind = "rsp" /\ q[k].ok => Known(C, q[k]) \/ EndsAfter(q, k, q[k])
Answering(l, C, q) ==
  \A c \in C : c.st = "answering" =>
    /\ NotUsed(l, c)
    /\ \A k \in 1..Len(q) : q[k].kind # "req" /\ q[k].handle = c.handle => q[k].dcid # c.dcid
RspFirst(l, q) ==
  \A k \in 1..Len(q) : q[k].kind = "rsp" =>
    /\ NotUsed(l, q[k])
    /\ \A j \in 1..Len(q) :
         j # k /\ q[j].kind # "req" /\ q[j].handle = q[k].handle /\ q[j].dcid = q[k].dcid
           => q[j].kind = "discon" /\ j > k
Protocol(g, C, q) ==
  /\ ChanShape(g, C) /\ ChansDiffer(C) /\ LateShape(g, q)
  /\ EstAcl(g) /\ EstDiffer(g.list) /\ EstKnown(g.list, C, q)
  /\ RspKnown(C, q) /\ Answering(g.list, C, q) /\ RspFirst(g.list, q)

\* l2 has no established channel that l does not have.
Fewer(l, l2) ==
  /\ EstDiffer(l2)
  /\ \A k \in 1..Len(l2) : Established(l2[k]) => \E i \in 1..Len(l) : l2[k] = l[i]

\* A request without an answer is no established channel.
LEMMA FewerAppend ==
  ASSUME NEW l \in Seq(Entry), EstDiffer(l), NEW e \in Entry, ~Established(e)
  PROVE  Fewer(l, Append(l, e))
<1> DEFINE l2 == Append(l, e)
<1> PICK n \in Nat : n = Len(l) OBVIOUS
<1>1. Len(l2) = n + 1 /\ l2[n + 1] = e /\ \A i \in 1..n : l2[i] = l[i] OBVIOUS
<1> HIDE DEF l2
<1>2. \A k \in 1..Len(l2) : Established(l2[k]) => k \in 1..n /\ l2[k] = l[k]
  <2> SUFFICES ASSUME NEW k \in 1..Len(l2), Established(l2[k]) PROVE k \in 1..n /\ l2[k] = l[k] OBVIOUS
  <2>1. k # n + 1 BY <1>1
  <2>2. k \in 1..n BY <2>1, <1>1
  <2> QED BY <2>2, <1>1
<1>3. EstDiffer(l2) BY <1>2 DEF EstDiffer
<1>4. Fewer(l, l2) BY <1>2, <1>3 DEF Fewer
<1> QED BY <1>4 DEF l2

\* What is gone is not in the list any more.
Cut(l, gone, w) ==
  /\ Fewer(l, w)
  /\ \A k \in 1..Len(w) : Established(w[k]) => \E i \in (1..Len(l)) \ gone : w[k] = l[i]

\* Deleting entries leaves established channels with different numbers.
LEMMA FewerWithout ==
  ASSUME NEW l \in Seq(Entry), EstDiffer(l), NEW gone
  PROVE  Cut(l, gone, Without(l, gone))
<1> DEFINE w == Without(l, gone)
<1> HIDE DEF w
<1>1. w \in Seq(Entry) /\ Moved(l, gone, w) BY WithoutMoves DEF w
<1>2. PICK f \in [1..Len(w) -> (1..Len(l)) \ gone] :
             /\ \A k \in 1..Len(w) : w[k] = l[f[k]]
             /\ \A a, b \in 1..Len(w) : f[a] = f[b] => a = b
  BY <1>1 DEF Moved
<1>3. EstDiffer(w)
  <2> SUFFICES ASSUME NEW i \in 1..Len(w), NEW j \in 1..Len(w), i # j,
                      Established(w[i]), Established(w[j]), w[i].handle = w[j].handle
               PROVE  w[i].dcid # w[j].dcid
    BY DEF EstDiffer
  <2>1. f[i] \in 1..Len(l) /\ f[j] \in 1..Len(l) /\ f[i] # f[j] BY <1>2
  <2>2. w[i] = l[f[i]] /\ w[j] = l[f[j]] BY <1>2
  <2> QED BY <2>1, <2>2 DEF EstDiffer
<1>4. \A k \in 1..Len(w) : f[k] \in (1..Len(l)) \ gone /\ w[k] = l[f[k]] BY <1>2
<1>5. Fewer(l, w) BY <1>3, <1>4 DEF Fewer
<1>6. Cut(l, gone, w) BY <1>4, <1>5 DEF Cut
<1> QED BY <1>6 DEF w

\* The list as it is.
LEMMA FewerSame ==
  ASSUME NEW l, EstDiffer(l)
  PROVE  Fewer(l, l)
BY DEF Fewer

\* A number that is free stays free.
LEMMA FewerNotUsed ==
  ASSUME NEW l, NEW l2, Fewer(l, l2), NEW x, NotUsed(l, x)
  PROVE  NotUsed(l2, x)
BY DEF Fewer, NotUsed

\* Nothing of a connection that is not an ACL connection is established.
LEMMA NoPositions ==
  ASSUME NEW g, EstAcl(g), NEW h, g.conn[h].type # "acl", NEW p
  PROVE  Positions(g.list, h, p) = {}
BY DEF EstAcl, Positions

\* The steps that leave the list, the channels and the signals alone.
LEMMA KeptProtocol ==
  ASSUME NEW g, Sound(g), NEW a, NEW C, NEW q, Protocol(g, C, q), a.list = g.list,
         \A x \in Handles : g.conn[x].type = "acl" => a.conn[x].type = "acl"
  PROVE  Protocol(a, C, q)
<1>1. \A e \in Entry : e.handle \in Handles BY DEF Entry
<1>2. \A i \in 1..Len(g.list) : g.list[i].handle \in Handles BY <1>1, SoundTypes
<1>3. EstAcl(a) BY <1>2 DEF EstAcl, Protocol
<1>4. \A c \in Chan : c.handle \in Handles BY DEF Chan
<1>5. ChanShape(a, C) BY <1>4 DEF ChanShape, Protocol
<1>6. \A k \in 1..Len(q) : q[k].handle \in Handles BY SigFields DEF LateShape, Protocol
<1>7. LateShape(a, q) BY <1>6 DEF LateShape, Protocol
<1> QED BY <1>3, <1>5, <1>7 DEF Protocol

\* With no signal on its way.
Settled(l, C) ==
  /\ \A i \in 1..Len(l) : Established(l[i]) => Known(C, l[i])
  /\ \A c \in C : c.st = "answering" => NotUsed(l, c)

\* Then the protocol invariant is about list and channels alone.
LEMMA NothingLate ==
  ASSUME NEW g, NEW C
  PROVE  Protocol(g, C, << >>) <=>
           /\ ChanShape(g, C) /\ ChansDiffer(C) /\ EstAcl(g) /\ EstDiffer(g.list) /\ Settled(g.list, C)
<1> DEFINE q == << >>
<1>1. q \in Seq(Sig) /\ Len(q) = 0 /\ 1..Len(q) = {} OBVIOUS
<1> HIDE DEF q
<1>2. LateShape(g, q) /\ RspKnown(C, q) /\ RspFirst(g.list, q) BY <1>1 DEF LateShape, RspKnown, RspFirst
<1>3. \A k, e : ~EndsAfter(q, k, e) BY <1>1 DEF EndsAfter
<1>4. EstKnown(g.list, C, q) /\ Answering(g.list, C, q) <=> Settled(g.list, C)
  BY <1>1, <1>3 DEF EstKnown, Answering, Settled
<1>5. Protocol(g, C, q) <=>
           /\ ChanShape(g, C) /\ ChansDiffer(C) /\ EstAcl(g) /\ EstDiffer(g.list) /\ Settled(g.list, C)
  BY <1>2, <1>4 DEF Protocol
<1> QED BY <1>5 DEF q

\* A connection ends.
Apart(C, h) == {c \in C : c.handle # h}
\* Its channels are gone on both sides and in the list.
LEMMA EndProtocol ==
  ASSUME NEW g, Sound(g), NEW h \in Handles, NEW a, Ended(g, h, a), NEW C, Protocol(g, C, << >>)
  PROVE  Protocol(a, Apart(C, h), << >>)
<1>0. /\ ChanShape(g, C) /\ ChansDiffer(C) /\ EstAcl(g) /\ EstDiffer(g.list) /\ Settled(g.list, C)
  BY NothingLate
<1>1. g.list \in Seq(Entry) BY SoundTypes
<1>2. /\ Fewer(g.list, a.list)
      /\ \A k \in 1..Len(a.list) : Established(a.list[k]) => a.list[k].handle # h
  <2>1. CASE g.conn[h].type = "acl"
    <3>1. a.list = Without(g.list, Gone(g.list, h)) BY <2>1 DEF Ended
    <3>2. Cut(g.list, Gone(g.list, h), a.list)
      BY <1>0, <1>1, <3>1, FewerWithout
    <3> QED BY <3>2 DEF Gone, Cut
  <2>2. CASE g.conn[h].type # "acl"
    <3>1. a.list = g.list BY <2>2 DEF Ended
    <3> QED BY <1>0, <2>2, <3>1, FewerSame DEF EstAcl
  <2> QED BY <2>1, <2>2
<1>3. \A x \in Handles \ {h} : a.conn[x].type = g.conn[x].type BY DEF Ended
<1>4. ChanShape(a, Apart(C, h))
  <2>1. \A c \in Chan : c.handle \in Handles BY DEF Chan
  <2> QED BY <1>0, <1>3, <2>1 DEF ChanShape, Apart
<1>5. ChansDiffer(Apart(C, h)) BY <1>0 DEF ChansDiffer, Apart
<1>6. EstAcl(a)
  <2>1. \A e \in Entry : e.handle \in Handles BY DEF Entry
  <2>2. \A i \in 1..Len(g.list) : g.list[i].handle \in Handles BY <2>1, SoundTypes
  <2>3. ASSUME NEW k \in 1..Len(a.list), Established(a.list[k]) PROVE a.conn[a.list[k].handle].type = "acl"
    <3>1. PICK i \in 1..Len(g.list) : a.list[k] = g.list[i] BY <1>2, <2>3 DEF Fewer
    <3>2. g.conn[g.list[i].handle].type = "acl" BY <1>0, <2>3, <3>1 DEF EstAcl
    <3> QED BY <3>1, <3>2, <2>2, <2>3, <1>2, <1>3
  <2> QED BY <2>3 DEF EstAcl
<1>7. EstDiffer(a.list) BY <1>2 DEF Fewer
<1>8. ASSUME NEW k \in 1..Len(a.list), Established(a.list[k]) PROVE Known(Apart(C, h), a.list[k])
  <2>1. PICK i \in 1..Len(g.list) : a.list[k] = g.list[i] BY <1>2, <1>8 DEF Fewer
  <2>2. PICK c \in C : Same(c, a.list[k]) BY <1>0, <1>8, <2>1 DEF Settled, Known
  <2>3. c \in Apart(C, h) BY <1>2, <1>8, <2>2 DEF Apart, Same
  <2> QED BY <2>2, <2>3 DEF Known
<1>9. ASSUME NEW c \in Apart(C, h), c.st = "answering" PROVE NotUsed(a.list, c)
  <2>1. NotUsed(g.list, c) BY <1>0, <1>9 DEF Settled, Apart
  <2> QED BY <2>1, <1>2, FewerNotUsed
<1>10. Settled(a.list, Apart(C, h)) BY <1>8, <1>9 DEF Settled
<1> QED BY <1>4, <1>5, <1>6, <1>7, <1>10, NothingLate


\* The handlers of the signals, as the list sees them.
SameTypes(g, a) == \A x \in Handles : a.conn[x].type = g.conn[x].type

\* A request: no channel becomes established.
LEMMA ReqFewer ==
  ASSUME NEW g, Sound(g), EstDiffer(g.list), NEW h \in Handles, NEW p \in Psms,
         NEW s \in HostCids \cup {0}, NEW d \in RemoteCids \cup {0}, s = 0 \/ d = 0
  PROVE  LET a == con_req(g, h, p, s, d)
         IN Sound(a) /\ SameTypes(g, a) /\ Fewer(g.list, a.list)
<1> DEFINE a == con_req(g, h, p, s, d)
<1> HIDE DEF a
<1>1. /\ Sound(a) /\ a.conn = g.conn
      /\ \/ a.list = g.list
         \/ \E e \in Entry : ~Established(e) /\ a.list = Append(g.list, e)
  BY ConReqSound DEF a
<1>2. Fewer(g.list, a.list)
  <2>1. CASE a.list = g.list BY <2>1, FewerSame
  <2>2. CASE a.list # g.list
    <3>1. PICK e \in Entry : ~Established(e) /\ a.list = Append(g.list, e) BY <1>1, <2>2
    <3>2. g.list \in Seq(Entry) BY SoundTypes
    <3> QED BY <3>1, <3>2, FewerAppend
  <2> QED BY <2>1, <2>2
<1> QED BY <1>1, <1>2 DEF SameTypes, a

\* The channel that x names may become established.
Gains(l, l2, x) ==
  /\ EstDiffer(l2)
  /\ \A k \in 1..Len(l2) : Established(l2[k]) => Same(x, l2[k]) \/ \E i \in 1..Len(l) : l2[k] = l[i]

\* An answer that accepts: the channel of x becomes established, no other one does.
LEMMA RspGains ==
  ASSUME NEW g, Sound(g), EstDiffer(g.list), NEW x, x.handle \in Handles, g.conn[x.handle].type = "acl",
         x.scid \in HostCids, x.dcid \in RemoteCids, NotUsed(g.list, x),
         NEW i, i = 0 \/ (i \in 1..Len(g.list) /\ g.list[i].handle = x.handle /\ ~Established(g.list[i]))
  PROVE  LET a == accepted(g, x.handle, i, x.scid, x.dcid)
         IN Sound(a) /\ SameTypes(g, a) /\ Gains(g.list, a.list, x)
<1> DEFINE h == x.handle
           s == x.scid
           d == x.dcid
           a == accepted(g, h, i, s, d)
<1>0. g.list \in Seq(Entry) BY SoundTypes
<1>1. CASE i = 0
  <2>1. a = g BY <1>1 DEF con_rsp, accepted
  <2> HIDE DEF a
  <2>2. Sound(a) /\ SameTypes(g, a) /\ Gains(g.list, a.list, x) BY <2>1 DEF SameTypes, Gains
  <2> QED BY <2>2 DEF a
<1>2. CASE i # 0
  <2> HIDE DEF a
  <2>0. h \in Handles /\ s \in HostCids /\ d \in RemoteCids /\ g.conn[h].type = "acl"
        /\ i \in 1..Len(g.list) /\ g.list[i].handle = h /\ ~Established(g.list[i])
    BY <1>2
  <2> HIDE DEF h, s, d
  <2>1. /\ Sound(a)
        /\ a.list = Complete(g.list, i, s, d)
        /\ \A y \in Handles : a.conn[y].type = g.conn[y].type
    BY <2>0, ConRspSound DEF a
  <2>2. Completed(g.list, i, s, d, a.list) BY <1>0, <2>0, <2>1, PositionsSet
  <2>3. /\ Len(a.list) = Len(g.list)
        /\ a.list[i].handle = h /\ a.list[i].scid = s /\ a.list[i].dcid = d
        /\ \A j \in 1..Len(g.list) : j # i => a.list[j] = g.list[j]
    BY <2>0, <2>2 DEF Completed
  <2>4. \A j \in 1..Len(g.list) : Established(g.list[j]) /\ g.list[j].handle = h => g.list[j].dcid # d
    BY DEF NotUsed, h, d
  <2>5. EstDiffer(a.list)
    <3> SUFFICES ASSUME NEW k \in 1..Len(a.list), NEW j \in 1..Len(a.list), k # j,
                        Established(a.list[k]), Established(a.list[j]), a.list[k].handle = a.list[j].handle
                 PROVE  a.list[k].dcid # a.list[j].dcid
      BY DEF EstDiffer
    <3>1. CASE k = i BY <3>1, <2>3, <2>4
    <3>2. CASE j = i BY <3>2, <2>3, <2>4
    <3>3. CASE k # i /\ j # i BY <3>3, <2>3 DEF EstDiffer
    <3> QED BY <3>1, <3>2, <3>3
  <2>6. Same(x, a.list[i]) BY <2>3 DEF Same, h, s, d
  <2>7. \A k \in 1..Len(a.list) : k = i \/ \E j \in 1..Len(g.list) : a.list[k] = g.list[j] BY <2>3
  <2>8. Gains(g.list, a.list, x) BY <2>5, <2>6, <2>7 DEF Gains
  <2>9. Sound(a) /\ SameTypes(g, a) /\ Gains(g.list, a.list, x) BY <2>1, <2>8 DEF SameTypes
  <2> QED BY <2>9 DEF a, h, s, d
<1> QED BY <1>1, <1>2

\* The channel that x names is not established any more.
LEMMA DisconFewer ==
  ASSUME NEW g, Sound(g), EstDiffer(g.list), NEW x, x.handle \in Handles, g.conn[x.handle].type = "acl",
         x.scid \in HostCids, x.dcid \in RemoteCids
  PROVE  LET a == discon_req(g, x.handle, x.scid, x.dcid)
         IN /\ Sound(a) /\ SameTypes(g, a) /\ Fewer(g.list, a.list)
            /\ \A k \in 1..Len(a.list) : Established(a.list[k]) => ~Same(x, a.list[k])
<1> DEFINE h == x.handle
           s == x.scid
           d == x.dcid
           i == find_both(g, h, d, s)
           a == discon_req(g, h, s, d)
<1>1. h \in Handles /\ s \in HostCids /\ d \in RemoteCids /\ g.conn[h].type = "acl" OBVIOUS
<1>2. g.list \in Seq(Entry) BY SoundTypes
<1>3. /\ i = 0 \/ (i \in 1..Len(g.list) /\ g.list[i].handle = h /\ g.list[i].dcid = d /\ g.list[i].scid = s)
      /\ i = 0 => \A k \in 1..Len(g.list) : ~(g.list[k].handle = h /\ g.list[k].dcid = d /\ g.list[k].scid = s)
  BY <1>2, Finds
<1> HIDE DEF i, a, h, s, d
<1>4. /\ Sound(a)
      /\ i = 0 => a = g
      /\ i # 0 => a.list = Without(g.list, {i})
      /\ \A y \in Handles : a.conn[y].type = g.conn[y].type
  <2>1. Disconnected(g, i, a) BY <1>1, DisconSound DEF a, i
  <2> QED BY <2>1 DEF Disconnected
<1>5. /\ Fewer(g.list, a.list)
      /\ \A k \in 1..Len(a.list) : Established(a.list[k]) => ~Same(x, a.list[k])
  <2>1. CASE i = 0 BY <1>3, <1>4, <2>1, FewerSame DEF Same, h, s, d
  <2>2. CASE i # 0
    <3>0. a.list = Without(g.list, {i}) BY <1>4, <2>2
    <3>1. Cut(g.list, {i}, a.list) BY <1>2, <3>0, FewerWithout
    <3>2. ASSUME NEW k \in 1..Len(a.list), Established(a.list[k]), Same(x, a.list[k]) PROVE FALSE
      <4>1. PICK j \in (1..Len(g.list)) \ {i} : a.list[k] = g.list[j] BY <3>1, <3>2 DEF Cut
      <4>2. Established(g.list[i]) /\ Established(g.list[j]) /\ g.list[i].handle = g.list[j].handle
            /\ g.list[i].dcid = g.list[j].dcid
        BY <1>1, <1>3, <2>2, <3>2, <4>1, CidAssumption DEF Same, h, s, d, Established
      <4> QED BY <1>3, <2>2, <4>2 DEF EstDiffer
    <3> QED BY <3>1, <3>2 DEF Cut
  <2> QED BY <2>1, <2>2
<1>6. SameTypes(g, a) BY <1>4 DEF SameTypes
<1> QED BY <1>4, <1>5, <1>6 DEF a, h, s, d

\* The connections of the channels, the entries and the signals stay ACL connections.
LEMMA TypesKept ==
  ASSUME NEW g, NEW a, SameTypes(g, a)
  PROVE  /\ \A C : ChanShape(g, C) => ChanShape(a, C)
         /\ \A q : LateShape(g, q) => LateShape(a, q)
<1>1. \A c \in Chan : c.handle \in Handles BY DEF Chan
<1>2. \A C : ChanShape(g, C) => ChanShape(a, C) BY <1>1 DEF ChanShape, SameTypes
<1>3. ASSUME NEW q, LateShape(g, q) PROVE LateShape(a, q)
  <2>1. \A k \in 1..Len(q) : q[k].handle \in Handles BY <1>3, SigFields DEF LateShape
  <2> QED BY <1>3, <2>1 DEF LateShape, SameTypes
<1> QED BY <1>2, <1>3

\* Established channels are channels of ACL connections.
LEMMA AclKept ==
  ASSUME NEW g, Sound(g), EstAcl(g), NEW a, SameTypes(g, a), NEW x, x.handle \in Handles, g.conn[x.handle].type = "acl",
         Fewer(g.list, a.list) \/ Gains(g.list, a.list, x)
  PROVE  EstAcl(a)
<1>1. \A e \in Entry : e.handle \in Handles BY DEF Entry
<1>2. \A k \in 1..Len(g.list) : g.list[k].handle \in Handles BY <1>1, SoundTypes
<1>3. ASSUME NEW k \in 1..Len(a.list), Established(a.list[k]) PROVE a.conn[a.list[k].handle].type = "acl"
  <2>1. Same(x, a.list[k]) \/ \E i \in 1..Len(g.list) : a.list[k] = g.list[i] BY <1>3 DEF Fewer, Gains
  <2>2. CASE Same(x, a.list[k]) BY <2>2 DEF Same, SameTypes
  <2>3. CASE ~Same(x, a.list[k])
    <3>1. PICK i \in 1..Len(g.list) : a.list[k] = g.list[i] BY <2>1, <2>3
    <3>2. g.conn[g.list[i].handle].type = "acl" BY <1>3, <3>1 DEF EstAcl
    <3> QED BY <1>2, <3>1, <3>2 DEF SameTypes
  <2> QED BY <2>2, <2>3
<1> QED BY <1>3 DEF EstAcl

\* Fields of the channels.
LEMMA ChanFields ==
  ASSUME NEW g, NEW C, ChanShape(g, C), NEW c \in C
  PROVE  /\ c \in Chan /\ c.handle \in Handles /\ c.profile \in Psms /\ g.conn[c.handle].type = "acl"
         /\ c.st # "answering" => c.scid \in HostCids /\ c.scid # 0
         /\ c.st # "asked" => c.dcid \in RemoteCids /\ c.dcid # 0
         /\ c.st = "asked" => c.dcid = 0
         /\ c.st = "answering" => c.scid = 0
BY CidAssumption DEF ChanShape, Chan

\* The other side closes a channel.
LEMMA RemoteDisconProtocol ==
  ASSUME NEW g, Sound(g), NEW C, Protocol(g, C, << >>), NEW c \in C, c.st = "open"
  PROVE  LET a == discon_req(g, c.handle, c.scid, c.dcid)
         IN Sound(a) /\ Protocol(a, C \ {c}, << >>)
<1> DEFINE a == discon_req(g, c.handle, c.scid, c.dcid)
<1> HIDE DEF a
<1>0. /\ ChanShape(g, C) /\ ChansDiffer(C) /\ EstAcl(g) /\ EstDiffer(g.list) /\ Settled(g.list, C)
  BY NothingLate
<1>1. c.handle \in Handles /\ c.scid \in HostCids /\ c.dcid \in RemoteCids /\ g.conn[c.handle].type = "acl"
  BY <1>0, ChanFields
<1>2. /\ Sound(a) /\ SameTypes(g, a) /\ Fewer(g.list, a.list)
      /\ \A k \in 1..Len(a.list) : Established(a.list[k]) => ~Same(c, a.list[k])
  BY <1>0, <1>1, DisconFewer DEF a
<1>3. ChanShape(a, C \ {c})
  <2>1. ChanShape(a, C) BY <1>0, <1>2, TypesKept
  <2> QED BY <2>1 DEF ChanShape
<1>4. ChansDiffer(C \ {c}) BY <1>0 DEF ChansDiffer
<1>5. EstAcl(a) BY <1>0, <1>1, <1>2, AclKept
<1>6. ASSUME NEW k \in 1..Len(a.list), Established(a.list[k]) PROVE Known(C \ {c}, a.list[k])
  <2>1. PICK j \in 1..Len(g.list) : a.list[k] = g.list[j] BY <1>2, <1>6 DEF Fewer
  <2>2. PICK x \in C : Same(x, a.list[k]) BY <1>0, <1>6, <2>1 DEF Settled, Known
  <2>3. x # c BY <1>2, <1>6, <2>2
  <2> QED BY <2>2, <2>3 DEF Known
<1>7. ASSUME NEW x \in C \ {c}, x.st = "answering" PROVE NotUsed(a.list, x)
  <2>1. NotUsed(g.list, x) BY <1>0, <1>7 DEF Settled
  <2> QED BY <2>1, <1>2, FewerNotUsed
<1>8. Settled(a.list, C \ {c}) BY <1>6, <1>7 DEF Settled
<1>9. EstDiffer(a.list) BY <1>2 DEF Fewer
<1>10. Protocol(a, C \ {c}, << >>) BY <1>3, <1>4, <1>5, <1>8, <1>9, NothingLate
<1> QED BY <1>2, <1>10 DEF a

\* No channel of h has these numbers: Unused, for any set of channels.
Free(C, h, scid, dcid) ==
  \A c \in C : c.handle = h => (scid = 0 \/ c.scid # scid) /\ (dcid = 0 \/ c.dcid # dcid)

\* The other side asks for a channel.
LEMMA RemoteReqProtocol ==
  ASSUME NEW g, Sound(g), NEW C, Protocol(g, C, << >>), NEW h \in Handles, NEW p \in Psms, NEW d \in RemoteCids,
         g.conn[h].type = "acl", Free(C, h, 0, d)
  PROVE  LET a == con_req(g, h, p, 0, d)
         IN Sound(a) /\ Protocol(a, C \cup {Channel(h, p, 0, d, "answering")}, << >>)
<1> DEFINE a == con_req(g, h, p, 0, d)
           n == Channel(h, p, 0, d, "answering")
           C2 == C \cup {n}
<1>0. /\ ChanShape(g, C) /\ ChansDiffer(C) /\ EstAcl(g) /\ EstDiffer(g.list) /\ Settled(g.list, C)
  BY NothingLate
<1>d. d # 0 BY CidAssumption
<1>1. /\ n \in Chan /\ n.handle = h /\ n.scid = 0 /\ n.dcid = d /\ n.st = "answering"
  BY DEF Chan, Channel
<1> HIDE DEF a, n
<1>2. Sound(a) /\ SameTypes(g, a) /\ Fewer(g.list, a.list) BY <1>0, ReqFewer DEF a
<1>3. ChanShape(a, C2)
  <2>1. ChanShape(a, C) BY <1>0, <1>2, TypesKept
  <2>2. a.conn[h].type = "acl" BY <1>2 DEF SameTypes
  <2> QED BY <1>1, <1>d, <2>1, <2>2 DEF ChanShape
<1>4. ChansDiffer(C2)
  <2>1. \A c \in C : c.handle = h => c.dcid # d BY <1>d DEF Free
  <2> QED BY <1>0, <1>1, <2>1 DEF ChansDiffer
<1>5. EstAcl(a) BY <1>0, <1>1, <1>2, AclKept
<1>6. ASSUME NEW k \in 1..Len(g.list), Established(g.list[k]) PROVE Known(C, g.list[k])
  BY <1>0, <1>6 DEF Settled
<1>7. ASSUME NEW k \in 1..Len(a.list), Established(a.list[k]) PROVE Known(C2, a.list[k])
  BY <1>2, <1>6, <1>7 DEF Fewer, Known
<1>8. NotUsed(g.list, n)
  <2> SUFFICES ASSUME NEW k \in 1..Len(g.list), Established(g.list[k]), g.list[k].handle = h, g.list[k].dcid = d
               PROVE FALSE
    BY <1>1 DEF NotUsed
  <2>1. PICK c \in C : Same(c, g.list[k]) BY <1>6 DEF Known
  <2> QED BY <2>1, <1>d DEF Same, Free
<1>9. ASSUME NEW x \in C2, x.st = "answering" PROVE NotUsed(a.list, x)
  <2>1. NotUsed(g.list, x) BY <1>0, <1>8, <1>9 DEF Settled
  <2> QED BY <2>1, <1>2, FewerNotUsed
<1>10. Settled(a.list, C2) BY <1>7, <1>9 DEF Settled
<1>11. EstDiffer(a.list) BY <1>2 DEF Fewer
<1>12. Protocol(a, C2, << >>) BY <1>3, <1>4, <1>5, <1>10, <1>11, NothingLate
<1> QED BY <1>2, <1>12 DEF a, n

\* The other side answers: it refuses,
LEMMA RemoteRefusesProtocol ==
  ASSUME NEW g, Sound(g), NEW C, Protocol(g, C, << >>), NEW c \in C, c.st = "asked"
  PROVE  Protocol(g, C \ {c}, << >>)
<1>0. /\ ChanShape(g, C) /\ ChansDiffer(C) /\ EstAcl(g) /\ EstDiffer(g.list) /\ Settled(g.list, C)
  BY NothingLate
<1>1. ChanShape(g, C \ {c}) /\ ChansDiffer(C \ {c}) BY <1>0 DEF ChanShape, ChansDiffer
<1>2. c.dcid = 0 BY <1>0, ChanFields
<1>3. ASSUME NEW k \in 1..Len(g.list), Established(g.list[k]) PROVE Known(C \ {c}, g.list[k])
  <2>1. PICK x \in C : Same(x, g.list[k]) BY <1>0, <1>3 DEF Settled, Known
  <2>2. x # c BY <1>2, <1>3, <2>1 DEF Same, Established
  <2> QED BY <2>1, <2>2 DEF Known
<1>4. Settled(g.list, C \ {c}) BY <1>0, <1>3 DEF Settled
<1> QED BY <1>0, <1>1, <1>4, NothingLate

\* or it accepts.
LEMMA RemoteAcceptsProtocol ==
  ASSUME NEW g, Sound(g), NEW C, Protocol(g, C, << >>), NEW c \in C, c.st = "asked",
         NEW d \in RemoteCids, Free(C, c.handle, 0, d)
  PROVE  LET n == [c EXCEPT !.dcid = d, !.st = "open"]
             a == accepted(g, c.handle, find_scid(g, c.handle, c.scid), c.scid, d)
         IN Sound(a) /\ Protocol(a, (C \ {c}) \cup {n}, << >>)
<1> DEFINE n == [c EXCEPT !.dcid = d, !.st = "open"]
           i == find_scid(g, c.handle, c.scid)
           a == accepted(g, c.handle, i, c.scid, d)
           C2 == (C \ {c}) \cup {n}
<1>0. /\ ChanShape(g, C) /\ ChansDiffer(C) /\ EstAcl(g) /\ EstDiffer(g.list) /\ Settled(g.list, C)
  BY NothingLate
<1>d. d # 0 BY CidAssumption
<1>1. c \in Chan /\ c.handle \in Handles /\ c.scid \in HostCids /\ c.scid # 0 /\ c.dcid = 0 /\ g.conn[c.handle].type = "acl"
  <2>1. c.st # "answering" OBVIOUS
  <2> QED BY <1>0, <2>1, ChanFields
<1>2. n \in Chan /\ n.handle = c.handle /\ n.scid = c.scid /\ n.dcid = d /\ n.st = "open" BY <1>1 DEF Chan
<1>3. i = 0 \/ (i \in 1..Len(g.list) /\ g.list[i].handle = c.handle /\ g.list[i].scid = c.scid)
  <2>1. g.list \in Seq(Entry) BY SoundTypes
  <2> QED BY <2>1, FindsOne
<1> HIDE DEF i, n, a
<1>4. ASSUME NEW k \in 1..Len(g.list), Established(g.list[k])
      PROVE  \E x \in C : Same(x, g.list[k]) /\ x # c
  <2>1. PICK x \in C : Same(x, g.list[k]) BY <1>0, <1>4 DEF Settled, Known
  <2>2. x # c BY <1>1, <1>4, <2>1 DEF Same, Established
  <2> QED BY <2>1, <2>2
<1>5. i # 0 => ~Established(g.list[i])
  <2> SUFFICES ASSUME i # 0, Established(g.list[i]) PROVE FALSE OBVIOUS
  <2>1. PICK x \in C : Same(x, g.list[i]) /\ x # c BY <1>3, <1>4
  <2>2. c.handle = x.handle /\ c.scid = x.scid BY <1>3, <2>1 DEF Same
  <2> QED BY <1>0, <1>1, <2>1, <2>2 DEF ChansDiffer
<1>6. NotUsed(g.list, n)
  <2> SUFFICES ASSUME NEW k \in 1..Len(g.list), Established(g.list[k]), g.list[k].handle = c.handle, g.list[k].dcid = d
               PROVE FALSE
    BY <1>2 DEF NotUsed
  <2>1. PICK x \in C : Same(x, g.list[k]) /\ x # c BY <1>4
  <2> QED BY <2>1, <1>d DEF Same, Free
<1>7. a = accepted(g, n.handle, i, n.scid, n.dcid) BY <1>2 DEF a
<1>8. Sound(a) /\ SameTypes(g, a) /\ Gains(g.list, a.list, n)
  <2>1. n.handle \in Handles /\ g.conn[n.handle].type = "acl" /\ n.scid \in HostCids /\ n.dcid \in RemoteCids
        /\ (i = 0 \/ (i \in 1..Len(g.list) /\ g.list[i].handle = n.handle /\ ~Established(g.list[i])))
    BY <1>1, <1>2, <1>3, <1>5
  <2> QED BY <1>0, <1>6, <1>7, <2>1, RspGains
<1>9. ChanShape(a, C2)
  <2>1. ChanShape(a, C) BY <1>0, <1>8, TypesKept
  <2>2. a.conn[c.handle].type = "acl" BY <1>1, <1>8 DEF SameTypes
  <2> QED BY <1>1, <1>2, <1>d, <2>1, <2>2 DEF ChanShape
<1>10. ChansDiffer(C2)
  <2>1. \A x \in C : x.handle = c.handle => x.dcid # d BY <1>d DEF Free
  <2> QED BY <1>0, <1>1, <1>2, <2>1 DEF ChansDiffer
<1>11. EstAcl(a) BY <1>0, <1>1, <1>2, <1>8, AclKept
<1>12. ASSUME NEW k \in 1..Len(a.list), Established(a.list[k]) PROVE Known(C2, a.list[k])
  <2>1. CASE Same(n, a.list[k]) BY <2>1 DEF Known
  <2>2. CASE ~Same(n, a.list[k])
    <3>1. PICK j \in 1..Len(g.list) : a.list[k] = g.list[j] BY <1>8, <1>12, <2>2 DEF Gains
    <3> QED BY <1>4, <1>12, <3>1 DEF Known
  <2> QED BY <2>1, <2>2
<1>13. ASSUME NEW x \in C2, x.st = "answering" PROVE NotUsed(a.list, x)
  <2>1. x \in C /\ NotUsed(g.list, x) BY <1>0, <1>2, <1>13 DEF Settled
  <2>2. x.handle = c.handle => x.dcid # d BY <1>d, <2>1 DEF Free
  <2> SUFFICES ASSUME NEW k \in 1..Len(a.list), Established(a.list[k]), a.list[k].handle = x.handle
               PROVE  a.list[k].dcid # x.dcid
    BY DEF NotUsed
  <2>3. CASE Same(n, a.list[k]) BY <1>2, <2>2, <2>3 DEF Same
  <2>4. CASE ~Same(n, a.list[k]) BY <1>8, <2>1, <2>4 DEF Gains, NotUsed
  <2> QED BY <2>3, <2>4
<1>14. Settled(a.list, C2) BY <1>12, <1>13 DEF Settled
<1>15. EstDiffer(a.list) BY <1>8 DEF Gains
<1>16. Protocol(a, C2, << >>) BY <1>9, <1>10, <1>11, <1>14, <1>15, NothingLate
<1> QED BY <1>8, <1>16 DEF a, i, n

\* A signal of the host is sent.
Sent(q, s, q2) ==
  /\ q2 \in Seq(Sig)
  /\ Len(q) \in Nat /\ Len(q2) = Len(q) + 1
  /\ \A k \in 1..Len(q) : k \in 1..Len(q2) /\ q2[k] = q[k]
  /\ Len(q) + 1 \in 1..Len(q2) /\ q2[Len(q) + 1] = s
  /\ \A k \in 1..Len(q2) : k \in 1..Len(q) \/ k = Len(q) + 1
  /\ \A k, e : EndsAfter(q, k, e) => EndsAfter(q2, k, e)
  /\ s.kind = "discon" => \A k \in 0..Len(q) : \A e : Same(s, e) => EndsAfter(q2, k, e)

\* Positions in the queue after a signal is added at its end.
LEMMA Sending ==
  ASSUME NEW q \in Seq(Sig), NEW s \in Sig
  PROVE  Sent(q, s, Append(q, s))
<1> DEFINE q2 == Append(q, s)
<1> PICK n \in Nat : n = Len(q) OBVIOUS
<1>1. q2 \in Seq(Sig) /\ Len(q2) = n + 1 /\ q2[n + 1] = s /\ \A k \in 1..n : q2[k] = q[k] OBVIOUS
<1> HIDE DEF q2
<1>2. \A k \in 1..n : k \in 1..Len(q2) BY <1>1
<1>3. n + 1 \in 1..Len(q2) /\ \A k \in 1..Len(q2) : k \in 1..n \/ k = n + 1 BY <1>1
<1>4. \A k, e : EndsAfter(q, k, e) => EndsAfter(q2, k, e) BY <1>1, <1>2 DEF EndsAfter
<1>5. s.kind = "discon" => \A k \in 0..n : \A e : Same(s, e) => EndsAfter(q2, k, e)
  <2> SUFFICES ASSUME s.kind = "discon", NEW k \in 0..n, NEW e, Same(s, e) PROVE EndsAfter(q2, k, e) OBVIOUS
  <2>1. n + 1 > k OBVIOUS
  <2> QED BY <2>1, <1>1, <1>3 DEF EndsAfter
<1>6. Sent(q, s, q2) BY <1>1, <1>2, <1>3, <1>4, <1>5 DEF Sent
<1> QED BY <1>6 DEF q2

\* The host asks for a channel.
LEMMA HostReqProtocol ==
  ASSUME NEW g, Sound(g), NEW C, NEW q, Protocol(g, C, q), NEW h \in Handles, NEW p \in Psms, NEW s \in HostCids,
         g.conn[h].type = "acl", Free(C, h, s, 0)
  PROVE  Protocol(g, C \cup {Channel(h, p, s, 0, "asked")},
                  Append(q, [kind |-> "req", handle |-> h, profile |-> p, scid |-> s]))
<1> DEFINE n == Channel(h, p, s, 0, "asked")
           sig == [kind |-> "req", handle |-> h, profile |-> p, scid |-> s]
           C2 == C \cup {n}
           q2 == Append(q, sig)
<1>0. /\ ChanShape(g, C) /\ ChansDiffer(C) /\ LateShape(g, q)
      /\ EstAcl(g) /\ EstDiffer(g.list) /\ EstKnown(g.list, C, q)
      /\ RspKnown(C, q) /\ Answering(g.list, C, q) /\ RspFirst(g.list, q)
  BY DEF Protocol
<1>d. s # 0 BY CidAssumption
<1>1. n \in Chan /\ n.handle = h /\ n.scid = s /\ n.dcid = 0 /\ n.st = "asked" BY DEF Chan, Channel
<1>2. sig \in Sig /\ sig.kind = "req" /\ sig.handle = h BY DEF Sig, Req
<1> HIDE DEF n, sig, q2
<1>3. Sent(q, sig, q2) BY <1>0, <1>2, Sending DEF LateShape, q2
<1>4. ChanShape(g, C2) BY <1>0, <1>1, <1>d DEF ChanShape
<1>5. ChansDiffer(C2)
  <2>1. \A c \in C : c.handle = h => c.scid # s BY <1>d DEF Free
  <2> QED BY <1>0, <1>1, <2>1 DEF ChansDiffer
<1>6. LateShape(g, q2) BY <1>0, <1>2, <1>3 DEF LateShape, Sent
<1>7. \A e : Known(C, e) => Known(C2, e) BY DEF Known
<1>8. EstKnown(g.list, C2, q2) BY <1>0, <1>3, <1>7 DEF EstKnown, Sent
<1>9. \A k \in 1..Len(q2) : q2[k].kind # "req" => k \in 1..Len(q) /\ q2[k] = q[k] BY <1>2, <1>3 DEF Sent
<1>10. RspKnown(C2, q2)
  <2>1. ASSUME NEW k \in 1..Len(q2), q2[k].kind = "rsp", q2[k].ok PROVE Known(C2, q2[k]) \/ EndsAfter(q2, k, q2[k])
    <3>1. k \in 1..Len(q) /\ q2[k] = q[k] BY <1>9, <2>1
    <3>2. Known(C, q[k]) \/ EndsAfter(q, k, q[k]) BY <1>0, <2>1, <3>1 DEF RspKnown
    <3> QED BY <1>3, <1>7, <3>1, <3>2 DEF Sent
  <2> QED BY <2>1 DEF RspKnown
<1>11. Answering(g.list, C2, q2) BY <1>0, <1>1, <1>9 DEF Answering
<1>12. RspFirst(g.list, q2) BY <1>0, <1>9 DEF RspFirst
<1>13. Protocol(g, C2, q2) BY <1>0, <1>4, <1>5, <1>6, <1>8, <1>10, <1>11, <1>12 DEF Protocol
<1> QED BY <1>13 DEF q2, n, sig

\* The host closes a channel.
LEMMA HostDisconProtocol ==
  ASSUME NEW g, Sound(g), NEW C, NEW q, Protocol(g, C, q), NEW c \in C, c.st = "open"
  PROVE  Protocol(g, C \ {c}, Append(q, [kind |-> "discon", handle |-> c.handle, scid |-> c.scid, dcid |-> c.dcid]))
<1> DEFINE sig == [kind |-> "discon", handle |-> c.handle, scid |-> c.scid, dcid |-> c.dcid]
           C2 == C \ {c}
           q2 == Append(q, sig)
<1>0. /\ ChanShape(g, C) /\ ChansDiffer(C) /\ LateShape(g, q)
      /\ EstAcl(g) /\ EstDiffer(g.list) /\ EstKnown(g.list, C, q)
      /\ RspKnown(C, q) /\ Answering(g.list, C, q) /\ RspFirst(g.list, q)
  BY DEF Protocol
<1>1. c.handle \in Handles /\ c.scid \in HostCids /\ c.dcid \in RemoteCids /\ c.dcid # 0 /\ g.conn[c.handle].type = "acl"
  BY <1>0, ChanFields
<1>2. sig \in Sig /\ sig.kind = "discon" /\ Same(c, sig) BY <1>1 DEF Sig, Discon, Same
<1> HIDE DEF sig, q2
<1>3. Sent(q, sig, q2) BY <1>0, <1>2, Sending DEF LateShape, q2
<1>4. ChanShape(g, C2) /\ ChansDiffer(C2) BY <1>0 DEF ChanShape, ChansDiffer
<1>6. LateShape(g, q2) BY <1>0, <1>1, <1>2, <1>3 DEF LateShape, Sent, Same
<1>7. ASSUME NEW e, Known(C, e), NEW k \in 0..Len(q) PROVE Known(C2, e) \/ EndsAfter(q2, k, e)
  <2>1. PICK x \in C : Same(x, e) BY <1>7 DEF Known
  <2>2. CASE x # c BY <2>1, <2>2 DEF Known
  <2>3. CASE x = c
    <3>1. Same(sig, e) BY <1>2, <2>1, <2>3 DEF Same
    <3> QED BY <1>2, <1>3, <1>7, <3>1 DEF Sent
  <2> QED BY <2>2, <2>3
<1>8. EstKnown(g.list, C2, q2)
  <2>1. 0 \in 0..Len(q) BY <1>3 DEF Sent
  <2>2. ASSUME NEW i \in 1..Len(g.list), Established(g.list[i]) PROVE Known(C2, g.list[i]) \/ EndsAfter(q2, 0, g.list[i])
    <3>1. Known(C, g.list[i]) \/ EndsAfter(q, 0, g.list[i]) BY <1>0, <2>2 DEF EstKnown
    <3>2. CASE Known(C, g.list[i]) BY <1>7, <2>1, <3>2
    <3>3. CASE EndsAfter(q, 0, g.list[i]) BY <1>3, <3>3 DEF Sent
    <3> QED BY <3>1, <3>2, <3>3
  <2> QED BY <2>2 DEF EstKnown
<1>9. \A k \in 1..Len(q2) : (k \in 1..Len(q) /\ q2[k] = q[k]) \/ (k = Len(q) + 1 /\ q2[k] = sig) BY <1>3 DEF Sent
<1>10. RspKnown(C2, q2)
  <2>1. ASSUME NEW k \in 1..Len(q2), q2[k].kind = "rsp", q2[k].ok PROVE Known(C2, q2[k]) \/ EndsAfter(q2, k, q2[k])
    <3>1. k \in 1..Len(q) /\ q2[k] = q[k] BY <1>2, <1>9, <2>1
    <3>2. Known(C, q[k]) \/ EndsAfter(q, k, q[k]) BY <1>0, <2>1, <3>1 DEF RspKnown
    <3>3. k \in 0..Len(q) BY <1>3, <3>1 DEF Sent
    <3>4. CASE Known(C, q[k]) BY <1>7, <3>1, <3>3, <3>4
    <3>5. CASE EndsAfter(q, k, q[k]) BY <1>3, <3>1, <3>5 DEF Sent
    <3> QED BY <3>2, <3>4, <3>5
  <2> QED BY <2>1 DEF RspKnown
<1>11. Answering(g.list, C2, q2)
  <2>1. ASSUME NEW x \in C2, x.st = "answering", NEW k \in 1..Len(q2), q2[k].kind # "req", q2[k].handle = x.handle
        PROVE  q2[k].dcid # x.dcid
    <3>1. CASE k \in 1..Len(q) /\ q2[k] = q[k] BY <1>0, <2>1, <3>1 DEF Answering
    <3>2. CASE q2[k] = sig
      <4>1. q2[k].handle = c.handle /\ q2[k].dcid = c.dcid BY <1>2, <3>2 DEF Same
      <4>2. x \in C /\ x # c /\ c.handle = x.handle BY <2>1, <4>1
      <4>3. c.dcid # x.dcid BY <1>0, <1>1, <4>2 DEF ChansDiffer
      <4> QED BY <4>1, <4>3
    <3> QED BY <1>9, <3>1, <3>2
  <2> QED BY <1>0, <2>1 DEF Answering
<1>12. RspFirst(g.list, q2)
  <2>1. ASSUME NEW k \in 1..Len(q2), q2[k].kind = "rsp"
        PROVE  /\ NotUsed(g.list, q2[k])
               /\ \A j \in 1..Len(q2) :
                    j # k /\ q2[j].kind # "req" /\ q2[j].handle = q2[k].handle /\ q2[j].dcid = q2[k].dcid
                      => q2[j].kind = "discon" /\ j > k
    <3>1. k \in 1..Len(q) /\ q2[k] = q[k] BY <1>2, <1>9, <2>1
    <3>2. NotUsed(g.list, q[k]) BY <1>0, <2>1, <3>1 DEF RspFirst
    <3>3. ASSUME NEW j \in 1..Len(q2), j # k, q2[j].kind # "req", q2[j].handle = q2[k].handle, q2[j].dcid = q2[k].dcid
          PROVE  q2[j].kind = "discon" /\ j > k
      <4>1. CASE j \in 1..Len(q) /\ q2[j] = q[j] BY <1>0, <2>1, <3>1, <3>3, <4>1 DEF RspFirst
      <4>2. CASE j = Len(q) + 1 /\ q2[j] = sig BY <1>2, <1>3, <3>1, <4>2 DEF Sent
      <4> QED BY <1>9, <4>1, <4>2
    <3> QED BY <3>1, <3>2, <3>3
  <2> QED BY <2>1 DEF RspFirst
<1>13. Protocol(g, C2, q2) BY <1>0, <1>4, <1>6, <1>8, <1>10, <1>11, <1>12 DEF Protocol
<1> QED BY <1>13 DEF q2, sig

\* The host answers.
Answer(c, s, ok) == [kind |-> "rsp", handle |-> c.handle, scid |-> s, dcid |-> c.dcid, ok |-> ok]
Answered(C, c, s, ok) == (C \ {c}) \cup (IF ok THEN {[c EXCEPT !.scid = s, !.st = "open"]} ELSE {})
\* The channel is open or gone at once; the parser gets to know it later.
LEMMA HostRspProtocol ==
  ASSUME NEW g, Sound(g), NEW C, NEW q, Protocol(g, C, q), NEW c \in C, c.st = "answering",
         NEW s \in HostCids, Free(C, c.handle, s, 0), NEW ok \in BOOLEAN
  PROVE  Protocol(g, Answered(C, c, s, ok), Append(q, Answer(c, s, ok)))
<1> DEFINE n == [c EXCEPT !.scid = s, !.st = "open"]
           sig == Answer(c, s, ok)
           C2 == Answered(C, c, s, ok)
           q2 == Append(q, sig)
<1>0. /\ ChanShape(g, C) /\ ChansDiffer(C) /\ LateShape(g, q)
      /\ EstAcl(g) /\ EstDiffer(g.list) /\ EstKnown(g.list, C, q)
      /\ RspKnown(C, q) /\ Answering(g.list, C, q) /\ RspFirst(g.list, q)
  BY DEF Protocol
<1>d. s # 0 BY CidAssumption
<1>1. c \in Chan /\ c.handle \in Handles /\ c.dcid \in RemoteCids /\ c.dcid # 0 /\ c.scid = 0 /\ g.conn[c.handle].type = "acl"
  <2>1. c.st # "asked" OBVIOUS
  <2> QED BY <1>0, <2>1, ChanFields
<1>2. n \in Chan /\ n.handle = c.handle /\ n.scid = s /\ n.dcid = c.dcid /\ n.st = "open" BY <1>1 DEF Chan
<1>3. sig \in Sig /\ sig.kind = "rsp" /\ sig.handle = c.handle /\ sig.scid = s /\ sig.dcid = c.dcid
  <2>1. sig \in Rsp BY <1>1 DEF Answer, Rsp
  <2> QED BY <2>1 DEF Answer, Sig
<1>3a. sig.ok => ok BY Zenon DEF Answer
<1> HIDE DEF n
<1>4. /\ \A x \in C2 : x = n \/ (x \in C /\ x # c)
      /\ \A x \in C : x # c => x \in C2
      /\ ok => n \in C2
  BY DEF Answered, n
<1> HIDE DEF sig, q2, C2
<1>5. Sent(q, sig, q2) BY <1>0, <1>3, Sending DEF LateShape, q2
<1>6. ChanShape(g, C2) BY <1>0, <1>1, <1>2, <1>4, <1>d DEF ChanShape
<1>7. ChansDiffer(C2)
  <2>1. \A x \in C : x.handle = c.handle => x.scid # s BY <1>d DEF Free
  <2>2. \A x \in C : x # c /\ x.handle = c.handle => x.dcid # c.dcid BY <1>0, <1>1 DEF ChansDiffer
  <2> SUFFICES ASSUME NEW x \in C2, NEW y \in C2, x # y, x.handle = y.handle
               PROVE  (x.scid # 0 => x.scid # y.scid) /\ (x.dcid # 0 => x.dcid # y.dcid)
    BY DEF ChansDiffer
  <2>3. CASE x = n BY <1>2, <1>4, <2>1, <2>2, <2>3
  <2>4. CASE y = n BY <1>2, <1>4, <2>1, <2>2, <2>4
  <2>5. CASE x # n /\ y # n BY <1>0, <1>4, <2>5 DEF ChansDiffer
  <2> QED BY <2>3, <2>4, <2>5
<1>8. LateShape(g, q2) BY <1>0, <1>1, <1>3, <1>5 DEF LateShape, Sent
<1>9. ASSUME NEW e, Known(C, e), e.scid # 0 PROVE Known(C2, e)
  <2>1. PICK x \in C : Same(x, e) BY <1>9 DEF Known
  <2>2. x # c BY <1>1, <1>9, <2>1 DEF Same
  <2> QED BY <1>4, <2>1, <2>2 DEF Known
<1>10. EstKnown(g.list, C2, q2) BY <1>0, <1>5, <1>9 DEF EstKnown, Sent, Established
<1>11. \A k \in 1..Len(q2) : (k \in 1..Len(q) /\ q2[k] = q[k]) \/ (k = Len(q) + 1 /\ q2[k] = sig) BY <1>5 DEF Sent
<1>12. RspKnown(C2, q2)
  <2>1. ASSUME NEW k \in 1..Len(q2), q2[k].kind = "rsp", q2[k].ok PROVE Known(C2, q2[k]) \/ EndsAfter(q2, k, q2[k])
    <3>1. CASE k \in 1..Len(q) /\ q2[k] = q[k]
      <4>1. Known(C, q[k]) \/ EndsAfter(q, k, q[k]) BY <1>0, <2>1, <3>1 DEF RspKnown
      <4>2. q[k].scid # 0 BY <1>0, <3>1, SigFields DEF LateShape
      <4> QED BY <1>5, <1>9, <3>1, <4>1, <4>2 DEF Sent
    <3>2. CASE q2[k] = sig
      <4>1. n \in C2 BY <1>3a, <1>4, <2>1, <3>2
      <4>2. Same(n, sig) BY <1>2, <1>3 DEF Same
      <4> QED BY <3>2, <4>1, <4>2 DEF Known
    <3> QED BY <1>11, <3>1, <3>2
  <2> QED BY <2>1 DEF RspKnown
<1>13. Answering(g.list, C2, q2)
  <2>1. ASSUME NEW x \in C2, x.st = "answering", NEW k \in 1..Len(q2), q2[k].kind # "req", q2[k].handle = x.handle
        PROVE  q2[k].dcid # x.dcid
    <3>0. x \in C /\ x # c BY <1>2, <1>4, <2>1
    <3>1. CASE k \in 1..Len(q) /\ q2[k] = q[k] BY <1>0, <2>1, <3>0, <3>1 DEF Answering
    <3>2. CASE q2[k] = sig
      <4>1. c.handle = x.handle BY <1>3, <2>1, <3>2
      <4>2. c.dcid # x.dcid BY <1>0, <1>1, <3>0, <4>1 DEF ChansDiffer
      <4> QED BY <1>3, <3>2, <4>2
    <3> QED BY <1>11, <3>1, <3>2
  <2>2. ASSUME NEW x \in C2, x.st = "answering" PROVE NotUsed(g.list, x)
    <3>0. x \in C BY <1>2, <1>4, <2>2
    <3> QED BY <1>0, <2>2, <3>0 DEF Answering
  <2> QED BY <2>1, <2>2 DEF Answering
<1>14. RspFirst(g.list, q2)
  <2>0. /\ NotUsed(g.list, c)
        /\ \A k \in 1..Len(q) : q[k].kind # "req" /\ q[k].handle = c.handle => q[k].dcid # c.dcid
    BY <1>0 DEF Answering
  <2>1. ASSUME NEW k \in 1..Len(q2), q2[k].kind = "rsp" PROVE NotUsed(g.list, q2[k])
    <3>1. CASE k \in 1..Len(q) /\ q2[k] = q[k] BY <1>0, <2>1, <3>1 DEF RspFirst
    <3>2. CASE q2[k] = sig BY <1>3, <2>0, <3>2 DEF NotUsed
    <3> QED BY <1>11, <3>1, <3>2
  <2>2. ASSUME NEW k \in 1..Len(q2), q2[k].kind = "rsp",
               NEW j \in 1..Len(q2), j # k, q2[j].kind # "req", q2[j].handle = q2[k].handle, q2[j].dcid = q2[k].dcid
        PROVE  q2[j].kind = "discon" /\ j > k
    <3>1. CASE k \in 1..Len(q) /\ q2[k] = q[k] /\ j \in 1..Len(q) /\ q2[j] = q[j] BY <1>0, <2>2, <3>1 DEF RspFirst
    <3>2. CASE k \in 1..Len(q) /\ q2[k] = q[k] /\ q2[j] = sig
      <4>1. q[k].kind # "req" /\ q[k].handle = c.handle /\ q[k].dcid = c.dcid BY <1>3, <2>2, <3>2
      <4> QED BY <2>0, <3>2, <4>1
    <3>3. CASE q2[k] = sig /\ j \in 1..Len(q) /\ q2[j] = q[j]
      <4>1. q[j].kind # "req" /\ q[j].handle = c.handle /\ q[j].dcid = c.dcid BY <1>3, <2>2, <3>3
      <4> QED BY <2>0, <3>3, <4>1
    <3> QED BY <1>11, <2>2, <3>1, <3>2, <3>3
  <2> QED BY <2>1, <2>2 DEF RspFirst
<1>15. Protocol(g, C2, q2) BY <1>0, <1>6, <1>7, <1>8, <1>10, <1>12, <1>13, <1>14 DEF Protocol
<1> QED BY <1>15 DEF q2, sig, C2

\* A signal of the host is parsed.
Parsed(q, s, q2) ==
  /\ q2 \in Seq(Sig) /\ s \in Sig
  /\ 1 \in 1..Len(q) /\ q[1] = s
  /\ \A k \in 1..Len(q2) : k \in Nat /\ k + 1 \in 1..Len(q) /\ k + 1 # 1 /\ q2[k] = q[k + 1]
  /\ \A k \in Nat : \A e : EndsAfter(q, k + 1, e) => EndsAfter(q2, k, e)
  /\ \A e : EndsAfter(q, 0, e) => EndsAfter(q2, 0, e) \/ (s.kind = "discon" /\ Same(s, e))

\* Positions in the queue after its first signal is taken.
LEMMA Parsing ==
  ASSUME NEW q \in Seq(Sig), q # << >>
  PROVE  Parsed(q, Head(q), Tail(q))
<1> DEFINE q2 == Tail(q)
           s == Head(q)
<1> PICK n \in Nat : n = Len(q2) OBVIOUS
<1>1. /\ q2 \in Seq(Sig) /\ Len(q) = n + 1 /\ s = q[1] /\ s \in Sig
      /\ \A k \in 1..n : q2[k] = q[k + 1]
  OBVIOUS
<1> HIDE DEF q2, s
<1>2. 1 \in 1..Len(q) /\ \A k \in 1..n : k \in Nat /\ k + 1 \in 1..Len(q) /\ k + 1 # 1 BY <1>1
<1>3. ASSUME NEW j \in 1..Len(q), j # 1 PROVE j - 1 \in 1..n /\ q2[j - 1] = q[j]
  <2>1. j - 1 \in 1..n /\ (j - 1) + 1 = j BY <1>1, <1>3
  <2> QED BY <1>1, <2>1
<1>4. ASSUME NEW k \in Nat, NEW e, EndsAfter(q, k + 1, e) PROVE EndsAfter(q2, k, e)
  <2>1. PICK j \in 1..Len(q) : j > k + 1 /\ q[j].kind = "discon" /\ Same(q[j], e) BY <1>4 DEF EndsAfter
  <2>2. j # 1 /\ j - 1 > k BY <1>1, <2>1
  <2> QED BY <1>3, <2>1, <2>2 DEF EndsAfter
<1>5. ASSUME NEW e, EndsAfter(q, 0, e) PROVE EndsAfter(q2, 0, e) \/ (s.kind = "discon" /\ Same(s, e))
  <2>1. PICK j \in 1..Len(q) : j > 0 /\ q[j].kind = "discon" /\ Same(q[j], e) BY <1>5 DEF EndsAfter
  <2>2. CASE j = 1 BY <1>1, <2>1, <2>2
  <2>3. CASE j # 1
    <3>1. j - 1 \in 1..n /\ q2[j - 1] = q[j] /\ j - 1 > 0 BY <1>3, <2>3
    <3> QED BY <2>1, <3>1 DEF EndsAfter
  <2> QED BY <2>2, <2>3
<1>6. Parsed(q, s, q2) BY <1>1, <1>2, <1>4, <1>5 DEF Parsed
<1> QED BY <1>6 DEF q2, s

\* If the handler does to the list what the signal says, list and channels agree as before.
LEMMA ParseProtocol ==
  ASSUME NEW g, Sound(g), NEW C, NEW q, Protocol(g, C, q), NEW s, NEW q2, Parsed(q, s, q2),
         NEW a, SameTypes(g, a),
         \/ /\ Fewer(g.list, a.list)
            /\ s.kind = "discon" => \A k \in 1..Len(a.list) : Established(a.list[k]) => ~Same(s, a.list[k])
         \/ Gains(g.list, a.list, s) /\ s.kind = "rsp" /\ s.ok
  PROVE  Protocol(a, C, q2)
<1>0. /\ ChanShape(g, C) /\ ChansDiffer(C) /\ LateShape(g, q)
      /\ EstAcl(g) /\ EstDiffer(g.list) /\ EstKnown(g.list, C, q)
      /\ RspKnown(C, q) /\ Answering(g.list, C, q) /\ RspFirst(g.list, q)
  BY DEF Protocol
<1>1. s \in Sig /\ s.handle \in Handles /\ g.conn[s.handle].type = "acl" /\ 1 \in 1..Len(q) /\ q[1] = s
  BY <1>0, SigFields DEF Parsed, LateShape
<1>2. \A k \in 1..Len(q2) : k \in Nat /\ k + 1 \in 1..Len(q) /\ k + 1 # 1 /\ q2[k] = q[k + 1] BY DEF Parsed
<1>3. ChanShape(a, C) BY <1>0, TypesKept
<1>4. LateShape(a, q2)
  <2>1. LateShape(g, q2) BY <1>0, <1>2 DEF LateShape, Parsed
  <2> QED BY <2>1, TypesKept
<1>5. EstAcl(a) BY <1>0, <1>1, AclKept
<1>6. EstDiffer(a.list) BY DEF Fewer, Gains
<1>7. ASSUME NEW k \in 1..Len(a.list), Established(a.list[k])
      PROVE  \/ \E i \in 1..Len(g.list) : a.list[k] = g.list[i] /\ ~(s.kind = "discon" /\ Same(s, a.list[k]))
             \/ Same(s, a.list[k]) /\ s.kind = "rsp" /\ s.ok
  BY <1>7 DEF Fewer, Gains
<1>8. EstKnown(a.list, C, q2)
  <2> SUFFICES ASSUME NEW k \in 1..Len(a.list), Established(a.list[k])
               PROVE  Known(C, a.list[k]) \/ EndsAfter(q2, 0, a.list[k])
    BY DEF EstKnown
  <2>1. CASE Same(s, a.list[k]) /\ s.kind = "rsp" /\ s.ok
    <3>1. Known(C, s) \/ EndsAfter(q, 1, s) BY <1>0, <1>1, <2>1 DEF RspKnown
    <3>2. EndsAfter(q, 1, s) => EndsAfter(q2, 0, s)
      <4>1. 0 \in Nat /\ 0 + 1 = 1 OBVIOUS
      <4>2. EndsAfter(q, 0 + 1, s) => EndsAfter(q2, 0, s) BY <4>1 DEF Parsed
      <4> QED BY <4>1, <4>2
    <3> QED BY <2>1, <3>1, <3>2 DEF Known, EndsAfter, Same
  <2>2. CASE \E i \in 1..Len(g.list) : a.list[k] = g.list[i] /\ ~(s.kind = "discon" /\ Same(s, a.list[k]))
    <3>1. PICK i \in 1..Len(g.list) : a.list[k] = g.list[i] /\ ~(s.kind = "discon" /\ Same(s, a.list[k])) BY <2>2
    <3>2. Known(C, a.list[k]) \/ EndsAfter(q, 0, a.list[k]) BY <1>0, <3>1 DEF EstKnown
    <3> QED BY <3>1, <3>2 DEF Parsed
  <2> QED BY <1>7, <2>1, <2>2
<1>9. RspKnown(C, q2)
  <2>1. ASSUME NEW k \in 1..Len(q2), q2[k].kind = "rsp", q2[k].ok PROVE Known(C, q2[k]) \/ EndsAfter(q2, k, q2[k])
    <3>1. k \in Nat /\ k + 1 \in 1..Len(q) /\ q2[k] = q[k + 1] BY <1>2
    <3>2. Known(C, q[k + 1]) \/ EndsAfter(q, k + 1, q[k + 1]) BY <1>0, <2>1, <3>1 DEF RspKnown
    <3> QED BY <3>1, <3>2 DEF Parsed
  <2> QED BY <2>1 DEF RspKnown
<1>10. Answering(a.list, C, q2)
  <2>1. ASSUME NEW x \in C, x.st = "answering" PROVE NotUsed(a.list, x)
    <3> SUFFICES ASSUME NEW k \in 1..Len(a.list), Established(a.list[k]), a.list[k].handle = x.handle
                 PROVE  a.list[k].dcid # x.dcid
      BY DEF NotUsed
    <3>1. CASE Same(s, a.list[k]) /\ s.kind = "rsp"
      <4>1. s.handle = x.handle => s.dcid # x.dcid BY <1>0, <1>1, <2>1, <3>1 DEF Answering
      <4> QED BY <3>1, <4>1 DEF Same
    <3>2. CASE \E i \in 1..Len(g.list) : a.list[k] = g.list[i] BY <1>0, <2>1, <3>2 DEF Answering, NotUsed
    <3> QED BY <1>7, <3>1, <3>2
  <2>2. ASSUME NEW x \in C, x.st = "answering", NEW k \in 1..Len(q2), q2[k].kind # "req", q2[k].handle = x.handle
        PROVE  q2[k].dcid # x.dcid
    <3>1. k + 1 \in 1..Len(q) /\ q2[k] = q[k + 1] BY <1>2
    <3> QED BY <1>0, <2>2, <3>1 DEF Answering
  <2> QED BY <2>1, <2>2 DEF Answering
<1>11. RspFirst(a.list, q2)
  <2>1. ASSUME NEW k \in 1..Len(q2), q2[k].kind = "rsp" PROVE NotUsed(a.list, q2[k])
    <3>0. k + 1 \in 1..Len(q) /\ k + 1 # 1 /\ q2[k] = q[k + 1] BY <1>2
    <3>1. NotUsed(g.list, q2[k]) BY <1>0, <2>1, <3>0 DEF RspFirst
    <3> SUFFICES ASSUME NEW i \in 1..Len(a.list), Established(a.list[i]), a.list[i].handle = q2[k].handle
                 PROVE  a.list[i].dcid # q2[k].dcid
      BY DEF NotUsed
    <3>2. CASE Same(s, a.list[i]) /\ s.kind = "rsp"
      <4>1. s.handle = q2[k].handle /\ s.dcid = q2[k].dcid => q2[k].kind = "discon"
        BY <1>0, <1>1, <2>1, <3>0, <3>2 DEF RspFirst
      <4> QED BY <2>1, <3>2, <4>1 DEF Same
    <3>3. CASE \E j \in 1..Len(g.list) : a.list[i] = g.list[j] BY <3>1, <3>3 DEF NotUsed
    <3> QED BY <1>7, <3>2, <3>3
  <2>2. ASSUME NEW k \in 1..Len(q2), q2[k].kind = "rsp",
               NEW j \in 1..Len(q2), j # k, q2[j].kind # "req", q2[j].handle = q2[k].handle, q2[j].dcid = q2[k].dcid
        PROVE  q2[j].kind = "discon" /\ j > k
    <3>1. k + 1 \in 1..Len(q) /\ q2[k] = q[k + 1] /\ j + 1 \in 1..Len(q) /\ q2[j] = q[j + 1] /\ j \in Nat /\ k \in Nat BY <1>2
    <3>2. j + 1 # k + 1 BY <2>2, <3>1
    <3>3. q[j + 1].kind = "discon" /\ j + 1 > k + 1 BY <1>0, <2>2, <3>1, <3>2 DEF RspFirst
    <3> QED BY <3>1, <3>3
  <2> QED BY <2>1, <2>2 DEF RspFirst
<1> QED BY <1>0, <1>3, <1>4, <1>5, <1>6, <1>8, <1>9, <1>10, <1>11 DEF Protocol

\* The three handlers do that.
LEMMA ParseSound ==
  ASSUME NEW g, Sound(g), NEW C, NEW q, Protocol(g, C, q), q # << >>
  PROVE  Sound(Effect(g, Head(q))) /\ Protocol(Effect(g, Head(q)), C, Tail(q))
<1> DEFINE s == Head(q)
           a == Effect(g, s)
           q2 == Tail(q)
<1>0. /\ LateShape(g, q) /\ EstDiffer(g.list) /\ RspFirst(g.list, q) BY DEF Protocol
<1>1. Parsed(q, s, q2) BY <1>0, Parsing DEF LateShape
<1> HIDE DEF s, a, q2
<1>2. s \in Sig /\ 1 \in 1..Len(q) /\ q[1] = s /\ g.conn[s.handle].type = "acl"
  BY <1>0, <1>1 DEF Parsed, LateShape
<1>3. /\ s.handle \in Handles /\ s.scid \in HostCids
      /\ s.kind \in {"req", "rsp", "discon"}
      /\ s.kind = "req" => s.profile \in Psms
      /\ s.kind = "rsp" => s.dcid \in RemoteCids /\ s.ok \in BOOLEAN
      /\ s.kind = "discon" => s.dcid \in RemoteCids
  BY <1>2, SigFields
<1>4. /\ Sound(a) /\ SameTypes(g, a)
      /\ \/ /\ Fewer(g.list, a.list)
            /\ s.kind = "discon" => \A k \in 1..Len(a.list) : Established(a.list[k]) => ~Same(s, a.list[k])
         \/ Gains(g.list, a.list, s) /\ s.kind = "rsp" /\ s.ok
  <2>1. CASE s.kind = "req"
    <3>1. a = con_req(g, s.handle, s.profile, s.scid, 0) BY <2>1 DEF a, Effect
    <3>2. Sound(a) /\ SameTypes(g, a) /\ Fewer(g.list, a.list) BY <1>0, <1>3, <2>1, <3>1, ReqFewer
    <3> QED BY <2>1, <3>2
  <2>2. CASE s.kind = "discon"
    <3>1. a = discon_req(g, s.handle, s.scid, s.dcid) BY <2>2 DEF a, Effect
    <3>2. /\ Sound(a) /\ SameTypes(g, a) /\ Fewer(g.list, a.list)
          /\ \A k \in 1..Len(a.list) : Established(a.list[k]) => ~Same(s, a.list[k])
      BY <1>0, <1>2, <1>3, <2>2, <3>1, DisconFewer
    <3> QED BY <3>2
  <2>3. CASE s.kind = "rsp"
    <3> DEFINE i == find_dcid(g, s.handle, s.dcid)
    <3>0. i = 0 \/ (i \in 1..Len(g.list) /\ g.list[i].handle = s.handle /\ g.list[i].dcid = s.dcid)
      <4>1. g.list \in Seq(Entry) BY SoundTypes
      <4> QED BY <4>1, FindsOne
    <3>1. a = con_rsp(g, s.handle, i, s.scid, s.dcid, s.ok)
      <4>1. a = rsp_out(g, s.handle, s.scid, s.dcid, s.ok) BY <2>3 DEF a, Effect
      <4> QED BY <4>1 DEF rsp_out
    <3> HIDE DEF i
    <3>2. NotUsed(g.list, s) BY <1>0, <1>2, <2>3 DEF RspFirst
    <3>3. i # 0 => ~Established(g.list[i]) BY <3>0, <3>2 DEF NotUsed
    <3>4. CASE ~s.ok
      <4>1. a = g BY <3>1, <3>4 DEF con_rsp
      <4> QED BY <1>0, <2>3, <4>1, FewerSame DEF SameTypes
    <3>5. CASE s.ok
      <4>1. a = accepted(g, s.handle, i, s.scid, s.dcid)
        <5>1. s.ok = TRUE BY <1>3, <2>3, <3>5, Zenon
        <5> QED BY <3>1, <5>1 DEF accepted
      <4>2. i = 0 \/ (i \in 1..Len(g.list) /\ g.list[i].handle = s.handle /\ ~Established(g.list[i])) BY <3>0, <3>3
      <4>3. Sound(a) /\ SameTypes(g, a) /\ Gains(g.list, a.list, s)
        BY <1>0, <1>2, <1>3, <2>3, <3>2, <4>1, <4>2, RspGains
      <4> QED BY <2>3, <3>5, <4>3
    <3> QED BY <3>4, <3>5
  <2> QED BY <1>3, <2>1, <2>2, <2>3
<1>5. Protocol(a, C, q2) BY <1>1, <1>4, ParseProtocol
<1> QED BY <1>4, <1>5 DEF a, s, q2

-----------------------------------------------------------------------------
(* The inductive invariant, and its theorems.                              *)

CoexInv == Sound(prof) /\ Protocol(prof, chans, late)

\* Nothing is counted, listed or on its way at the start.
LEMMA InitCoex ==
  ASSUME Init
  PROVE  CoexInv
<1> DEFINE g == prof
<1>0. NoConn \in ConnRec /\ NoConn.type = "none" /\ NoConn.map = {} /\ \A p \in Profiles : NoConn.ref[p] = 0
  BY DEF NoConn, ConnRec
<1>1. /\ g.conn = [h \in Handles |-> NoConn] /\ g.list = << >> /\ g.ref = [p \in Profiles |-> 0]
      /\ g.map = {} /\ g.timers = {}
  BY DEF Init
<1>2. g \in ProfRec
  <2> DEFINE c == [h \in Handles |-> NoConn]
             r == [p \in Profiles |-> 0]
             n == [t \in Timers |-> 0]
             l == << >>
  <2>1. c \in [Handles -> ConnRec] /\ r \in [Profiles -> Nat] /\ n \in [Timers -> Nat] /\ l \in Seq(Entry) BY <1>0
  <2>2. g = [conn |-> c, list |-> l, ref |-> r, map |-> {}, status |-> {}, timers |-> {}, count |-> n] BY DEF Init
  <2> HIDE DEF c, r, n, l, g
  <2> QED BY <2>1, <2>2 DEF ProfRec
<1>3. \A h \in Handles : g.conn[h] = NoConn BY <1>1
<1> HIDE DEF g
<1>4. BitsOf(g) BY <1>0, <1>1, <1>3 DEF BitsOf, Counted
<1>5. IntervalsOf(g)
  <2>1. Active(g.conn) = {} BY <1>0, <1>3 DEF Active
  <2>2. "hid_interval" \in Profiles BY DEF Profiles
  <2> QED BY <1>0, <1>1, <1>3, <2>1, <2>2, FS_EmptySet DEF IntervalsOf
<1>6. TotalsOf(g)
  <2>1. ASSUME NEW p \in Profiles PROVE Cardinality(Counts(g.conn, p)) = 0
    <3>1. \A h \in Handles : g.conn[h].ref[p] = 0 BY <1>0, <1>3
    <3>2. Counts(g.conn, p) = {} BY <3>1 DEF Counts
    <3> QED BY <3>2, FS_EmptySet
  <2>2. Counted \subseteq Profiles /\ "sink" \in Profiles BY DEF Counted, Profiles
  <2> QED BY <1>1, <2>1, <2>2 DEF TotalsOf
<1>7. Tally(g)
  <2>1. "sink" \in Profiles BY DEF Profiles
  <2> QED BY <1>0, <1>3, <2>1 DEF Tally, Expected
<1>8. Sound(g) BY <1>2, <1>4, <1>5, <1>6, <1>7 DEF Sound, Balanced
<1>9. Protocol(g, {}, << >>)
  <2>1. Len(g.list) = 0 BY <1>1
  <2>2. 1..Len(g.list) = {} BY <2>1
  <2> QED BY <2>2, NothingLate DEF ChanShape, ChansDiffer, EstAcl, EstDiffer, Settled
<1>11. chans = {} /\ late = << >> BY DEF Init
<1> QED BY <1>8, <1>9, <1>11 DEF CoexInv, g

\* The HCI events.
LEMMA HciCoex ==
  ASSUME CoexInv, NEW h \in Handles, HciEvent(h), ~overtaken'
  PROVE  CoexInv'
<1>0. Sound(prof) /\ Protocol(prof, chans, late) BY DEF CoexInv
<1>o. Overtakes => late = << >> BY Zenon DEF Overtakes
<1>1. prof.conn[h].type = "none" => \A q \in Profiles : Positions(prof.list, h, q) = {}
  BY <1>0, NoPositions DEF Protocol
<1>2. ASSUME NEW t, Begun(prof, h, t, prof'), prof.conn[h].type = "none",
             UNCHANGED <<chans, late>>
      PROVE  CoexInv'
  <2>1. Sound(prof') /\ prof'.list = prof.list /\ \A x \in Handles \ {h} : prof'.conn[x].type = prof.conn[x].type
    BY <1>2 DEF Begun
  <2>2. \A x \in Handles : prof.conn[x].type = "acl" => prof'.conn[x].type = "acl" BY <1>2, <2>1
  <2>3. Protocol(prof', chans, late) BY <1>0, <2>1, <2>2, KeptProtocol
  <2> QED BY <1>0, <1>2, <2>1, <2>3 DEF CoexInv
<1>3. CASE \E type \in {"acl", "sco"} : connection_complete(h, type)
  <2>1. PICK type \in {"acl", "sco"} : connection_complete(h, type) BY <1>3
  <2>2. prof.conn[h].type = "none" /\ UNCHANGED <<chans, late>> BY <2>1 DEF connection_complete
  <2>3. CASE type = "acl"
    <3>1. prof' = new_conn(prof, h, "acl") BY <2>1, <2>3 DEF connection_complete
    <3>2. Begun(prof, h, "acl", prof') BY <1>0, <1>1, <2>2, <3>1, AclBegins
    <3> QED BY <1>2, <2>2, <3>2
  <2>4. CASE type = "sco"
    <3>1. prof' = add_profile(new_conn(prof, h, "sco"), h, "sco") BY <2>1, <2>4 DEF connection_complete
    <3>2. Begun(prof, h, "sco", prof') BY <1>0, <1>1, <2>2, <3>1, ScoBegins
    <3> QED BY <1>2, <2>2, <3>2
  <2> QED BY <2>3, <2>4
<1>4. CASE \E short \in BOOLEAN : le_connection_complete(h, short)
  <2>1. PICK short \in BOOLEAN : le_connection_complete(h, short) BY <1>4
  <2>2. /\ prof.conn[h].type = "none" /\ UNCHANGED <<chans, late>>
        /\ prof' = hid_active(add_profile(new_conn(prof, h, "le"), h, "hid"), h, short)
    BY <2>1 DEF le_connection_complete
  <2>3. Begun(prof, h, "le", prof') BY <1>0, <1>1, <2>2, LeBegins
  <2> QED BY <1>2, <2>2, <2>3
<1>5. CASE \E short \in BOOLEAN : interval_change(h, short)
  <2>1. PICK short \in BOOLEAN : interval_change(h, short) BY <1>5
  <2>2. UNCHANGED <<chans, late>> /\ prof' = hid_active(prof, h, short)
    BY <2>1 DEF interval_change
  <2>3. Sound(prof') /\ prof'.list = prof.list /\ \A x \in Handles : prof'.conn[x].type = prof.conn[x].type
    BY <1>0, <2>2, IntervalSound
  <2>4. Protocol(prof', chans, late) BY <1>0, <2>3, KeptProtocol
  <2> QED BY <1>0, <2>2, <2>3, <2>4 DEF CoexInv
<1>6. CASE disconnect_complete(h)
  <2>1. /\ prof.conn[h].type # "none" /\ late = << >> /\ late' = late
        /\ prof' = [Unlinked(prof, h) EXCEPT !.conn[h] = NoConn]
        /\ chans' = Apart(chans, h)
    BY <1>o, <1>6 DEF disconnect_complete, Unlinked, Apart
  <2>2. Ended(prof, h, prof') BY <1>0, <2>1, EndSound
  <2>3. Protocol(prof, chans, << >>) BY <1>0, <2>1
  <2>4. Protocol(prof', chans', << >>) BY <1>0, <2>1, <2>2, <2>3, EndProtocol
  <2>5. Sound(prof') BY <2>2 DEF Ended
  <2> QED BY <1>0, <2>1, <2>4, <2>5 DEF CoexInv
<1> QED BY <1>3, <1>4, <1>5, <1>6 DEF HciEvent

\* The signals.
LEMMA SignalCoex ==
  ASSUME CoexInv, Signal, ~overtaken'
  PROVE  CoexInv'
<1>0. Sound(prof) /\ Protocol(prof, chans, late) BY DEF CoexInv
<1>o. Overtakes => late = << >> BY Zenon DEF Overtakes
<1>u. \A h, s, d : Unused(h, s, d) => Free(chans, h, s, d) BY DEF Unused, Free
<1>1. ASSUME NEW h \in Handles, NEW p \in Psms, NEW cid \in HostCids, host_req(h, p, cid) PROVE CoexInv'
  <2>1. /\ prof.conn[h].type = "acl" /\ Unused(h, cid, 0) /\ prof' = prof
        /\ chans' = chans \cup {Channel(h, p, cid, 0, "asked")}
        /\ late' = Append(late, [kind |-> "req", handle |-> h, profile |-> p, scid |-> cid])
    BY <1>1 DEF host_req, Sends
  <2>2. Protocol(prof, chans', late') BY <1>0, <1>u, <2>1, HostReqProtocol
  <2> QED BY <1>0, <2>1, <2>2 DEF CoexInv
<1>2. ASSUME NEW h \in Handles, NEW p \in Psms, NEW cid \in RemoteCids, remote_req(h, p, cid) PROVE CoexInv'
  <2>1. /\ prof.conn[h].type = "acl" /\ Unused(h, 0, cid) /\ late = << >> /\ late' = late
        /\ chans' = chans \cup {Channel(h, p, 0, cid, "answering")}
        /\ prof' = con_req(prof, h, p, 0, cid)
    BY <1>o, <1>2 DEF remote_req, Receives
  <2>2. Protocol(prof, chans, << >>) BY <1>0, <2>1
  <2>3. Sound(prof') /\ Protocol(prof', chans', << >>) BY <1>0, <1>u, <2>1, <2>2, RemoteReqProtocol
  <2> QED BY <1>0, <2>1, <2>3 DEF CoexInv
<1>3. ASSUME NEW c \in chans, NEW ok \in BOOLEAN, NEW cid \in RemoteCids, remote_rsp(c, cid, ok) PROVE CoexInv'
  <2>1. /\ c.st = "asked" /\ Unused(c.handle, 0, cid) /\ late = << >> /\ late' = late
        /\ chans' = (chans \ {c}) \cup (IF ok THEN {[c EXCEPT !.dcid = cid, !.st = "open"]} ELSE {})
        /\ prof' = con_rsp(prof, c.handle, find_scid(prof, c.handle, c.scid), c.scid, cid, ok)
    BY <1>o, <1>3 DEF remote_rsp, Receives, rsp_in
  <2>2. Protocol(prof, chans, << >>) /\ c.st = "asked" /\ Free(chans, c.handle, 0, cid) BY <1>0, <1>u, <2>1
  <2>3. Sound(prof') /\ Protocol(prof', chans', << >>)
    <3>1. CASE ok
      <4>1. chans' = (chans \ {c}) \cup {[c EXCEPT !.dcid = cid, !.st = "open"]} BY <2>1, <3>1
      <4>2. prof' = accepted(prof, c.handle, find_scid(prof, c.handle, c.scid), c.scid, cid)
        <5>1. ok = TRUE BY <3>1
        <5> QED BY <2>1, <5>1 DEF accepted
      <4> QED BY <1>0, <2>2, <4>1, <4>2, RemoteAcceptsProtocol
    <3>2. CASE ~ok
      <4>1. chans' = chans \ {c} /\ prof' = prof BY <2>1, <3>2 DEF con_rsp
      <4> QED BY <1>0, <2>2, <4>1, RemoteRefusesProtocol
    <3> QED BY <3>1, <3>2
  <2> QED BY <1>0, <2>1, <2>3 DEF CoexInv
<1>4. ASSUME NEW c \in chans, NEW ok \in BOOLEAN, NEW cid \in HostCids, host_rsp(c, cid, ok) PROVE CoexInv'
  <2>1. /\ c.st = "answering" /\ Unused(c.handle, cid, 0) /\ prof' = prof
        /\ chans' = Answered(chans, c, cid, ok)
        /\ late' = Append(late, Answer(c, cid, ok))
    BY <1>4 DEF host_rsp, Sends, Answered, Answer
  <2>2. Protocol(prof, chans', late') BY <1>0, <1>u, <2>1, HostRspProtocol
  <2> QED BY <1>0, <2>1, <2>2 DEF CoexInv
<1>5. ASSUME NEW c \in chans, host_discon(c) PROVE CoexInv'
  <2>1. /\ c.st = "open" /\ prof' = prof
        /\ chans' = chans \ {c}
        /\ late' = Append(late, [kind |-> "discon", handle |-> c.handle, scid |-> c.scid, dcid |-> c.dcid])
    BY <1>5 DEF host_discon, Sends
  <2>2. Protocol(prof, chans', late') BY <1>0, <2>1, HostDisconProtocol
  <2> QED BY <1>0, <2>1, <2>2 DEF CoexInv
<1>6. ASSUME NEW c \in chans, remote_discon(c) PROVE CoexInv'
  <2>1. /\ c.st = "open" /\ late = << >> /\ late' = late
        /\ chans' = chans \ {c}
        /\ prof' = discon_req(prof, c.handle, c.scid, c.dcid)
    BY <1>o, <1>6 DEF remote_discon, Receives
  <2>2. Protocol(prof, chans, << >>) BY <1>0, <2>1
  <2>3. Sound(prof') /\ Protocol(prof', chans', << >>) BY <1>0, <2>1, <2>2, RemoteDisconProtocol
  <2> QED BY <1>0, <2>1, <2>3 DEF CoexInv
<1>7. ASSUME parse_sent PROVE CoexInv'
  <2>1. /\ late # << >> /\ late' = Tail(late) /\ chans' = chans
        /\ prof' = Effect(prof, Head(late))
    BY <1>7 DEF parse_sent, Effect
  <2>2. Sound(prof') /\ Protocol(prof', chans', late') BY <1>0, <2>1, ParseSound
  <2> QED BY <1>0, <2>1, <2>2 DEF CoexInv
<1> QED BY <1>1, <1>2, <1>3, <1>4, <1>5, <1>6, <1>7 DEF Signal

\* A step that keeps the list and the types, by the parser or by a timer.
LEMMA KeptCoex ==
  ASSUME CoexInv, Kept(prof, prof'), UNCHANGED <<chans, late>>
  PROVE  CoexInv'
<1>1. Sound(prof) /\ Protocol(prof, chans, late) BY DEF CoexInv
<1>2. Sound(prof') /\ prof'.list = prof.list /\ \A x \in Handles : prof'.conn[x].type = prof.conn[x].type BY DEF Kept
<1>3. Protocol(prof', chans, late) BY <1>1, <1>2, KeptProtocol
<1> QED BY <1>2, <1>3 DEF CoexInv

\* The data packets.
LEMMA PacketCoex ==
  ASSUME CoexInv, NEW c \in chans, NEW incoming \in BOOLEAN, packets_count(c, incoming)
  PROVE  CoexInv'
<1> DEFINE h == c.handle
           i == IF incoming THEN find_scid(prof, h, c.scid) ELSE find_dcid(prof, h, c.dcid)
           p == prof.list[i].profile
           first == p = "a2dp" /\ "a2dp" \notin prof.status
           g1 == IF first THEN set_busy(prof, "a2dp") ELSE prof
           g2 == IF first /\ incoming THEN set_busy(add_profile(g1, h, "sink"), "sink") ELSE g1
           limit == IF p = "pan" THEN PanLimit ELSE 1
<1>1. /\ p \in Timers /\ UNCHANGED <<chans, late>>
      /\ prof' = [g2 EXCEPT !.count[p] = IF @ < limit THEN @ + 1 ELSE @]
  BY DEF packets_count
<1>2. Sound(prof) BY DEF CoexInv
<1>3. h \in Handles /\ prof.conn[h].type = "acl" BY ChanFields DEF CoexInv, Protocol
<1>4. limit \in Nat /\ first \in BOOLEAN BY BoundsAssumption
<1> HIDE DEF limit, first, p, h
<1>5. Kept(prof, prof') BY <1>1, <1>2, <1>3, <1>4, PacketSound
<1> QED BY <1>1, <1>5, KeptCoex

\* The timer threads.
LEMMA TimerCoex ==
  ASSUME CoexInv, ThreadTypes, NEW t \in Timers, timer_expires(t) \/ Handler(t)
  PROVE  CoexInv'
<1>0. Sound(prof) BY DEF CoexInv
<1>1. prof \in ProfRec /\ prof.status \in SUBSET Profiles /\ prof.count \in [Timers -> Nat] BY <1>0, SoundTypes
<1>2. /\ UNCHANGED <<chans, late, overtaken>>
      /\ \/ prof' = prof
         \/ \E st \in SUBSET Profiles : prof' = StatusSet(prof, st)
         \/ \E n \in [Timers -> Nat] : prof' = CountSet(prof, n)
  BY <1>1, TimerTypes
<1>3. CASE prof' = prof
  <2>1. Kept(prof, prof') BY <1>0, <1>3 DEF Kept
  <2> QED BY <1>2, <2>1, KeptCoex
<1>4. ASSUME NEW st \in SUBSET Profiles, prof' = StatusSet(prof, st) PROVE CoexInv'
  <2>1. prof' = WithStatus(prof, st, prof.count) BY <1>1, <1>4 DEF ProfRec, WithStatus, StatusSet
  <2>2. Kept(prof, prof') BY <1>0, <1>1, <2>1, StatusSound
  <2> QED BY <1>2, <2>2, KeptCoex
<1>5. ASSUME NEW n \in [Timers -> Nat], prof' = CountSet(prof, n) PROVE CoexInv'
  <2>1. prof' = WithStatus(prof, prof.status, n) BY <1>1, <1>5 DEF ProfRec, WithStatus, CountSet
  <2>2. Kept(prof, prof') BY <1>0, <1>1, <2>1, StatusSound
  <2> QED BY <1>2, <2>2, KeptCoex
<1> QED BY <1>2, <1>3, <1>4, <1>5

\* What has been overtaken stays overtaken.
LEMMA OvertakenStays ==
  ASSUME LooseInv, [Next]_vars, ~overtaken'
  PROVE  ~overtaken
<1>1. Overtakes \/ overtaken' = overtaken
  <2>0. ThreadTypes /\ prof.status \in SUBSET Profiles /\ prof.count \in [Timers -> Nat]
    BY LooseTypes DEF LooseInv
  <2>1. CASE \E h \in Handles : HciEvent(h)
    BY <2>1 DEF HciEvent, connection_complete, le_connection_complete, interval_change, disconnect_complete
  <2>2. CASE Signal
    BY <2>2 DEF Signal, host_req, remote_req, remote_rsp, host_rsp, host_discon, remote_discon, parse_sent,
                Sends, Receives
  <2>3. CASE \E c \in chans, incoming \in BOOLEAN : packets_count(c, incoming)
    <3>1. PICK c \in chans, incoming \in BOOLEAN : packets_count(c, incoming) BY <2>3
    <3>2. UNCHANGED <<chans, late, overtaken, begins>> BY <3>1, Zenon DEF packets_count
    <3> QED BY <3>2
  <2>4. CASE \E t \in Timers : timer_expires(t) \/ Handler(t) BY <2>0, <2>4, TimerTypes
  <2>5. CASE UNCHANGED vars BY <2>5 DEF vars
  <2> QED BY <2>1, <2>2, <2>3, <2>4, <2>5 DEF Next
<1>2. Overtakes => ~overtaken BY Zenon DEF Overtakes
<1>3. overtaken' = overtaken => ~overtaken BY DEF LooseInv
<1> QED BY <1>1, <1>2, <1>3, Zenon

\* Every step keeps the invariant, unless it overtakes a signal.
LEMMA NextCoex ==
  ASSUME LooseInv, ~overtaken => CoexInv, [Next]_vars, ~overtaken'
  PROVE  CoexInv'
<1>0. CoexInv /\ ThreadTypes BY OvertakenStays, Zenon DEF LooseInv
<1>1. CASE \E h \in Handles : HciEvent(h) BY <1>0, <1>1, HciCoex
<1>2. CASE Signal BY <1>0, <1>2, SignalCoex
<1>3. CASE \E c \in chans, incoming \in BOOLEAN : packets_count(c, incoming) BY <1>0, <1>3, PacketCoex
<1>4. CASE \E t \in Timers : timer_expires(t) \/ Handler(t) BY <1>0, <1>4, TimerCoex
<1>5. CASE UNCHANGED vars
  <2>1. UNCHANGED <<prof, chans, late>> BY <1>5 DEF vars
  <2> QED BY <1>0, <2>1 DEF CoexInv
<1> QED BY <1>1, <1>2, <1>3, <1>4, <1>5 DEF Next

\* The invariant holds until something overtakes a signal.
LEMMA CoexInvariant == Spec => [](~overtaken => CoexInv)
<1>1. Init => (~overtaken => CoexInv) BY InitCoex
<1>2. LooseInv /\ (~overtaken => CoexInv) /\ [Next]_vars => (~overtaken => CoexInv)' BY NextCoex
<1> QED BY <1>1, <1>2, LooseInvariant, PTL DEF Spec

\* As long as nothing overtakes the signals of the host in the parser, an ACL connection counts
\* a profile as often as the list has an established channel of it, the totals are what the
\* connections count together, and the short intervals are counted.
THEOREM CountsCorrect == Spec => []CountsMatchList
<1>1. (~overtaken => CoexInv) => CountsMatchList
  <2>1. ASSUME CoexInv PROVE CountsMatchList
    <3>1. Tally(prof) /\ TotalsOf(prof) /\ IntervalsOf(prof) BY <2>1 DEF CoexInv, Sound, Balanced
    <3>2. ASSUME NEW h \in Handles, prof.conn[h].type = "acl", NEW p \in Psms
          PROVE  prof.conn[h].ref[p] = Cardinality(Positions(prof.list, h, p))
      <4>1. p \in Profiles \ {"sink"} BY PsmAssumption DEF Profiles
      <4> QED BY <3>1, <3>2, <4>1 DEF Tally, Expected
    <3>3. prof.ref["hid_interval"] = Cardinality({h \in Handles : "hid_interval" \in prof.conn[h].map})
      BY <3>1 DEF IntervalsOf, Active
    <3>4. \A p \in Counted \ {"sink"} : prof.ref[p] = Cardinality(Counts(prof.conn, p)) BY <3>1 DEF TotalsOf
    <3> QED BY <3>2, <3>3, <3>4, Zenon DEF CountsMatchList
  <2>2. overtaken => CountsMatchList BY Zenon DEF CountsMatchList
  <2> QED BY <2>1, <2>2, Zenon
<1> QED BY <1>1, CoexInvariant, PTL
=============================================================================
