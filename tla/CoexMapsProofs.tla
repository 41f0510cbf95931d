--------------------------- MODULE CoexMapsProofs ---------------------------
(***************************************************************************)
(* Proofs about CoexProfiles that hold in whatever order the signals are   *)
(* parsed, for any number of connections, channel numbers, packets and     *)
(* signals on their way: the types, and that the bitmaps say what the      *)
(* counters say.                                                           *)
(*                                                                         *)
(* First the lists; then, for each helper of rtk_parse.c, that it keeps    *)
(* Loose, the types of rtk_prof and its bitmaps; then the handlers and the *)
(* invariant.                                                              *)
(***************************************************************************)
EXTENDS CoexProfiles, FiniteSetTheorems, SequenceTheorems, FunctionTheorems, WellFoundedInduction, TLAPS
-----------------------------------------------------------------------------
(* Lists.                                                                  *)

\* A set of naturals that is not empty has a least element.
LEMMA LeastNat ==
  ASSUME NEW S \in SUBSET Nat, S # {}
  PROVE  \E m \in S : \A n \in S : m <= n
<1>1. PICK m \in S : \A n \in S : ~ (<<n, m>> \in OpToRel(<, Nat))
  BY WFMin, NatLessThanWellFounded
<1>2. \A n \in S : ~(n < m) BY <1>1 DEF OpToRel
<1> QED BY <1>2

\* The first entry that satisfies a test.
LEMMA FirstPosition ==
  ASSUME NEW I \in SUBSET Nat, I # {}
  PROVE  Min(I) \in I
<1>1. PICK m \in I : \A n \in I : m <= n BY LeastNat
<1> QED BY <1>1 DEF Min

\* The find operators return 0 or the position of an entry that matches; find_both returns 0 only if
\* no entry matches.
LEMMA Finds ==
  ASSUME NEW g, g.list \in Seq(Entry), NEW h, NEW a, NEW b
  PROVE  /\ find_scid(g, h, a) \in 0..Len(g.list)
         /\ find_scid(g, h, a) # 0 => g.list[find_scid(g, h, a)].handle = h /\ g.list[find_scid(g, h, a)].scid = a
         /\ find_dcid(g, h, a) \in 0..Len(g.list)
         /\ find_dcid(g, h, a) # 0 => g.list[find_dcid(g, h, a)].handle = h /\ g.list[find_dcid(g, h, a)].dcid = a
         /\ find_both(g, h, a, b) \in 0..Len(g.list)
         /\ find_both(g, h, a, b) # 0 =>
              /\ g.list[find_both(g, h, a, b)].handle = h
              /\ g.list[find_both(g, h, a, b)].dcid = a
              /\ g.list[find_both(g, h, a, b)].scid = b
         /\ find_both(g, h, a, b) = 0 =>
              \A i \in 1..Len(g.list) : ~(g.list[i].handle = h /\ g.list[i].dcid = a /\ g.list[i].scid = b)
<1>0. Len(g.list) \in Nat OBVIOUS
<1>1. \A I \in SUBSET (1..Len(g.list)) : I # {} => Min(I) \in I
  BY <1>0, FirstPosition
<1> DEFINE S == {i \in 1..Len(g.list) : g.list[i].handle = h /\ g.list[i].scid = a}
           D == {i \in 1..Len(g.list) : g.list[i].handle = h /\ g.list[i].dcid = a}
           B == {i \in 1..Len(g.list) : g.list[i].handle = h /\ g.list[i].dcid = a /\ g.list[i].scid = b}
<1>2. /\ find_scid(g, h, a) = IF S # {} THEN Min(S) ELSE 0
      /\ find_dcid(g, h, a) = IF D # {} THEN Min(D) ELSE 0
      /\ find_both(g, h, a, b) = IF B # {} THEN Min(B) ELSE 0
  BY Zenon DEF find_scid, find_dcid, find_both, SelectInSeq
<1>3. /\ find_scid(g, h, a) = 0 \/ find_scid(g, h, a) \in S
      /\ find_dcid(g, h, a) = 0 \/ find_dcid(g, h, a) \in D
      /\ find_both(g, h, a, b) = 0 \/ find_both(g, h, a, b) \in B
  BY <1>1, <1>2
<1>4. find_both(g, h, a, b) = 0 => B = {}
  <2>1. 0 \notin B BY <1>0
  <2>2. B # {} => Min(B) \in B BY <1>1
  <2> HIDE DEF B
  <2> QED BY <2>1, <2>2, <1>2
<1> QED BY <1>0, <1>3, <1>4

\* The same for the two that look for one number.
LEMMA FindsOne ==
  ASSUME NEW g, g.list \in Seq(Entry), NEW h, NEW a
  PROVE  /\ \/ find_scid(g, h, a) = 0
            \/ /\ find_scid(g, h, a) \in 1..Len(g.list)
               /\ g.list[find_scid(g, h, a)].handle = h /\ g.list[find_scid(g, h, a)].scid = a
         /\ \/ find_dcid(g, h, a) = 0
            \/ /\ find_dcid(g, h, a) \in 1..Len(g.list)
               /\ g.list[find_dcid(g, h, a)].handle = h /\ g.list[find_dcid(g, h, a)].dcid = a
<1> PICK b : b = 0 OBVIOUS
<1>1. find_both(g, h, a, b) \in 0..Len(g.list) /\ Len(g.list) \in Nat BY Finds
<1> QED BY <1>1, Finds

-----------------------------------------------------------------------------
\* A set of positions counted up to i: steps of at most one.
LEMMA CountUpTo ==
  ASSUME NEW S \in SUBSET Nat, NEW n \in Nat
  PROVE  /\ IsFiniteSet({j \in S : j <= n})
         /\ Cardinality({j \in S : j <= n}) \in Nat
         /\ n + 1 \in S => Cardinality({j \in S : j <= n + 1}) = Cardinality({j \in S : j <= n}) + 1
         /\ n + 1 \notin S => {j \in S : j <= n + 1} = {j \in S : j <= n}
<1> DEFINE T == {j \in S : j <= n}
<1>1. T \in SUBSET Nat /\ \A s \in T : s <= n OBVIOUS
<1>2. IsFiniteSet(T) BY <1>1, FS_BoundedSetOfNaturals
<1>3. Cardinality(T) \in Nat BY <1>2, FS_CardinalityType
<1>4. n + 1 \notin T BY DEF T
<1>0. \A j \in S : j <= n + 1 <=> j <= n \/ j = n + 1 OBVIOUS
<1>5. n + 1 \in S => {j \in S : j <= n + 1} = T \cup {n + 1} BY <1>0
<1>6. n + 1 \notin S => {j \in S : j <= n + 1} = T BY <1>0
<1>7. Cardinality(T \cup {n + 1}) = Cardinality(T) + 1
  BY <1>2, <1>4, FS_AddElement
<1> QED BY <1>2, <1>3, <1>5, <1>6, <1>7

\* w has the entries of l at the positions not in gone, each once.
Moved(l, gone, w) ==
  \E f \in [1..Len(w) -> (1..Len(l)) \ gone] :
    /\ \A k \in 1..Len(w) : w[k] = l[f[k]]
    /\ \A a, b \in 1..Len(w) : f[a] = f[b] => a = b
    /\ \A i \in (1..Len(l)) \ gone : \E k \in 1..Len(w) : f[k] = i

\* delete_profile_from_hash keeps the other entries, each once.
LEMMA WithoutMoves ==
  ASSUME NEW l \in Seq(Entry), NEW gone
  PROVE  /\ Without(l, gone) \in Seq(Entry)
         /\ Moved(l, gone, Without(l, gone))
<1> DEFINE stay == (1..Len(l)) \ gone
           Upto(i) == {j \in stay : j <= i}
           C(i) == Cardinality(Upto(i))
           m == Cardinality(stay)
           at(k) == CHOOSE i \in stay : C(i) = k
<1> PICK N \in Nat : N = Len(l) OBVIOUS
<1>0. stay \in SUBSET Nat /\ IsFiniteSet(stay) /\ m \in Nat
  <2>1. IsFiniteSet(1..N) BY FS_Interval
  <2>2. IsFiniteSet(stay) BY <2>1, FS_Difference
  <2> QED BY <2>2, FS_CardinalityType
<1> HIDE DEF m
<1>1. Upto(N) = stay /\ C(N) = m /\ Upto(0) = {} /\ C(0) = 0
  <2>1. \A i \in stay : i <= N /\ ~(i <= 0) OBVIOUS
  <2>2. Upto(N) = stay /\ Upto(0) = {} BY <2>1
  <2> QED BY <2>2, FS_EmptySet DEF m
<1>2. \A n \in Nat : C(n) \in Nat /\ C(n + 1) = IF n + 1 \in stay THEN C(n) + 1 ELSE C(n)
  BY <1>0, CountUpTo
<1> HIDE DEF C
<1>3. ASSUME NEW k \in 1..m PROVE \E i \in stay : C(i) = k
  <2> DEFINE S == {n \in Nat : C(n) >= k}
  <2>1. N \in S BY <1>0, <1>1
  <2>2. PICK n \in S : \A x \in S : n <= x BY <2>1, LeastNat
  <2>3. n # 0 BY <1>1, <1>0
  <2>4. n - 1 \in Nat /\ n - 1 \notin S BY <2>2, <2>3
  <2>5. C(n - 1) < k
    <3>1. ~(C(n - 1) >= k) BY <2>4
    <3>2. C(n - 1) \in Nat BY <2>4, <1>2
    <3>3. k \in Nat BY <1>0
    <3> QED BY <3>1, <3>2, <3>3
  <2>6. C(n - 1) \in Nat /\ C((n - 1) + 1) = IF (n - 1) + 1 \in stay THEN C(n - 1) + 1 ELSE C(n - 1)
    BY <2>4, <1>2
  <2>7. (n - 1) + 1 = n BY <2>4
  <2> QED BY <2>2, <2>5, <2>6, <2>7, <1>0
<1>4. \A k \in 1..m : at(k) \in stay /\ C(at(k)) = k BY <1>3
<1>5. ASSUME NEW i \in stay PROVE C(i) \in 1..m
  <2>1. i \in Upto(i) BY <1>0
  <2>2. IsFiniteSet(Upto(i)) /\ C(i) \in Nat BY <1>0, CountUpTo DEF C
  <2>3. C(i) # 0 BY <2>1, <2>2, FS_EmptySet DEF C
  <2>4. Upto(i) \in SUBSET stay OBVIOUS
  <2>5. C(i) <= m BY <2>4, <1>0, FS_Subset DEF C, m
  <2> QED BY <2>2, <2>3, <2>5, <1>0
<1>6. ASSUME NEW i \in stay, NEW j \in stay, C(i) = C(j), i < j PROVE FALSE
  <2>1. IsFiniteSet(Upto(j)) BY <1>0, CountUpTo
  <2>2. Upto(i) \in SUBSET Upto(j) BY <1>6, <1>0
  <2>3. Upto(i) = Upto(j) BY <2>1, <2>2, <1>6, FS_Subset DEF C
  <2>4. j \in Upto(j) /\ j \notin Upto(i) BY <1>6, <1>0
  <2> QED BY <2>3, <2>4
<1>7. \A i, j \in stay : C(i) = C(j) => i = j
  <2> SUFFICES ASSUME NEW i \in stay, NEW j \in stay, C(i) = C(j), i # j PROVE FALSE OBVIOUS
  <2>1. i < j \/ j < i BY <1>0
  <2> QED BY <2>1, <1>6
<1> DEFINE f == [k \in 1..m |-> at(k)]
<1> HIDE DEF stay, at
<1>8. /\ f \in [1..m -> stay]
      /\ \A a, b \in 1..m : f[a] = f[b] => a = b
      /\ \A i \in stay : \E k \in 1..m : f[k] = i
  <2>1. f \in [1..m -> stay] BY <1>4
  <2>2. \A a, b \in 1..m : f[a] = f[b] => a = b BY <1>4
  <2>3. \A i \in stay : \E k \in 1..m : f[k] = i
    <3> TAKE i \in stay
    <3>1. C(i) \in 1..m BY <1>5
    <3>2. at(C(i)) = i BY <3>1, <1>4, <1>7
    <3> QED BY <3>1, <3>2
  <2> QED BY <2>1, <2>2, <2>3
<1>9. Without(l, gone) = [k \in 1..m |-> l[at(k)]]
  BY DEF Without, stay, at, C, m, Upto
<1>10. \A k \in 1..m : l[at(k)] \in Entry
  <2>1. \A k \in 1..m : at(k) \in 1..Len(l) BY <1>4 DEF stay
  <2> QED BY <2>1
<1>11. Without(l, gone) \in Seq(Entry) /\ Len(Without(l, gone)) = m
  BY <1>0, <1>9, <1>10
<1>12. \A k \in 1..m : Without(l, gone)[k] = l[f[k]] BY <1>9
<1> DEFINE w == Without(l, gone)
<1> HIDE DEF w, f
<1>13. w \in Seq(Entry) /\ Len(w) = m /\ \A k \in 1..m : w[k] = l[f[k]] BY <1>11, <1>12 DEF w
<1>14. Moved(l, gone, w)
  <2>1. /\ f \in [1..Len(w) -> 1..Len(l) \ gone]
        /\ \A k \in 1..Len(w) : w[k] = l[f[k]]
        /\ \A a, b \in 1..Len(w) : f[a] = f[b] => a = b
        /\ \A i \in 1..Len(l) \ gone : \E k \in 1..Len(w) : f[k] = i
    <3>1. Len(w) = m BY <1>13
    <3>2. \A k \in 1..m : w[k] = l[f[k]] BY <1>13
    <3>3. stay = 1..Len(l) \ gone BY DEF stay
    <3>4. f \in [1..Len(w) -> 1..Len(l) \ gone] BY <3>1, <3>3, <1>8
    <3>5. \A k \in 1..Len(w) : w[k] = l[f[k]] BY <3>1, <3>2
    <3>6. \A a, b \in 1..Len(w) : f[a] = f[b] => a = b BY <3>1, <1>8
    <3>7. \A i \in 1..Len(l) \ gone : \E k \in 1..Len(w) : f[k] = i BY <3>1, <3>3, <1>8
    <3> QED BY <3>4, <3>5, <3>6, <3>7
  <2> QED BY <2>1, Zenon DEF Moved
<1> QED BY <1>13, <1>14 DEF w

\* The established channels of a connection and a profile can be counted.
LEMMA PositionsFinite ==
  ASSUME NEW l \in Seq(Entry), NEW h, NEW p
  PROVE  IsFiniteSet(Positions(l, h, p)) /\ Cardinality(Positions(l, h, p)) \in Nat
<1>1. IsFiniteSet(1..Len(l)) BY FS_Interval
<1>2. Positions(l, h, p) \in SUBSET (1..Len(l)) BY DEF Positions
<1> QED BY <1>1, <1>2, FS_Subset, FS_CardinalityType

-----------------------------------------------------------------------------
(* Types and bitmaps of rtk_prof.  A count may be below 0.                 *)

ConnInt == [type : {"none", "acl", "sco", "le"}, map : SUBSET Profiles, ref : [Profiles -> Int]]
ProfInt == [conn : [Handles -> ConnInt], list : Seq(Entry), ref : [Profiles -> Int],
            map : SUBSET Profiles, status : SUBSET Profiles, timers : SUBSET Timers,
            count : [Timers -> Nat]]
ConnBits(c) == \A p \in Counted : p \in c.map <=> c.ref[p] > 0
BitsOf(g) ==
  /\ \A p \in Counted : p \in g.map <=> g.ref[p] > 0
  /\ \A p \in Counted, h \in Handles : p \in g.conn[h].map <=> g.conn[h].ref[p] > 0
  /\ g.timers = g.map \cap Timers
Loose(g) == g \in ProfInt /\ BitsOf(g)

\* The parts of a loose rtk_prof.
LEMMA LooseTypes ==
  ASSUME NEW g, Loose(g)
  PROVE  /\ g \in ProfInt /\ g.list \in Seq(Entry) /\ Len(g.list) \in Nat
         /\ g.conn \in [Handles -> ConnInt] /\ g.ref \in [Profiles -> Int]
         /\ g.map \in SUBSET Profiles /\ g.status \in SUBSET Profiles
         /\ g.timers \in SUBSET Timers /\ g.count \in [Timers -> Nat]
         /\ \A h \in Handles : /\ g.conn[h] \in ConnInt
                               /\ g.conn[h].type \in {"none", "acl", "sco", "le"}
                               /\ g.conn[h].map \in SUBSET Profiles
                               /\ g.conn[h].ref \in [Profiles -> Int]
                               /\ ConnBits(g.conn[h])
         /\ \A i \in 1..Len(g.list) : g.list[i] \in Entry
<1>1. g \in ProfInt BY DEF Loose
<1>2. /\ g.list \in Seq(Entry)
      /\ g.conn \in [Handles -> ConnInt] /\ g.ref \in [Profiles -> Int]
      /\ g.map \in SUBSET Profiles /\ g.status \in SUBSET Profiles
      /\ g.timers \in SUBSET Timers /\ g.count \in [Timers -> Nat]
  BY <1>1 DEF ProfInt
<1>3. \A c \in ConnInt : /\ c.type \in {"none", "acl", "sco", "le"}
                         /\ c.map \in SUBSET Profiles /\ c.ref \in [Profiles -> Int]
  BY DEF ConnInt
<1>4. \A h \in Handles : ConnBits(g.conn[h]) BY DEF Loose, BitsOf, ConnBits
<1> QED BY <1>1, <1>2, <1>3, <1>4

\* rtk_prof with another connection h, other totals and bits.
LEMMA LooseBuilt ==
  ASSUME NEW g, Loose(g), NEW a \in ProfInt, NEW h \in Handles, NEW c \in ConnInt, ConnBits(c),
         a.conn = [g.conn EXCEPT ![h] = c],
         \A p \in Counted : p \in a.map <=> a.ref[p] > 0,
         a.timers = a.map \cap Timers
  PROVE  Loose(a)
<1>1. a.conn[h] = c /\ \A x \in Handles \ {h} : a.conn[x] = g.conn[x] BY LooseTypes
<1>2. \A x \in Handles : ConnBits(g.conn[x]) BY LooseTypes
<1>3. \A x \in Handles : ConnBits(a.conn[x])
  <2> TAKE x \in Handles
  <2>1. CASE x = h BY <1>1, <2>1
  <2>2. CASE x # h BY <1>1, <1>2, <2>2
  <2> QED BY <2>1, <2>2
<1>4. BitsOf(a) BY <1>3 DEF BitsOf, ConnBits
<1> QED BY <1>4 DEF Loose

ListSet(g, l) == [g EXCEPT !.list = l]
StatusSet(g, st) == [g EXCEPT !.status = st]
CountSet(g, n) == [g EXCEPT !.count = n]
\* Changes of the list, the status and the packet counts.
LEMMA LooseOther ==
  ASSUME NEW g, Loose(g)
  PROVE  /\ \A l \in Seq(Entry) : Loose(ListSet(g, l))
         /\ \A st \in SUBSET Profiles : Loose(StatusSet(g, st))
         /\ \A n \in [Timers -> Nat] : Loose(CountSet(g, n))
<1>0. g \in ProfInt BY DEF Loose
<1>1. ASSUME NEW a \in ProfInt, a.conn = g.conn, a.ref = g.ref, a.map = g.map, a.timers = g.timers
      PROVE  Loose(a)
  BY <1>1 DEF Loose, BitsOf
<1>2. ASSUME NEW l \in Seq(Entry) PROVE Loose(ListSet(g, l))
  <2> DEFINE a == ListSet(g, l)
  <2>1. a \in ProfInt /\ a.conn = g.conn /\ a.ref = g.ref /\ a.map = g.map /\ a.timers = g.timers
    BY <1>0 DEF ProfInt, ListSet
  <2> HIDE DEF a
  <2>2. Loose(a) BY <1>1, <2>1
  <2> QED BY <2>2 DEF a
<1>3. ASSUME NEW st \in SUBSET Profiles PROVE Loose(StatusSet(g, st))
  <2> DEFINE a == StatusSet(g, st)
  <2>1. a \in ProfInt /\ a.conn = g.conn /\ a.ref = g.ref /\ a.map = g.map /\ a.timers = g.timers
    BY <1>0 DEF ProfInt, StatusSet
  <2> HIDE DEF a
  <2>2. Loose(a) BY <1>1, <2>1
  <2> QED BY <2>2 DEF a
<1>4. ASSUME NEW n \in [Timers -> Nat] PROVE Loose(CountSet(g, n))
  <2> DEFINE a == CountSet(g, n)
  <2>1. a \in ProfInt /\ a.conn = g.conn /\ a.ref = g.ref /\ a.map = g.map /\ a.timers = g.timers
    BY <1>0 DEF ProfInt, CountSet
  <2> HIDE DEF a
  <2>2. Loose(a) BY <1>1, <2>1
  <2> QED BY <2>2 DEF a
<1> QED BY <1>2, <1>3, <1>4

\* A connection begins anew or is gone.
LEMMA LooseConn ==
  ASSUME NEW g, Loose(g), NEW h \in Handles
  PROVE  /\ \A t \in {"none", "acl", "sco", "le"} : Loose(new_conn(g, h, t))
         /\ Loose([g EXCEPT !.conn[h] = NoConn])
<1>0. g \in ProfInt /\ g.conn \in [Handles -> ConnInt] BY LooseTypes
<1>1. ASSUME NEW c \in ConnInt, ConnBits(c) PROVE Loose([g EXCEPT !.conn[h] = c])
  <2> DEFINE C == [g.conn EXCEPT ![h] = c]
             a == [g EXCEPT !.conn = C]
  <2>1. C \in [Handles -> ConnInt] BY <1>0
  <2> HIDE DEF C
  <2>2. a \in ProfInt /\ a.conn = C /\ a.ref = g.ref /\ a.map = g.map /\ a.timers = g.timers
    BY <1>0, <2>1 DEF ProfInt
  <2> HIDE DEF a
  <2>3. Loose(a) BY <1>1, <2>2, LooseBuilt DEF C, Loose, BitsOf
  <2>4. a = [g EXCEPT !.conn[h] = c] BY <1>0 DEF ProfInt, a, C
  <2> QED BY <2>3, <2>4
<1>2. ASSUME NEW t \in {"none", "acl", "sco", "le"}
      PROVE  [NoConn EXCEPT !.type = t] \in ConnInt /\ ConnBits([NoConn EXCEPT !.type = t])
  BY DEF NoConn, ConnInt, ConnBits, Counted
<1>3. NoConn \in ConnInt /\ ConnBits(NoConn) BY DEF NoConn, ConnInt, ConnBits, Counted
<1> QED BY <1>1, <1>2, <1>3 DEF new_conn

\* Counting a profile: its bit is set by the count that makes it 1.
LEMMA LooseAdd ==
  ASSUME NEW g, Loose(g), NEW h \in Handles, NEW p \in Counted
  PROVE  Loose(add_profile(g, h, p))
<1> DEFINE a == add_profile(g, h, p)
           first == g.ref[p] = 0
           g0 == [g EXCEPT !.map = @ \cup {p}, !.status = IF p = "sco" THEN @ \cup {p} ELSE @]
           g1 == IF first THEN setup_timer(g0, p) ELSE g
<1>0. /\ g \in ProfInt /\ p \in Profiles /\ g.conn[h] \in ConnInt /\ ConnBits(g.conn[h])
      /\ g.conn[h].map \in SUBSET Profiles /\ g.conn[h].ref \in [Profiles -> Int]
      /\ g.ref \in [Profiles -> Int] /\ g.conn \in [Handles -> ConnInt] /\ Counted \subseteq Profiles
  BY LooseTypes DEF Counted
<1>1. /\ g0 \in ProfInt /\ g0.conn = g.conn /\ g0.ref = g.ref
      /\ g0.map = g.map \cup {p} /\ g0.timers = g.timers
  BY <1>0 DEF ProfInt
<1> HIDE DEF g0
<1>2. /\ g1 \in ProfInt /\ g1.conn = g.conn /\ g1.ref = g.ref
      /\ g1.map = IF first THEN g.map \cup {p} ELSE g.map
      /\ g1.timers = IF first /\ p \in Timers THEN g.timers \cup {p} ELSE g.timers
  <2>1. CASE first /\ p \in Timers BY <1>1, <2>1 DEF ProfInt, setup_timer
  <2>2. CASE first /\ p \notin Timers BY <1>1, <2>2 DEF ProfInt, setup_timer
  <2>3. CASE ~first BY <1>0, <2>3 DEF ProfInt
  <2> QED BY <2>1, <2>2, <2>3
<1> DEFINE m == IF g.conn[h].ref[p] = 0 THEN g.conn[h].map \cup {p} ELSE g.conn[h].map
           r == [g.conn[h].ref EXCEPT ![p] = @ + 1]
           R == [g.ref EXCEPT ![p] = @ + 1]
           c == [g.conn[h] EXCEPT !.map = m, !.ref = r]
           C == [g.conn EXCEPT ![h] = c]
<1>3. a = [g1 EXCEPT !.ref = R, !.conn = C]
  <2>1. a = [g1 EXCEPT !.ref[p] = @ + 1, !.conn[h] = conn_add(@, p)]
    BY DEF add_profile, g0
  <2> HIDE DEF g1, a
  <2>2. g1.conn[h] = g.conn[h] /\ g1.ref = g.ref /\ g1.conn = g.conn BY <1>2
  <2>3. conn_add(g1.conn[h], p) = c BY <2>2, <1>0 DEF ConnInt, conn_add
  <2> HIDE DEF c
  <2> QED BY <2>1, <2>2, <2>3
<1> HIDE DEF g1, a
<1>4. m \in SUBSET Profiles /\ r \in [Profiles -> Int] /\ R \in [Profiles -> Int] BY <1>0
<1>5. /\ \A q \in Counted : q \in m <=> r[q] > 0
      /\ \A q \in Counted : q \in (IF first THEN g.map \cup {p} ELSE g.map) <=> R[q] > 0
  <2>1. ASSUME NEW q \in Counted PROVE q \in m <=> r[q] > 0
    <3>1. q \in Profiles /\ g.conn[h].ref[q] \in Int /\ (q \in g.conn[h].map <=> g.conn[h].ref[q] > 0)
      BY <1>0 DEF ConnBits
    <3> QED BY <1>0, <3>1
  <2>2. ASSUME NEW q \in Counted PROVE q \in (IF first THEN g.map \cup {p} ELSE g.map) <=> R[q] > 0
    <3>1. q \in Profiles /\ g.ref[q] \in Int /\ (q \in g.map <=> g.ref[q] > 0)
      BY <1>0 DEF Loose, BitsOf
    <3> QED BY <1>0, <3>1
  <2> QED BY <2>1, <2>2
<1> HIDE DEF m, r, R
<1>6. c \in ConnInt /\ c.map = m /\ c.ref = r BY <1>0, <1>4 DEF ConnInt
<1>7. ConnBits(c) BY <1>5, <1>6 DEF ConnBits
<1> HIDE DEF c
<1>8. C \in [Handles -> ConnInt] BY <1>0, <1>6
<1> HIDE DEF C
<1>9. a \in ProfInt /\ a.conn = C /\ a.ref = R /\ a.map = g1.map /\ a.timers = g1.timers
  BY <1>2, <1>3, <1>4, <1>8 DEF ProfInt
<1>10. a.timers = a.map \cap Timers BY <1>2, <1>9 DEF Loose, BitsOf
<1>11. Loose(a) BY <1>2, <1>5, <1>6, <1>7, <1>9, <1>10, LooseBuilt DEF C
<1> QED BY <1>11 DEF a

\* Counting profiles off, as often as one likes: the bit is cleared by the count that
\* makes it 0.
LEMMA LooseRemove ==
  ASSUME NEW g, Loose(g), NEW h \in Handles, NEW n \in [Profiles -> Nat]
  PROVE  Loose(remove_profiles(g, h, n))
<1> DEFINE a == remove_profiles(g, h, n)
           over == {p \in Profiles : g.ref[p] \in 1..n[p]}
           left == {p \in Profiles : g.conn[h].ref[p] \in 1..n[p]}
           gone == IF "hid" \in left THEN {"hid_interval"} \cap (g.conn[h].map \ left) ELSE {}
           r == [p \in Profiles |-> g.ref[p] - n[p] - IF p \in gone THEN 1 ELSE 0]
           cr == [p \in Profiles |-> g.conn[h].ref[p] - n[p]]
           cm == (g.conn[h].map \ left) \ gone
           c == [g.conn[h] EXCEPT !.ref = cr, !.map = cm]
           C == [g.conn EXCEPT ![h] = c]
           g1 == [g EXCEPT !.ref = r, !.map = @ \ over, !.status = @ \ over, !.conn = C]
<1>0. /\ g \in ProfInt /\ g.conn[h] \in ConnInt /\ ConnBits(g.conn[h])
      /\ g.conn[h].map \in SUBSET Profiles /\ g.conn[h].ref \in [Profiles -> Int]
      /\ g.ref \in [Profiles -> Int] /\ g.conn \in [Handles -> ConnInt]
      /\ Counted \subseteq Profiles /\ "hid_interval" \notin Counted
  BY LooseTypes DEF Counted
<1>1. \A p \in Counted : p \notin gone BY <1>0
<1>2. r \in [Profiles -> Int] /\ cr \in [Profiles -> Int] /\ cm \in SUBSET Profiles BY <1>0
<1>3. \A p \in Counted : p \in g.map \ over <=> r[p] > 0
  <2> TAKE p \in Counted
  <2>1. p \in Profiles /\ g.ref[p] \in Int /\ n[p] \in Nat /\ (p \in g.map <=> g.ref[p] > 0)
    BY <1>0 DEF Loose, BitsOf
  <2>2. r[p] = g.ref[p] - n[p] - 0 BY <1>1, <2>1
  <2>3. p \in over <=> g.ref[p] \in 1..n[p] BY <2>1
  <2> HIDE DEF r, over
  <2> QED BY <2>1, <2>2, <2>3
<1>4. \A p \in Counted : p \in cm <=> cr[p] > 0
  <2> TAKE p \in Counted
  <2>1. p \in Profiles /\ g.conn[h].ref[p] \in Int /\ n[p] \in Nat /\ (p \in g.conn[h].map <=> g.conn[h].ref[p] > 0)
    BY <1>0 DEF ConnBits
  <2>2. cr[p] = g.conn[h].ref[p] - n[p] BY <2>1
  <2>3. p \in left <=> g.conn[h].ref[p] \in 1..n[p] BY <2>1
  <2>4. p \in cm <=> p \in g.conn[h].map /\ p \notin left BY <1>1
  <2> HIDE DEF cr, left, cm
  <2> QED BY <2>1, <2>2, <2>3, <2>4
<1>5. a = del_timers(g1, over)
  <2>1. g1 = [g EXCEPT !.ref = [p \in Profiles |-> @[p] - n[p] - IF p \in gone THEN 1 ELSE 0],
                          !.map = @ \ over, !.status = @ \ over,
                          !.conn[h].ref = [p \in Profiles |-> @[p] - n[p]],
                          !.conn[h].map = (@ \ left) \ gone]
    <3> HIDE DEF over, left, gone
    <3> QED BY <1>0 DEF ProfInt, ConnInt
  <2> QED BY <2>1 DEF remove_profiles
<1> HIDE DEF a, r, cr, cm
<1>6. c \in ConnInt /\ c.ref = cr /\ c.map = cm BY <1>0, <1>2 DEF ConnInt
<1>7. ConnBits(c) BY <1>4, <1>6 DEF ConnBits
<1> HIDE DEF over, c
<1>8. C \in [Handles -> ConnInt] BY <1>0, <1>6
<1> HIDE DEF C
<1>9. /\ g1 \in ProfInt /\ g1.ref = r /\ g1.map = g.map \ over /\ g1.timers = g.timers /\ g1.conn = C
  BY <1>0, <1>2, <1>8 DEF ProfInt
<1> HIDE DEF g1
<1> DEFINE ct == [t \in Timers |-> IF t \in over THEN 0 ELSE g1.count[t]]
<1>10. ct \in [Timers -> Nat] BY <1>9 DEF ProfInt
<1>11. a = [g1 EXCEPT !.timers = @ \ over, !.count = ct] BY <1>5, <1>9 DEF del_timers, ProfInt
<1> HIDE DEF ct
<1>12. /\ a \in ProfInt /\ a.ref = g1.ref /\ a.map = g1.map /\ a.timers = g1.timers \ over /\ a.conn = g1.conn
  BY <1>9, <1>10, <1>11 DEF ProfInt
<1>13. a.timers = a.map \cap Timers BY <1>9, <1>12 DEF Loose, BitsOf
<1>14. Loose(a) BY <1>3, <1>6, <1>7, <1>9, <1>12, <1>13, LooseBuilt DEF C
<1> QED BY <1>14 DEF a

Interval(g, h, m, k, st) == [g EXCEPT !.conn[h].map = m, !.ref["hid_interval"] = k, !.status = st]
\* update_hid_active_state touches no other bit or count than those of the interval.
LEMMA LooseHid ==
  ASSUME NEW g, Loose(g), NEW h \in Handles, NEW short \in BOOLEAN
  PROVE  Loose(hid_active(g, h, short))
<1> DEFINE on == "hid_interval" \in g.conn[h].map
           n == g.ref["hid_interval"]
<1>0. /\ g \in ProfInt /\ g.conn[h] \in ConnInt /\ ConnBits(g.conn[h])
      /\ g.conn[h].map \in SUBSET Profiles /\ g.status \in SUBSET Profiles
      /\ g.ref \in [Profiles -> Int] /\ g.conn \in [Handles -> ConnInt]
      /\ Counted \subseteq Profiles /\ "hid_interval" \notin Counted /\ "hid" \in Profiles
      /\ "hid_interval" \in Profiles
  BY LooseTypes DEF Counted, Profiles
<1>1. ASSUME NEW m \in SUBSET Profiles, NEW k \in Int, NEW st \in SUBSET Profiles,
             \A q \in Counted : q \in m <=> q \in g.conn[h].map
      PROVE  Loose(Interval(g, h, m, k, st))
  <2> DEFINE c == [g.conn[h] EXCEPT !.map = m]
             C == [g.conn EXCEPT ![h] = c]
             R == [g.ref EXCEPT !["hid_interval"] = k]
             a == [g EXCEPT !.conn = C, !.ref = R, !.status = st]
  <2>1. a = Interval(g, h, m, k, st) BY <1>0 DEF ProfInt, Interval
  <2>2. c \in ConnInt /\ c.map = m /\ c.ref = g.conn[h].ref BY <1>0 DEF ConnInt
  <2>3. ConnBits(c) BY <1>0, <1>1, <2>2 DEF ConnBits
  <2> HIDE DEF c
  <2>4. C \in [Handles -> ConnInt] /\ R \in [Profiles -> Int] /\ \A q \in Counted : R[q] = g.ref[q] BY <1>0, <2>2
  <2> HIDE DEF C, R
  <2>5. a \in ProfInt /\ a.conn = C /\ a.ref = R /\ a.map = g.map /\ a.timers = g.timers
    BY <1>0, <2>4 DEF ProfInt
  <2> HIDE DEF a
  <2>6. Loose(a) BY <2>2, <2>3, <2>4, <2>5, LooseBuilt DEF C, Loose, BitsOf
  <2> QED BY <2>1, <2>6
<1>2. CASE "hid" \notin g.conn[h].map \/ short = on
  <2>1. hid_active(g, h, short) = g BY <1>2 DEF hid_active
  <2> QED BY <2>1
<1>3. CASE "hid" \in g.conn[h].map /\ short /\ ~on
  <2> DEFINE m == g.conn[h].map \cup {"hid_interval"}
             st == IF n + 1 = 1 THEN g.status \cup {"hid"} ELSE g.status
             k == n + 1
  <2>1. hid_active(g, h, short) = Interval(g, h, m, k, st)
    BY <1>3 DEF hid_active, Interval
  <2>2. m \in SUBSET Profiles /\ k \in Int /\ st \in SUBSET Profiles /\ \A q \in Counted : q \in m <=> q \in g.conn[h].map
    BY <1>0
  <2> HIDE DEF m, k, st
  <2> QED BY <1>1, <2>1, <2>2
<1>4. CASE "hid" \in g.conn[h].map /\ ~short /\ on
  <2> DEFINE m == g.conn[h].map \ {"hid_interval"}
             st == IF n - 1 = 0 THEN g.status \ {"hid"} ELSE g.status
             k == n - 1
  <2>1. hid_active(g, h, short) = Interval(g, h, m, k, st)
    BY <1>4 DEF hid_active, Interval
  <2>2. m \in SUBSET Profiles /\ k \in Int /\ st \in SUBSET Profiles /\ \A q \in Counted : q \in m <=> q \in g.conn[h].map
    BY <1>0
  <2> HIDE DEF m, k, st
  <2> QED BY <1>1, <2>1, <2>2
<1> QED BY <1>2, <1>3, <1>4

\* update_profile_state changes the status only, a data packet the count.
LEMMA LooseBusy ==
  ASSUME NEW g, Loose(g)
  PROVE  /\ \A p \in Profiles : Loose(set_busy(g, p))
         /\ \A p \in Timers, limit \in Nat :
              Loose([g EXCEPT !.count[p] = IF @ < limit THEN @ + 1 ELSE @])
<1>0. g \in ProfInt /\ g.status \in SUBSET Profiles /\ g.count \in [Timers -> Nat] BY LooseTypes
<1>1. ASSUME NEW p \in Profiles PROVE Loose(set_busy(g, p))
  <2> DEFINE st == g.status \cup {p}
  <2>1. st \in SUBSET Profiles BY <1>0
  <2>2. set_busy(g, p) = g \/ set_busy(g, p) = StatusSet(g, st) BY DEF set_busy, StatusSet
  <2> HIDE DEF st
  <2> QED BY <2>1, <2>2, LooseOther
<1>2. ASSUME NEW p \in Timers, NEW limit \in Nat
      PROVE  Loose([g EXCEPT !.count[p] = IF @ < limit THEN @ + 1 ELSE @])
  <2> DEFINE n == [g.count EXCEPT ![p] = IF @ < limit THEN @ + 1 ELSE @]
  <2>1. n \in [Timers -> Nat] BY <1>0
  <2>2. [g EXCEPT !.count[p] = IF @ < limit THEN @ + 1 ELSE @] = CountSet(g, n) BY DEF CountSet
  <2> HIDE DEF n
  <2> QED BY <2>1, <2>2, LooseOther
<1> QED BY <1>1, <1>2

\* One count less.
LEMMA LooseRemoveOne ==
  ASSUME NEW g, Loose(g), NEW h \in Handles, NEW p
  PROVE  Loose(remove_profile(g, h, p))
<1> DEFINE n == [q \in Profiles |-> IF q = p THEN 1 ELSE 0]
<1>1. n \in [Profiles -> Nat] OBVIOUS
<1>2. remove_profile(g, h, p) = remove_profiles(g, h, n) BY DEF remove_profile
<1> HIDE DEF n
<1> QED BY <1>1, <1>2, LooseRemove

\* handle_l2cap_con_req
LEMMA LooseReq ==
  ASSUME NEW g, Loose(g), NEW h \in Handles, NEW p \in Psms,
         NEW s \in HostCids \cup {0}, NEW d \in RemoteCids \cup {0}
  PROVE  Loose(con_req(g, h, p, s, d))
<1> DEFINE e == [handle |-> h, profile |-> p, scid |-> s, dcid |-> d]
           l == Append(g.list, e)
<1>1. e \in Entry /\ g.list \in Seq(Entry) BY LooseTypes DEF Entry
<1>2. con_req(g, h, p, s, d) = g \/ con_req(g, h, p, s, d) = ListSet(g, l) BY DEF con_req, ListSet
<1> HIDE DEF e
<1>3. l \in Seq(Entry) BY <1>1
<1> HIDE DEF l
<1> QED BY <1>2, <1>3, LooseOther

\* The profiles of the list are counted.
LEMMA PsmCounted == Psms \subseteq Counted
BY PsmAssumption DEF Counted, Profiles

\* handle_l2cap_con_rsp, whichever entry it finds
LEMMA LooseRsp ==
  ASSUME NEW g, Loose(g), NEW h \in Handles, NEW i \in 0..Len(g.list),
         NEW s \in HostCids \cup {0}, NEW d \in RemoteCids \cup {0}, NEW ok \in BOOLEAN
  PROVE  Loose(con_rsp(g, h, i, s, d, ok))
<1> DEFINE l == [g.list EXCEPT ![i].scid = s, ![i].dcid = d]
           g1 == ListSet(g, l)
<1>0. g \in ProfInt /\ g.list \in Seq(Entry) /\ Len(g.list) \in Nat BY LooseTypes
<1>1. CASE i = 0 \/ ~ok
  <2>1. con_rsp(g, h, i, s, d, ok) = g BY <1>1 DEF con_rsp
  <2> QED BY <2>1
<1>2. CASE i # 0 /\ ok
  <2>1. i \in 1..Len(g.list) BY <1>0, <1>2
  <2>2. g.list[i] \in Entry /\ g.list[i].profile \in Counted
    <3>1. \A e \in Entry : e.profile \in Psms BY DEF Entry
    <3>2. g.list[i] \in Entry BY <1>0, <2>1
    <3> QED BY <3>1, <3>2, PsmCounted
  <2>3. [g.list[i] EXCEPT !.scid = s, !.dcid = d] \in Entry BY <2>2 DEF Entry
  <2>4. l = [g.list EXCEPT ![i] = [g.list[i] EXCEPT !.scid = s, !.dcid = d]] BY <1>0, <2>1
  <2>5. l \in Seq(Entry) BY <1>0, <2>1, <2>3, <2>4
  <2>6. con_rsp(g, h, i, s, d, ok) = g1 \/ con_rsp(g, h, i, s, d, ok) = add_profile(g1, h, g.list[i].profile)
    <3>1. [g EXCEPT !.list[i].scid = s, !.list[i].dcid = d] = g1 BY <1>0 DEF ProfInt, ListSet
    <3>2. ok = TRUE BY <1>2
    <3> HIDE DEF g1
    <3> QED BY <1>2, <3>1, <3>2 DEF con_rsp
  <2> HIDE DEF l
  <2>8. Loose(g1) BY <2>5, LooseOther
  <2> HIDE DEF g1
  <2>9. Loose(add_profile(g1, h, g.list[i].profile)) BY <2>2, <2>8, LooseAdd
  <2> QED BY <2>6, <2>8, <2>9
<1> QED BY <1>1, <1>2

\* handle_l2cap_discon_req
LEMMA LooseDiscon ==
  ASSUME NEW g, Loose(g), NEW h \in Handles, NEW s, NEW d
  PROVE  Loose(discon_req(g, h, s, d))
<1> DEFINE i == find_both(g, h, d, s)
           g1 == remove_profile(g, h, g.list[i].profile)
           g2 == IF g.list[i].profile = "a2dp" /\ "sink" \in g1.conn[h].map
                 THEN remove_profile(g1, h, "sink") ELSE g1
           l == Without(g2.list, {i})
<1>1. discon_req(g, h, s, d) = g \/ discon_req(g, h, s, d) = ListSet(g2, l) BY DEF discon_req, ListSet
<1>2. Loose(g1) BY LooseRemoveOne
<1> HIDE DEF g1
<1>3. Loose(g2)
  <2>1. Loose(remove_profile(g1, h, "sink")) BY <1>2, LooseRemoveOne
  <2> QED BY <1>2, <2>1
<1> HIDE DEF g2, i
<1>4. g2.list \in Seq(Entry) BY <1>3, LooseTypes
<1>5. l \in Seq(Entry) BY <1>4, WithoutMoves
<1> HIDE DEF l
<1>6. Loose(ListSet(g2, l)) BY <1>3, <1>5, LooseOther
<1> QED BY <1>1, <1>6

\* handle_disconnect_hci_conn_type_zero
LEMMA LooseDrop ==
  ASSUME NEW g, Loose(g), NEW h \in Handles
  PROVE  Loose(drop_channels(g, h))
<1> DEFINE gone == {i \in 1..Len(g.list) : g.list[i].handle = h /\ Established(g.list[i])}
           n == [p \in Profiles |-> Cardinality(Positions(g.list, h, p))]
           g1 == remove_profiles(g, h, n)
           l == Without(g.list, gone)
<1>0. g.list \in Seq(Entry) BY LooseTypes
<1>1. drop_channels(g, h) = ListSet(g1, l) BY DEF drop_channels, ListSet
<1>2. n \in [Profiles -> Nat] BY <1>0, PositionsFinite
<1> HIDE DEF n, gone
<1>3. Loose(g1) BY <1>2, LooseRemove
<1> HIDE DEF g1
<1>4. l \in Seq(Entry) BY <1>0, WithoutMoves
<1> HIDE DEF l
<1>5. Loose(ListSet(g1, l)) BY <1>3, <1>4, LooseOther
<1> QED BY <1>1, <1>5

-----------------------------------------------------------------------------
(* The invariant.                                                          *)

Chan == [handle : Handles, profile : Psms, scid : HostCids \cup {0}, dcid : RemoteCids \cup {0},
         st : {"asked", "answering", "open"}]
ChanTyped(c) ==
  /\ c \in Chan
  /\ c.st # "answering" => c.scid \in HostCids
  /\ c.st # "asked" => c.dcid \in RemoteCids
Req == [kind : {"req"}, handle : Handles, profile : Psms, scid : HostCids]
Rsp == [kind : {"rsp"}, handle : Handles, scid : HostCids, dcid : RemoteCids, ok : BOOLEAN]
Discon == [kind : {"discon"}, handle : Handles, scid : HostCids, dcid : RemoteCids]
Sig == Req \cup Rsp \cup Discon

\* Fields of the signals.
LEMMA SigFields ==
  ASSUME NEW s \in Sig
  PROVE  /\ s.handle \in Handles /\ s.scid \in HostCids /\ s.scid # 0
         /\ s.kind \in {"req", "rsp", "discon"}
         /\ s.kind = "req" => s.profile \in Psms
         /\ s.kind = "rsp" => s.dcid \in RemoteCids /\ s.dcid # 0 /\ s.ok \in BOOLEAN
         /\ s.kind = "discon" => s.dcid \in RemoteCids /\ s.dcid # 0
<1>1. CASE s \in Req BY <1>1, CidAssumption DEF Req
<1>2. CASE s \in Rsp BY <1>2, CidAssumption DEF Rsp
<1>3. CASE s \in Discon BY <1>3, CidAssumption DEF Discon
<1> QED BY <1>1, <1>2, <1>3 DEF Sig

ThreadTypes ==
  /\ handler \in [Timers -> {"idle", "due", "store", "sink", "store_sink", "reset"}]
  /\ loaded \in [Timers -> SUBSET Profiles]
SignalTypes == (\A c \in chans : ChanTyped(c)) /\ late \in Seq(Sig)
LooseInv == Loose(prof) /\ ThreadTypes /\ SignalTypes /\ overtaken \in BOOLEAN

\* What parse_sent makes of a signal.
Effect(g, s) ==
  CASE s.kind = "req"    -> con_req(g, s.handle, s.profile, s.scid, 0)
    [] s.kind = "rsp"    -> rsp_out(g, s.handle, s.scid, s.dcid, s.ok)
    [] s.kind = "discon" -> discon_req(g, s.handle, s.scid, s.dcid)
\* The three handlers keep the types and the bitmaps.
LEMMA LooseEffect ==
  ASSUME NEW g, Loose(g), NEW s \in Sig
  PROVE  Loose(Effect(g, s))
<1>0. /\ s.handle \in Handles /\ s.scid \in HostCids
      /\ s.kind \in {"req", "rsp", "discon"}
      /\ s.kind = "req" => s.profile \in Psms
      /\ s.kind = "rsp" => s.dcid \in RemoteCids /\ s.ok \in BOOLEAN
      /\ s.kind = "discon" => s.dcid \in RemoteCids
  BY SigFields
<1>1. CASE s.kind = "req"
  <2>1. Effect(g, s) = con_req(g, s.handle, s.profile, s.scid, 0) BY <1>1 DEF Effect
  <2> QED BY <1>0, <1>1, <2>1, LooseReq
<1>2. CASE s.kind = "rsp"
  <2> DEFINE i == find_dcid(g, s.handle, s.dcid)
  <2>1. Effect(g, s) = con_rsp(g, s.handle, i, s.scid, s.dcid, s.ok) BY <1>2 DEF Effect, rsp_out
  <2>2. i \in 0..Len(g.list)
    <3>1. g.list \in Seq(Entry) /\ Len(g.list) \in Nat BY LooseTypes
    <3>2. i = 0 \/ i \in 1..Len(g.list) BY <3>1, FindsOne
    <3> QED BY <3>1, <3>2
  <2> HIDE DEF i
  <2>3. CASE s.ok
    <3>1. s.ok = TRUE BY <1>0, <1>2, <2>3, Zenon
    <3>2. Effect(g, s) = con_rsp(g, s.handle, i, s.scid, s.dcid, TRUE) BY <2>1, <3>1
    <3> QED BY <1>0, <1>2, <2>2, <3>2, LooseRsp
  <2>4. CASE ~s.ok
    <3>1. Effect(g, s) = g BY <2>1, <2>4 DEF con_rsp
    <3> QED BY <3>1
  <2> QED BY <2>3, <2>4
<1>3. CASE s.kind = "discon"
  <2>1. Effect(g, s) = discon_req(g, s.handle, s.scid, s.dcid) BY <1>3 DEF Effect
  <2> QED BY <1>0, <1>3, <2>1, LooseDiscon
<1> QED BY <1>0, <1>1, <1>2, <1>3

\* At the start.
LEMMA InitLoose ==
  ASSUME Init
  PROVE  LooseInv
<1> DEFINE g == prof
<1>0. NoConn \in ConnInt /\ NoConn.map = {} /\ \A p \in Profiles : NoConn.ref[p] = 0
  BY DEF NoConn, ConnInt
<1>1. /\ g.conn = [h \in Handles |-> NoConn] /\ g.ref = [p \in Profiles |-> 0]
      /\ g.map = {} /\ g.timers = {}
  BY DEF Init
<1>2. g \in ProfInt
  <2> DEFINE c == [h \in Handles |-> NoConn]
             r == [p \in Profiles |-> 0]
             n == [t \in Timers |-> 0]
             l == << >>
  <2>1. c \in [Handles -> ConnInt] /\ r \in [Profiles -> Int] /\ n \in [Timers -> Nat] /\ l \in Seq(Entry) BY <1>0
  <2>2. g = [conn |-> c, list |-> l, ref |-> r, map |-> {}, status |-> {}, timers |-> {}, count |-> n] BY DEF Init
  <2> HIDE DEF c, r, n, l, g
  <2> QED BY <2>1, <2>2 DEF ProfInt
<1> HIDE DEF g
<1>3. BitsOf(g) BY <1>0, <1>1 DEF BitsOf, Counted
<1>4. ThreadTypes BY DEF Init, ThreadTypes
<1>5. SignalTypes BY DEF Init, SignalTypes
<1>6. overtaken \in BOOLEAN BY DEF Init
<1> QED BY <1>2, <1>3, <1>4, <1>5, <1>6 DEF LooseInv, Loose, g

\* The parser may take the store of a handler away, and no more.
LEMMA ParserTypes ==
  ASSUME ThreadTypes, Parser
  PROVE  ThreadTypes'
<1>1. PICK lost \in SUBSET Timers :
        handler' = [t \in Timers |-> IF t \in lost THEN AfterStore(t) ELSE handler[t]]
  BY DEF Parser
<1>2. \A t \in Timers : AfterStore(t) \in {"sink", "reset"} BY DEF AfterStore
<1>3. handler' \in [Timers -> {"idle", "due", "store", "sink", "store_sink", "reset"}]
  BY <1>1, <1>2 DEF ThreadTypes
<1>4. loaded' \in [Timers -> SUBSET Profiles] BY DEF ThreadTypes, Parser
<1> QED BY <1>3, <1>4 DEF ThreadTypes

\* The history is a truth value.
LEMMA OvertakesType ==
  ASSUME Overtakes
  PROVE  overtaken' \in BOOLEAN
BY Zenon DEF Overtakes

\* The HCI events.
LEMMA HciLoose ==
  ASSUME LooseInv, NEW h \in Handles, HciEvent(h)
  PROVE  LooseInv'
<1>0. Loose(prof) /\ ThreadTypes /\ SignalTypes /\ overtaken \in BOOLEAN BY DEF LooseInv
<1>c. "sco" \in Counted /\ "hid" \in Counted BY DEF Counted, Profiles
<1>1. ASSUME Loose(prof'), Parser, UNCHANGED <<chans, late, overtaken>> PROVE LooseInv'
  <2>1. ThreadTypes' BY <1>0, <1>1, ParserTypes
  <2>2. SignalTypes' BY <1>0, <1>1 DEF SignalTypes, ChanTyped
  <2> QED BY <1>0, <1>1, <2>1, <2>2 DEF LooseInv
<1>2. ASSUME NEW type \in {"acl", "sco"}, connection_complete(h, type) PROVE LooseInv'
  <2>1. Loose(new_conn(prof, h, type)) BY <1>0, LooseConn
  <2>2. Loose(add_profile(new_conn(prof, h, type), h, "sco")) BY <1>c, <2>1, LooseAdd
  <2>3. Parser /\ UNCHANGED <<chans, late, overtaken>> BY <1>2 DEF connection_complete
  <2>4. Loose(prof') BY <1>2, <2>1, <2>2 DEF connection_complete
  <2> QED BY <1>1, <2>3, <2>4
<1>3. ASSUME NEW short \in BOOLEAN, le_connection_complete(h, short) PROVE LooseInv'
  <2> DEFINE a == new_conn(prof, h, "le")
             b == add_profile(a, h, "hid")
  <2>1. Loose(a) BY <1>0, LooseConn
  <2>2. Parser /\ UNCHANGED <<chans, late, overtaken>> /\ prof' = hid_active(b, h, short)
    BY <1>3 DEF le_connection_complete
  <2> HIDE DEF a
  <2>3. Loose(b) BY <1>c, <2>1, LooseAdd
  <2> HIDE DEF b
  <2>4. Loose(prof') BY <2>2, <2>3, LooseHid
  <2> QED BY <1>1, <2>2, <2>4
<1>4. ASSUME NEW short \in BOOLEAN, interval_change(h, short) PROVE LooseInv'
  <2>1. Parser /\ UNCHANGED <<chans, late, overtaken>> /\ prof' = hid_active(prof, h, short)
    BY <1>4 DEF interval_change
  <2>2. Loose(prof') BY <1>0, <2>1, LooseHid
  <2> QED BY <1>1, <2>1, <2>2
<1>5. ASSUME disconnect_complete(h) PROVE LooseInv'
  <2>1. PICK g : /\ \/ g = drop_channels(prof, h)
                    \/ g = remove_profile(prof, h, "sco")
                    \/ g = remove_profile(prof, h, "hid")
                 /\ prof' = [g EXCEPT !.conn[h] = NoConn]
    <3>1. prof.conn[h].type \in {"acl", "sco", "le"} BY <1>0, <1>5, LooseTypes DEF disconnect_complete
    <3> QED BY <1>5, <3>1 DEF disconnect_complete
  <2>2. Loose(drop_channels(prof, h)) BY <1>0, LooseDrop
  <2>3. Loose(remove_profile(prof, h, "sco")) /\ Loose(remove_profile(prof, h, "hid")) BY <1>0, LooseRemoveOne
  <2>4. Loose(g) BY <2>1, <2>2, <2>3
  <2>5. Loose(prof') BY <2>1, <2>4, LooseConn
  <2>6. Parser /\ Overtakes /\ late' = late /\ chans' = {c \in chans : c.handle # h} BY <1>5 DEF disconnect_complete
  <2>7. SignalTypes' BY <1>0, <2>6 DEF SignalTypes, ChanTyped
  <2>8. ThreadTypes' /\ overtaken' \in BOOLEAN BY <1>0, <2>6, ParserTypes, OvertakesType
  <2> QED BY <2>5, <2>7, <2>8 DEF LooseInv
<1> QED BY <1>2, <1>3, <1>4, <1>5 DEF HciEvent

\* The signals.
LEMMA SignalLoose ==
  ASSUME LooseInv, Signal
  PROVE  LooseInv'
<1>0. Loose(prof) /\ ThreadTypes /\ SignalTypes /\ overtaken \in BOOLEAN BY DEF LooseInv
<1>f. prof.list \in Seq(Entry) /\ Len(prof.list) \in Nat BY <1>0, LooseTypes
<1>1. ASSUME NEW sig \in Sig, Sends(sig), \A c \in chans' : ChanTyped(c) PROVE LooseInv'
  <2>1. UNCHANGED <<prof, handler, loaded, overtaken>> /\ late' = Append(late, sig) BY <1>1 DEF Sends
  <2>2. late' \in Seq(Sig) BY <1>0, <2>1 DEF SignalTypes
  <2>3. SignalTypes' BY <1>1, <2>2 DEF SignalTypes, ChanTyped
  <2>4. ThreadTypes' BY <1>0, <2>1 DEF ThreadTypes
  <2>5. Loose(prof') BY <1>0, <2>1
  <2> QED BY <1>0, <2>1, <2>3, <2>4, <2>5 DEF LooseInv
<1>2. ASSUME NEW g, Receives(g), Loose(g), \A c \in chans' : ChanTyped(c) PROVE LooseInv'
  <2>1. Overtakes /\ Parser /\ prof' = g /\ late' = late BY <1>2 DEF Receives
  <2>2. SignalTypes' BY <1>0, <1>2, <2>1 DEF SignalTypes, ChanTyped
  <2>3. ThreadTypes' /\ overtaken' \in BOOLEAN BY <1>0, <2>1, ParserTypes, OvertakesType
  <2> QED BY <1>2, <2>1, <2>2, <2>3 DEF LooseInv
<1>3. ASSUME NEW h \in Handles, NEW p \in Psms, NEW cid \in HostCids, host_req(h, p, cid) PROVE LooseInv'
  <2> DEFINE sig == [kind |-> "req", handle |-> h, profile |-> p, scid |-> cid]
             n == Channel(h, p, cid, 0, "asked")
  <2>1. Sends(sig) /\ chans' = chans \cup {n} BY <1>3 DEF host_req
  <2>2. sig \in Sig BY DEF Sig, Req
  <2>3. ChanTyped(n) BY DEF Channel, ChanTyped, Chan
  <2> HIDE DEF sig, n
  <2>4. \A c \in chans' : ChanTyped(c) BY <1>0, <2>1, <2>3 DEF SignalTypes
  <2> QED BY <1>1, <2>1, <2>2, <2>4
<1>4. ASSUME NEW h \in Handles, NEW p \in Psms, NEW cid \in RemoteCids, remote_req(h, p, cid) PROVE LooseInv'
  <2> DEFINE g == con_req(prof, h, p, 0, cid)
             n == Channel(h, p, 0, cid, "answering")
  <2>1. Receives(g) /\ chans' = chans \cup {n} BY <1>4 DEF remote_req
  <2>2. Loose(g)
    <3>1. 0 \in HostCids \cup {0} /\ cid \in RemoteCids \cup {0} OBVIOUS
    <3> QED BY <1>0, <3>1, LooseReq
  <2>3. ChanTyped(n) BY DEF Channel, ChanTyped, Chan
  <2> HIDE DEF g, n
  <2>4. \A c \in chans' : ChanTyped(c) BY <1>0, <2>1, <2>3 DEF SignalTypes
  <2> QED BY <1>2, <2>1, <2>2, <2>4
<1>5. ASSUME NEW c \in chans, NEW ok \in BOOLEAN, NEW cid \in RemoteCids, remote_rsp(c, cid, ok) PROVE LooseInv'
  <2> DEFINE j == find_scid(prof, c.handle, c.scid)
             g == con_rsp(prof, c.handle, j, c.scid, cid, ok)
             n == [c EXCEPT !.dcid = cid, !.st = "open"]
  <2>1. /\ Receives(g) /\ c.st = "asked"
        /\ chans' = (chans \ {c}) \cup (IF ok THEN {n} ELSE {})
    BY <1>5 DEF remote_rsp, rsp_in
  <2>2. ChanTyped(c) BY <1>0 DEF SignalTypes
  <2>3. c.handle \in Handles /\ c.scid \in HostCids /\ ChanTyped(n) BY <2>1, <2>2 DEF ChanTyped, Chan
  <2>4. j \in 0..Len(prof.list)
    <3>1. j = 0 \/ j \in 1..Len(prof.list) BY <1>f, FindsOne
    <3> QED BY <1>f, <3>1
  <2> HIDE DEF j, n
  <2>5. Loose(g)
    <3>1. c.scid \in HostCids \cup {0} /\ cid \in RemoteCids \cup {0} BY <2>3
    <3> QED BY <1>0, <2>3, <2>4, <3>1, LooseRsp
  <2> HIDE DEF g
  <2>6. \A x \in chans' : ChanTyped(x) BY <1>0, <2>1, <2>3 DEF SignalTypes
  <2> QED BY <1>2, <2>1, <2>5, <2>6
<1>6. ASSUME NEW c \in chans, NEW ok \in BOOLEAN, NEW cid \in HostCids, host_rsp(c, cid, ok) PROVE LooseInv'
  <2> DEFINE sig == [kind |-> "rsp", handle |-> c.handle, scid |-> cid, dcid |-> c.dcid, ok |-> ok]
             n == [c EXCEPT !.scid = cid, !.st = "open"]
  <2>1. /\ Sends(sig) /\ c.st = "answering"
        /\ chans' = (chans \ {c}) \cup (IF ok THEN {n} ELSE {})
    BY <1>6 DEF host_rsp
  <2>2. ChanTyped(c) BY <1>0 DEF SignalTypes
  <2>3. c.handle \in Handles /\ c.dcid \in RemoteCids /\ ChanTyped(n) BY <2>1, <2>2 DEF ChanTyped, Chan
  <2>4. sig \in Sig
    <3>1. sig \in Rsp BY <2>3 DEF Rsp
    <3> QED BY <3>1 DEF Sig
  <2> HIDE DEF sig, n
  <2>5. \A x \in chans' : ChanTyped(x) BY <1>0, <2>1, <2>3 DEF SignalTypes
  <2> QED BY <1>1, <2>1, <2>4, <2>5
<1>7. ASSUME NEW c \in chans, host_discon(c) PROVE LooseInv'
  <2> DEFINE sig == [kind |-> "discon", handle |-> c.handle, scid |-> c.scid, dcid |-> c.dcid]
  <2>1. Sends(sig) /\ c.st = "open" /\ chans' = chans \ {c} BY <1>7 DEF host_discon
  <2>2. ChanTyped(c) BY <1>0 DEF SignalTypes
  <2>3. sig \in Sig BY <2>1, <2>2 DEF ChanTyped, Chan, Sig, Discon
  <2> HIDE DEF sig
  <2>4. \A x \in chans' : ChanTyped(x) BY <1>0, <2>1 DEF SignalTypes
  <2> QED BY <1>1, <2>1, <2>3, <2>4
<1>8. ASSUME NEW c \in chans, remote_discon(c) PROVE LooseInv'
  <2> DEFINE g == discon_req(prof, c.handle, c.scid, c.dcid)
  <2>1. Receives(g) /\ chans' = chans \ {c} BY <1>8 DEF remote_discon
  <2>2. c.handle \in Handles BY <1>0 DEF SignalTypes, ChanTyped, Chan
  <2>3. Loose(g) BY <1>0, <2>2, LooseDiscon
  <2> HIDE DEF g
  <2>4. \A x \in chans' : ChanTyped(x) BY <1>0, <2>1 DEF SignalTypes
  <2> QED BY <1>2, <2>1, <2>3, <2>4
<1>9. ASSUME parse_sent PROVE LooseInv'
  <2>1. /\ late # << >> /\ late' = Tail(late) /\ UNCHANGED <<chans, overtaken>> /\ Parser
        /\ prof' = Effect(prof, Head(late))
    BY <1>9 DEF parse_sent, Effect
  <2>2. Head(late) \in Sig /\ late' \in Seq(Sig) BY <1>0, <2>1 DEF SignalTypes
  <2>3. Loose(prof') BY <1>0, <2>1, <2>2, LooseEffect
  <2>4. ThreadTypes' BY <1>0, <2>1, ParserTypes
  <2>5. SignalTypes' BY <1>0, <2>1, <2>2 DEF SignalTypes, ChanTyped
  <2> QED BY <1>0, <2>1, <2>3, <2>4, <2>5 DEF LooseInv
<1> QED BY <1>3, <1>4, <1>5, <1>6, <1>7, <1>8, <1>9 DEF Signal

\* The data packets.
LEMMA PacketLoose ==
  ASSUME LooseInv, NEW c \in chans, NEW incoming \in BOOLEAN, packets_count(c, incoming)
  PROVE  LooseInv'
<1> DEFINE h == c.handle
           i == IF incoming THEN find_scid(prof, h, c.scid) ELSE find_dcid(prof, h, c.dcid)
           p == prof.list[i].profile
           first == p = "a2dp" /\ "a2dp" \notin prof.status
           g1 == IF first THEN set_busy(prof, "a2dp") ELSE prof
           b == add_profile(g1, h, "sink")
           g2 == IF first /\ incoming THEN set_busy(b, "sink") ELSE g1
           limit == IF p = "pan" THEN PanLimit ELSE 1
<1>0. Loose(prof) /\ ThreadTypes /\ SignalTypes /\ overtaken \in BOOLEAN BY DEF LooseInv
<1>1. /\ p \in Timers /\ Parser /\ UNCHANGED <<chans, late, overtaken>>
      /\ prof' = [g2 EXCEPT !.count[p] = IF @ < limit THEN @ + 1 ELSE @]
  BY DEF packets_count
<1>2. h \in Handles BY <1>0 DEF SignalTypes, ChanTyped, Chan
<1>3. limit \in Nat /\ "a2dp" \in Profiles /\ "sink" \in Profiles /\ "sink" \in Counted
  BY BoundsAssumption DEF Profiles, Counted
<1> HIDE DEF limit, first, p, h
<1>4. Loose(g1) BY <1>0, <1>3, LooseBusy
<1> HIDE DEF g1
<1>5. Loose(b) BY <1>2, <1>3, <1>4, LooseAdd
<1> HIDE DEF b
<1>6. Loose(g2) BY <1>3, <1>4, <1>5, LooseBusy
<1> HIDE DEF g2
<1>7. Loose(prof') BY <1>1, <1>3, <1>6, LooseBusy
<1>8. ThreadTypes' BY <1>0, <1>1, ParserTypes
<1>9. SignalTypes' BY <1>0, <1>1 DEF SignalTypes, ChanTyped
<1> QED BY <1>0, <1>1, <1>7, <1>8, <1>9 DEF LooseInv

\* The threads of the timers: what they load and store.
LEMMA TimerTypes ==
  ASSUME ThreadTypes, prof.status \in SUBSET Profiles, prof.count \in [Timers -> Nat],
         NEW t \in Timers, timer_expires(t) \/ Handler(t)
  PROVE  /\ ThreadTypes' /\ UNCHANGED <<chans, late, overtaken>>
         /\ \/ prof' = prof
            \/ \E st \in SUBSET Profiles : prof' = StatusSet(prof, st)
            \/ \E n \in [Timers -> Nat] : prof' = CountSet(prof, n)
<1>2. /\ handler \in [Timers -> {"idle", "due", "store", "sink", "store_sink", "reset"}]
      /\ loaded \in [Timers -> SUBSET Profiles]
  BY DEF ThreadTypes
<1>t. Timers \subseteq Profiles /\ "a2dp" \in Timers BY DEF Timers, Profiles
<1>3. ASSUME NEW x \in Timers, NEW w \in {"idle", "due", "store", "sink", "store_sink", "reset"}, Go(x, w),
             \/ loaded' = loaded \/ loaded' = [loaded EXCEPT ![x] = prof.status]
             \/ loaded' = [loaded EXCEPT ![x] = {}]
      PROVE  ThreadTypes'
  BY <1>2, <1>3 DEF Go, ThreadTypes
<1>4. CASE timer_expires(t) BY <1>3, <1>4 DEF timer_expires, Timer
<1>5. CASE timer_test(t)
  <2>1. ThreadTypes'
    <3>1. CASE Go(t, "store") /\ loaded' = [loaded EXCEPT ![t] = prof.status] BY <1>3, <3>1
    <3>2. CASE Go(t, "reset") /\ loaded' = loaded BY <1>3, <3>2
    <3> QED BY <1>5, <3>1, <3>2 DEF timer_test
  <2> QED BY <1>5, <2>1 DEF timer_test, Timer
<1>6. CASE timer_store(t)
  <2> DEFINE st == IF t \in loaded[t] THEN loaded[t] \ {t} ELSE loaded[t] \cup {t}
  <2>1. /\ Go(t, AfterStore(t)) /\ loaded' = [loaded EXCEPT ![t] = {}]
        /\ prof' = StatusSet(prof, st) /\ UNCHANGED <<chans, late, overtaken>>
    BY <1>6 DEF timer_store, Timer, StatusSet
  <2>2. st \in SUBSET Profiles BY <1>2, <1>t
  <2> HIDE DEF st
  <2>3. AfterStore(t) \in {"idle", "due", "store", "sink", "store_sink", "reset"} BY DEF AfterStore
  <2>4. ThreadTypes' BY <1>3, <2>1, <2>3
  <2> QED BY <2>1, <2>2, <2>4
<1>7. CASE timer_reset(t)
  <2> DEFINE n == [prof.count EXCEPT ![t] = 0]
  <2>1. /\ Go(t, "idle") /\ loaded' = loaded
        /\ prof' = CountSet(prof, n) /\ UNCHANGED <<chans, late, overtaken>>
    BY <1>7 DEF timer_reset, Timer, CountSet
  <2>2. n \in [Timers -> Nat] OBVIOUS
  <2> HIDE DEF n
  <2>3. ThreadTypes' BY <1>3, <2>1
  <2> QED BY <2>1, <2>2, <2>3
<1>8. CASE timer_sink
  <2>1. ThreadTypes'
    <3>1. CASE Go("a2dp", "store_sink") /\ loaded' = [loaded EXCEPT !["a2dp"] = prof.status] BY <1>3, <1>t, <3>1
    <3>2. CASE Go("a2dp", "reset") /\ loaded' = loaded BY <1>3, <1>t, <3>2
    <3> QED BY <1>8, <3>1, <3>2 DEF timer_sink
  <2> QED BY <1>8, <2>1 DEF timer_sink, Timer
<1>9. CASE timer_store_sink
  <2> DEFINE st == loaded["a2dp"] \ {"sink"}
  <2>1. /\ Go("a2dp", "reset") /\ loaded' = [loaded EXCEPT !["a2dp"] = {}]
        /\ prof' = StatusSet(prof, st) /\ UNCHANGED <<chans, late, overtaken>>
    BY <1>9 DEF timer_store_sink, Timer, StatusSet
  <2>2. st \in SUBSET Profiles BY <1>2, <1>t
  <2> HIDE DEF st
  <2>3. ThreadTypes' BY <1>3, <1>t, <2>1
  <2> QED BY <2>1, <2>2, <2>3
<1> QED BY <1>4, <1>5, <1>6, <1>7, <1>8, <1>9 DEF Handler

\* Every step keeps the types and the bitmaps.
LEMMA NextLoose ==
  ASSUME LooseInv, [Next]_vars
  PROVE  LooseInv'
<1>0. Loose(prof) /\ ThreadTypes /\ SignalTypes /\ overtaken \in BOOLEAN BY DEF LooseInv
<1>1. CASE \E h \in Handles : HciEvent(h) BY <1>1, HciLoose
<1>2. CASE Signal BY <1>2, SignalLoose
<1>3. CASE \E c \in chans, incoming \in BOOLEAN : packets_count(c, incoming) BY <1>3, PacketLoose
<1>4. CASE \E t \in Timers : timer_expires(t) \/ Handler(t)
  <2>1. PICK t \in Timers : timer_expires(t) \/ Handler(t) BY <1>4
  <2>2. prof.status \in SUBSET Profiles /\ prof.count \in [Timers -> Nat] BY <1>0, LooseTypes
  <2>3. /\ ThreadTypes' /\ UNCHANGED <<chans, late, overtaken>>
        /\ \/ prof' = prof
           \/ \E st \in SUBSET Profiles : prof' = StatusSet(prof, st)
           \/ \E n \in [Timers -> Nat] : prof' = CountSet(prof, n)
    BY <1>0, <2>1, <2>2, TimerTypes
  <2>4. Loose(prof') BY <1>0, <2>3, LooseOther
  <2>5. SignalTypes' BY <1>0, <2>3 DEF SignalTypes, ChanTyped
  <2> QED BY <1>0, <2>3, <2>4, <2>5 DEF LooseInv
<1>5. CASE UNCHANGED vars
  <2>1. UNCHANGED <<prof, handler, loaded, chans, late, overtaken>> BY <1>5 DEF vars
  <2>2. ThreadTypes' /\ SignalTypes' BY <1>0, <2>1 DEF ThreadTypes, SignalTypes, ChanTyped
  <2> QED BY <1>0, <2>1, <2>2 DEF LooseInv
<1> QED BY <1>1, <1>2, <1>3, <1>4, <1>5 DEF Next

\* The invariant holds in every state.
LEMMA LooseInvariant == Spec => []LooseInv
<1>1. Init => LooseInv BY InitLoose
<1>2. LooseInv /\ [Next]_vars => LooseInv' BY NextLoose
<1> QED BY <1>1, <1>2, PTL DEF Spec

-----------------------------------------------------------------------------

\* rtk_prof and the threads keep their types, in whatever order the signals are parsed:
\* the list has entries of known connections, numbers and profiles only, a timer is set up
\* for A2DP and PAN only, a packet count is never below 0.
THEOREM TypeCorrect == Spec => []TypeOK
<1>1. LooseInv => TypeOK
  <2> SUFFICES ASSUME LooseInv PROVE TypeOK OBVIOUS
  <2>1. Loose(prof) /\ ThreadTypes /\ overtaken \in BOOLEAN BY DEF LooseInv
  <2>2. /\ prof.conn \in [Handles -> ConnInt] /\ prof.ref \in [Profiles -> Int]
        /\ prof.map \in SUBSET Profiles /\ prof.status \in SUBSET Profiles
        /\ prof.timers \in SUBSET Timers /\ prof.count \in [Timers -> Nat]
        /\ \A i \in 1..Len(prof.list) : prof.list[i] \in Entry
    BY <2>1, LooseTypes
  <2> QED BY <2>1, <2>2 DEF TypeOK, ConnInt, ThreadTypes
<1> QED BY <1>1, LooseInvariant, PTL

\* The bitmaps that are reported to the firmware agree with the counters, for all connections
\* together and for each one, and the periodic timer of A2DP and of PAN runs exactly while the
\* profile is connected: also when signals are parsed so late that a count falls below 0.
THEOREM MapsCorrect == Spec => []MapsMatchCounts
<1>1. LooseInv => MapsMatchCounts BY DEF LooseInv, Loose, MapsMatchCounts, BitsOf
<1> QED BY <1>1, LooseInvariant, PTL
=============================================================================
