------------------------- MODULE SnapshotGate_proofs -------------------------
(***************************************************************************)
(* Proofs about what is reported of a snapshot: for every history of the   *)
(* allocators and every version of torch, probed or dumped, whatever field  *)
(* it leaves out and wherever.                                             *)
(***************************************************************************)
EXTENDS SnapshotGate, TraceAnalysis_proofs, FunctionTheorems

-----------------------------------------------------------------------------
(* The elements of a set of numbers, each once and in order.               *)
LEMMA AscendingLists ==
    ASSUME NEW S \in SUBSET Int, IsFiniteSet(S)
    PROVE  /\ Ascending(S) \in [1 .. Cardinality(S) -> S]
           /\ \A x \in S : \E k \in 1 .. Cardinality(S) : Ascending(S)[k] = x
           /\ \A j, k \in 1 .. Cardinality(S) : j < k => Ascending(S)[j] < Ascending(S)[k]
           /\ Cardinality(S) \in Nat
<1>. DEFINE R == {p \in S \X S : p[1] < p[2]}
<1>1. \A x, y \in S : <<x, y>> \in R <=> x < y
  OBVIOUS
<1>. HIDE DEF R
<1>2. TotallyOrders(R, S)
  <2>1. \A x, y, z \in Int : x < y /\ y < z => x < z
    OBVIOUS
  <2>2. \A x, y \in Int : ~(x < x) /\ (x # y => x < y \/ y < x)
    OBVIOUS
  <2>. QED  BY <1>1, <2>1, <2>2 DEF TotallyOrders
<1>3. Lists(SortedBy(S, R), Cardinality(S), S, R)
  BY <1>2, SortedLists
<1>4. Ascending(S) = SortedBy(S, R)
  BY DEF Ascending, R
<1>5. Cardinality(S) \in Nat
  BY FS_CardinalityType
<1>. QED  BY <1>1, <1>3, <1>4, <1>5 DEF Lists

-----------------------------------------------------------------------------
(* The snapshot of a history.                                              *)

Told == Histories \cup {Probe}

(* The i-th event of a history as torch writes it.                         *)
Written(h, loss, i) ==
    [id   |-> i, dev |-> h[i].dev,
     act  |-> Left(loss, "action", i, h[i].act),
     addr |-> Left(loss, "addr", i, h[i].addr),
     size |-> Left(loss, "size", i, h[i].size),
     time |-> Left(loss, "time", i, h[i].time)]

OfDevice(h, loss, d) == IF "traces" \in loss.fields THEN {} ELSE {i \in DOMAIN h : h[i].dev = d}

(* Its fields.                                                             *)
LEMMA WrittenFields ==
    ASSUME NEW h, NEW loss, NEW i
    PROVE  /\ Written(h, loss, i).id = i
           /\ Written(h, loss, i).act = Left(loss, "action", i, h[i].act)
           /\ Written(h, loss, i).addr = Left(loss, "addr", i, h[i].addr)
           /\ Written(h, loss, i).size = Left(loss, "size", i, h[i].size)
           /\ Written(h, loss, i).time = Left(loss, "time", i, h[i].time)
BY DEF Written

(* A history, event by event.                                              *)
LEMMA HistoryTyped ==
    ASSUME NEW h \in Told
    PROVE  /\ Len(h) \in Nat /\ DOMAIN h = 1 .. Len(h)
           /\ \A i \in DOMAIN h : /\ h[i].dev \in 1 .. Devices /\ h[i].act \in STRING
                                  /\ h[i].addr \in Nat /\ h[i].size \in Nat /\ h[i].time \in Nat
<1>1. h \in Seq(Happenings)
  BY HistoriesAssumption DEF Told
<1>2. Len(h) \in Nat /\ DOMAIN h = 1 .. Len(h) /\ \A i \in DOMAIN h : h[i] \in Happenings
  BY ONLY <1>1
<1>. QED  BY ONLY <1>2 DEF Happenings

(* A trace has the events of its device, each once, in the order in which  *)
(* they happened.                                                          *)
LEMMA TracesWritten ==
    ASSUME NEW h \in Told, NEW loss \in Losses, NEW d \in 1 .. Devices
    PROVE  LET ids == Ascending(OfDevice(h, loss, d))
               n   == Cardinality(OfDevice(h, loss, d))
           IN  /\ SnapshotOf(h, loss).traces[d] = [k \in 1 .. n |-> Written(h, loss, ids[k])]
               /\ n \in Nat /\ ids \in [1 .. n -> OfDevice(h, loss, d)]
               /\ \A i \in OfDevice(h, loss, d) : \E k \in 1 .. n : ids[k] = i
               /\ \A j, k \in 1 .. n : j < k => ids[j] < ids[k]
<1>. DEFINE S == OfDevice(h, loss, d)
            ids == Ascending(S)
            n == Cardinality(S)
<1>1. IsFiniteSet(S) /\ S \in SUBSET Int
  <2>1. IsFiniteSet(DOMAIN h) /\ DOMAIN h \subseteq Int
    BY HistoryTyped, FS_Interval
  <2>2. S \in SUBSET DOMAIN h
    BY DEF OfDevice
  <2>. QED  BY <2>1, <2>2, FS_Subset
<1>2. /\ ids \in [1 .. n -> S] /\ n \in Nat
      /\ \A x \in S : \E k \in 1 .. n : ids[k] = x
      /\ \A j, k \in 1 .. n : j < k => ids[j] < ids[k]
  BY <1>1, AscendingLists
<1>3. SnapshotOf(h, loss).traces[d] = [k \in DOMAIN ids |-> Written(h, loss, ids[k])]
  BY DEF SnapshotOf, Written, OfDevice
<1>4. DOMAIN ids = 1 .. n
  BY <1>2
<1>. QED  BY <1>2, <1>3, <1>4

(* Every event that is kept is in the file once: the places of a snapshot   *)
(* and the events of the history correspond, and on one device in order.   *)
LEMMA PlacesWritten ==
    ASSUME NEW h \in Told, NEW loss \in Losses
    PROVE  LET s == SnapshotOf(h, loss)
           IN  /\ \A p \in Places(s) : /\ p[1] \in 1 .. Devices /\ p[2] \in Nat /\ p = <<p[1], p[2]>>
                                       /\ At(s, p).id \in DOMAIN h /\ h[At(s, p).id].dev = p[1]
                                       /\ At(s, p) = Written(h, loss, At(s, p).id)
                                       /\ "traces" \notin loss.fields
               /\ "traces" \notin loss.fields => \A i \in DOMAIN h : \E p \in Places(s) : At(s, p).id = i
               /\ \A p, q \in Places(s) : p[1] = q[1] /\ p[2] < q[2] => At(s, p).id < At(s, q).id
<1>. DEFINE s == SnapshotOf(h, loss)
            ids(d) == Ascending(OfDevice(h, loss, d))
            n(d) == Cardinality(OfDevice(h, loss, d))
<1>1. DOMAIN s.traces = 1 .. Devices
  BY DEF SnapshotOf
<1>2. \A d \in 1 .. Devices :
         /\ s.traces[d] = [k \in 1 .. n(d) |-> Written(h, loss, ids(d)[k])]
         /\ n(d) \in Nat /\ ids(d) \in [1 .. n(d) -> OfDevice(h, loss, d)]
         /\ \A i \in OfDevice(h, loss, d) : \E k \in 1 .. n(d) : ids(d)[k] = i
         /\ \A j, k \in 1 .. n(d) : j < k => ids(d)[j] < ids(d)[k]
  BY TracesWritten
<1>. HIDE DEF s, ids, n
<1>3. \A d \in 1 .. Devices : DOMAIN s.traces[d] = 1 .. n(d)
  BY <1>2
<1>4. \A p : p \in Places(s) <=> \E d \in 1 .. Devices : \E k \in 1 .. n(d) : p = <<d, k>>
  <2>1. Places(s) = UNION {{d} \X (1 .. n(d)) : d \in 1 .. Devices}
    BY <1>1, <1>3 DEF Places
  <2>. QED  BY ONLY <2>1
<1>5. \A d \in 1 .. Devices : \A k \in 1 .. n(d) :
         At(s, <<d, k>>) = Written(h, loss, ids(d)[k]) /\ ids(d)[k] \in OfDevice(h, loss, d)
  <2>1. SUFFICES ASSUME NEW d \in 1 .. Devices, NEW k \in 1 .. n(d)
                 PROVE  /\ At(s, <<d, k>>) = Written(h, loss, ids(d)[k])
                        /\ ids(d)[k] \in OfDevice(h, loss, d)
    OBVIOUS
  <2>2. At(s, <<d, k>>) = s.traces[d][k]
    BY DEF At
  <2>3. /\ s.traces[d] = [j \in 1 .. n(d) |-> Written(h, loss, ids(d)[j])]
        /\ ids(d) \in [1 .. n(d) -> OfDevice(h, loss, d)]
    BY <1>2
  <2>. QED  BY <2>2, <2>3
<1>6. \A d \in 1 .. Devices : \A k \in 1 .. n(d) : At(s, <<d, k>>).id = ids(d)[k]
  <2>1. \A i : Written(h, loss, i).id = i
    BY DEF Written
  <2>. QED  BY <1>5, <2>1
<1>7. \A d : \A i \in OfDevice(h, loss, d) : i \in DOMAIN h /\ h[i].dev = d /\ "traces" \notin loss.fields
  BY DEF OfDevice
<1>8. ASSUME NEW p \in Places(s)
      PROVE  /\ p[1] \in 1 .. Devices /\ p[2] \in Nat /\ p = <<p[1], p[2]>>
             /\ At(s, p).id \in DOMAIN h /\ h[At(s, p).id].dev = p[1]
             /\ At(s, p) = Written(h, loss, At(s, p).id)
             /\ "traces" \notin loss.fields
  <2>0. PICK d \in 1 .. Devices : \E k \in 1 .. n(d) : p = <<d, k>>
    BY <1>4
  <2>1. PICK k \in 1 .. n(d) : p = <<d, k>>
    BY <2>0
  <2>2. p[1] = d /\ p[2] = k
    BY <2>1
  <2>3. k \in Nat
    BY <1>2
  <2>4. At(s, p) = Written(h, loss, ids(d)[k]) /\ ids(d)[k] \in OfDevice(h, loss, d)
    BY <1>5, <2>1
  <2>5. At(s, p).id = ids(d)[k]
    BY <1>6, <2>1
  <2>. QED  BY <1>7, <2>1, <2>2, <2>3, <2>4, <2>5
<1>9. ASSUME NEW i \in DOMAIN h, "traces" \notin loss.fields
      PROVE  \E p \in Places(s) : At(s, p).id = i
  <2>1. i \in OfDevice(h, loss, h[i].dev) /\ h[i].dev \in 1 .. Devices
    BY <1>9, HistoryTyped DEF OfDevice
  <2>2. PICK k \in 1 .. n(h[i].dev) : ids(h[i].dev)[k] = i
    BY <1>2, <2>1
  <2>3. <<h[i].dev, k>> \in Places(s)
    BY <1>4, <2>1
  <2>. QED  BY <1>6, <2>1, <2>2, <2>3
<1>10. ASSUME NEW p \in Places(s), NEW q \in Places(s), p[1] = q[1], p[2] < q[2]
       PROVE  At(s, p).id < At(s, q).id
  <2>p. PICK d \in 1 .. Devices : \E j \in 1 .. n(d) : p = <<d, j>>
    BY <1>4
  <2>1. PICK j \in 1 .. n(d) : p = <<d, j>>
    BY <2>p
  <2>q. PICK e \in 1 .. Devices : \E k \in 1 .. n(e) : q = <<e, k>>
    BY <1>4
  <2>2. PICK k \in 1 .. n(e) : q = <<e, k>>
    BY <2>q
  <2>3. d = e /\ j < k
    BY <1>10, <2>1, <2>2
  <2>. QED  BY <1>2, <1>6, <2>1, <2>2, <2>3
<1>. QED  BY <1>8, <1>9, <1>10 DEF s

(* An event is at one place only.                                          *)
LEMMA PlaceOfEvent ==
    ASSUME NEW h \in Told, NEW loss \in Losses,
           NEW p \in Places(SnapshotOf(h, loss)), NEW q \in Places(SnapshotOf(h, loss)),
           At(SnapshotOf(h, loss), p).id = At(SnapshotOf(h, loss), q).id
    PROVE  p = q
<1>. DEFINE s == SnapshotOf(h, loss)
            P == Places(s)
<1>1. /\ \A r \in P : /\ r[2] \in Nat /\ r = <<r[1], r[2]>>
                      /\ At(s, r).id \in DOMAIN h /\ h[At(s, r).id].dev = r[1]
      /\ \A r, t \in P : r[1] = t[1] /\ r[2] < t[2] => At(s, r).id < At(s, t).id
  BY PlacesWritten
<1>2. Len(h) \in Nat /\ DOMAIN h = 1 .. Len(h)
  BY HistoryTyped
<1>3. p \in P /\ q \in P /\ At(s, p).id = At(s, q).id
  OBVIOUS
<1>. HIDE DEF s, P
<1>4. p[1] = q[1]
  BY <1>1, <1>3
<1>5. At(s, p).id \in Int /\ p[2] \in Nat /\ q[2] \in Nat
  BY <1>1, <1>2, <1>3
<1>6. ~ p[2] < q[2] /\ ~ q[2] < p[2]
  <2>1. \A i \in Int : ~ i < i
    OBVIOUS
  <2>. QED  BY <1>1, <1>3, <1>4, <1>5, <2>1
<1>7. p[2] = q[2]
  BY <1>5, <1>6
<1>. QED  BY <1>1, <1>3, <1>4, <1>7

(* There are as many places as events, if there are any.                   *)
LEMMA PlacesFinite ==
    ASSUME NEW h \in Told, NEW loss \in Losses
    PROVE  LET s == SnapshotOf(h, loss)
           IN  /\ IsFiniteSet(Places(s)) /\ Cardinality(Places(s)) \in Nat
               /\ "traces" \notin loss.fields => Cardinality(Places(s)) = Len(h)
               /\ "traces" \in loss.fields => Places(s) = {}
<1>. DEFINE s == SnapshotOf(h, loss)
            P == Places(s)
            id == [p \in P |-> At(s, p).id]
<1>1. /\ \A p \in P : /\ p[1] \in 1 .. Devices /\ p[2] \in Nat /\ p = <<p[1], p[2]>>
                      /\ At(s, p).id \in DOMAIN h /\ h[At(s, p).id].dev = p[1]
                      /\ "traces" \notin loss.fields
      /\ "traces" \notin loss.fields => \A i \in DOMAIN h : \E p \in P : At(s, p).id = i
      /\ \A p, q \in P : p[1] = q[1] /\ p[2] < q[2] => At(s, p).id < At(s, q).id
  BY PlacesWritten
<1>2. Len(h) \in Nat /\ DOMAIN h = 1 .. Len(h)
  BY HistoryTyped
<1>. HIDE DEF s, P
<1>3. CASE "traces" \in loss.fields
  <2>1. P = {}
    BY <1>1, <1>3
  <2>2. IsFiniteSet({}) /\ Cardinality({}) = 0
    BY FS_EmptySet
  <2>. QED  BY <1>3, <2>1, <2>2 DEF P, s
<1>4. CASE "traces" \notin loss.fields
  <2>1. id \in [P -> DOMAIN h]
    BY <1>1
  <2>2. \A p, q \in P : At(s, p).id = At(s, q).id => p = q
    BY PlaceOfEvent DEF s, P
  <2>3. \A i \in DOMAIN h : \E p \in P : id[p] = i
    BY <1>1, <1>4
  <2>4. id \in Bijection(P, DOMAIN h)
    BY <2>1, <2>2, <2>3 DEF Bijection, Injection, Surjection, IsInjective
  <2>5. IsFiniteSet(DOMAIN h) /\ Cardinality(DOMAIN h) = Len(h)
    <3>1. IsFiniteSet(1 .. Len(h)) /\ Cardinality(1 .. Len(h)) = Len(h)
      BY <1>2, UpTo
    <3>. QED  BY <1>2, <3>1
  <2>6. ExistsBijection(DOMAIN h, P)
    BY <2>4, Fun_ExistsBijSymmetric DEF ExistsBijection
  <2>7. IsFiniteSet(P) /\ Cardinality(P) = Len(h)
    BY <2>5, <2>6, FS_Bijection
  <2>. QED  BY <1>2, <1>4, <2>7 DEF P, s
<1>. QED  BY <1>3, <1>4

(* The orders of the file and of time are total orders of the events.      *)
LEMMA FileOrders ==
    ASSUME NEW h \in Told, NEW loss \in Losses
    PROVE  TotallyOrders(InFile(SnapshotOf(h, loss)), Places(SnapshotOf(h, loss)))
<1>. DEFINE s == SnapshotOf(h, loss)
            P == Places(s)
<1>1. \A p \in P : p[1] \in Int /\ p[2] \in Int /\ p = <<p[1], p[2]>>
  BY PlacesWritten
<1>. HIDE DEF s, P
<1>2. \A p, q \in P : <<p, q>> \in InFile(s) <=> p[1] < q[1] \/ (p[1] = q[1] /\ p[2] < q[2])
  BY DEF InFile, Earlier, P
<1>3. TotallyOrders(InFile(s), P)
  <2>1. ASSUME NEW p \in P
        PROVE  <<p, p>> \notin InFile(s)
    <3>1. p[1] \in Int /\ p[2] \in Int
      BY <1>1
    <3>2. ~ p[1] < p[1] /\ ~ p[2] < p[2]
      BY <3>1
    <3>. QED  BY <1>2, <3>2
  <2>2. ASSUME NEW p \in P, NEW q \in P, NEW r \in P, <<p, q>> \in InFile(s), <<q, r>> \in InFile(s)
        PROVE  <<p, r>> \in InFile(s)
    <3>1. p[1] \in Int /\ p[2] \in Int /\ q[1] \in Int /\ q[2] \in Int /\ r[1] \in Int /\ r[2] \in Int
      BY <1>1
    <3>2. /\ p[1] < q[1] \/ (p[1] = q[1] /\ p[2] < q[2])
          /\ q[1] < r[1] \/ (q[1] = r[1] /\ q[2] < r[2])
      BY <1>2, <2>2
    <3>3. p[1] < r[1] \/ (p[1] = r[1] /\ p[2] < r[2])
      BY <3>1, <3>2
    <3>. QED  BY <1>2, <3>3
  <2>3. ASSUME NEW p \in P, NEW q \in P, p # q
        PROVE  <<p, q>> \in InFile(s) \/ <<q, p>> \in InFile(s)
    <3>1. p[1] \in Int /\ p[2] \in Int /\ q[1] \in Int /\ q[2] \in Int
      BY <1>1
    <3>2. p[1] # q[1] \/ p[2] # q[2]
      BY <1>1, <2>3
    <3>3. \/ p[1] < q[1] \/ (p[1] = q[1] /\ p[2] < q[2])
          \/ q[1] < p[1] \/ (q[1] = p[1] /\ q[2] < p[2])
      BY <3>1, <3>2
    <3>. QED  BY <1>2, <3>3
  <2>. QED  BY <2>1, <2>2, <2>3 DEF TotallyOrders
<1>. QED  BY <1>3 DEF s, P

(* Where every event has a time it is that of its history.                 *)
LEMMA TimesWritten ==
    ASSUME NEW h \in Told, NEW loss \in Losses, Timed(SnapshotOf(h, loss)),
           NEW p \in Places(SnapshotOf(h, loss))
    PROVE  /\ At(SnapshotOf(h, loss), p).time = h[At(SnapshotOf(h, loss), p).id].time
           /\ At(SnapshotOf(h, loss), p).time \in Int
<1>. DEFINE s == SnapshotOf(h, loss)
            i == At(s, p).id
<1>1. i \in DOMAIN h /\ At(s, p) = Written(h, loss, i)
  BY PlacesWritten
<1>2. At(s, p).time # None
  BY DEF Timed
<1>. HIDE DEF s, i
<1>3. At(s, p).time = Left(loss, "time", i, h[i].time)
  BY <1>1 DEF Written
<1>4. At(s, p).time = h[i].time
  BY <1>2, <1>3 DEF Left
<1>5. h[i].time \in Nat
  BY <1>1, HistoryTyped
<1>. QED  BY <1>4, <1>5 DEF s, i

(* Where every event has a time, times order the events.                   *)
LEMMA TimeOrders ==
    ASSUME NEW h \in Told, NEW loss \in Losses, Timed(SnapshotOf(h, loss))
    PROVE  TotallyOrders(InTime(SnapshotOf(h, loss)), Places(SnapshotOf(h, loss)))
<1>. DEFINE s == SnapshotOf(h, loss)
            P == Places(s)
            t(p) == At(s, p).time
<1>1. \A p \in P : t(p) \in Int
  BY TimesWritten
<1>2. TotallyOrders(InFile(s), P)
  BY FileOrders
<1>. HIDE DEF s, P
<1>3. \A p, q \in P : <<p, q>> \in InFile(s) <=> Earlier(p, q)
  BY DEF InFile, P
<1>4. \A p, q \in P : <<p, q>> \in InTime(s) <=> t(p) < t(q) \/ (t(p) = t(q) /\ <<p, q>> \in InFile(s))
  BY <1>3 DEF InTime, P
<1>. HIDE DEF t
<1>5. TotallyOrders(InTime(s), P)
  <2>1. ASSUME NEW p \in P
        PROVE  <<p, p>> \notin InTime(s)
    <3>1. ~ t(p) < t(p)
      BY <1>1
    <3>. QED  BY <1>2, <1>4, <3>1 DEF TotallyOrders
  <2>2. ASSUME NEW p \in P, NEW q \in P, NEW r \in P, <<p, q>> \in InTime(s), <<q, r>> \in InTime(s)
        PROVE  <<p, r>> \in InTime(s)
    <3>1. t(p) \in Int /\ t(q) \in Int /\ t(r) \in Int
      BY <1>1
    <3>2. /\ t(p) < t(q) \/ (t(p) = t(q) /\ <<p, q>> \in InFile(s))
          /\ t(q) < t(r) \/ (t(q) = t(r) /\ <<q, r>> \in InFile(s))
      BY <1>4, <2>2
    <3>3. t(p) < t(r) \/ (t(p) = t(r) /\ <<p, q>> \in InFile(s) /\ <<q, r>> \in InFile(s))
      BY <3>1, <3>2
    <3>4. <<p, q>> \in InFile(s) /\ <<q, r>> \in InFile(s) => <<p, r>> \in InFile(s)
      BY <1>2 DEF TotallyOrders
    <3>. QED  BY <1>4, <3>3, <3>4
  <2>3. ASSUME NEW p \in P, NEW q \in P, p # q
        PROVE  <<p, q>> \in InTime(s) \/ <<q, p>> \in InTime(s)
    <3>1. t(p) < t(q) \/ t(q) < t(p) \/ t(p) = t(q)
      <4>1. t(p) \in Int /\ t(q) \in Int
        BY <1>1
      <4>. QED  BY <4>1
    <3>2. <<p, q>> \in InFile(s) \/ <<q, p>> \in InFile(s)
      BY <1>2, <2>3 DEF TotallyOrders
    <3>. QED  BY <1>4, <3>1, <3>2
  <2>. QED  BY <2>1, <2>2, <2>3 DEF TotallyOrders
<1>. QED  BY <1>5 DEF s, P

-----------------------------------------------------------------------------
(* The events of a snapshot, in either order.                              *)

(* Each event is once in a list of all of them.                            *)
LEMMA ListWritten ==
    ASSUME NEW h \in Told, NEW loss \in Losses, NEW R,
           TotallyOrders(R, Places(SnapshotOf(h, loss)))
    PROVE  LET s == SnapshotOf(h, loss)
               l == List(s, R)
               n == Cardinality(Places(s))
               order == SortedBy(Places(s), R)
           IN  /\ n \in Nat /\ Lists(order, n, Places(s), R) /\ l = [k \in 1 .. n |-> At(s, order[k])]
               /\ \A k \in 1 .. n : /\ l[k].id \in DOMAIN h /\ l[k] = Written(h, loss, l[k].id)
                                    /\ "traces" \notin loss.fields
               /\ "traces" \notin loss.fields => n = Len(h) /\ \A i \in DOMAIN h : \E k \in 1 .. n : l[k].id = i
               /\ \A j, k \in 1 .. n : l[j].id = l[k].id => j = k
<1>. DEFINE s == SnapshotOf(h, loss)
            P == Places(s)
            n == Cardinality(P)
            order == SortedBy(P, R)
            l == List(s, R)
<1>1. /\ \A p \in P : /\ At(s, p).id \in DOMAIN h /\ At(s, p) = Written(h, loss, At(s, p).id)
                      /\ "traces" \notin loss.fields
      /\ "traces" \notin loss.fields => \A i \in DOMAIN h : \E p \in P : At(s, p).id = i
  BY PlacesWritten
<1>2. /\ IsFiniteSet(P) /\ n \in Nat
      /\ "traces" \notin loss.fields => n = Len(h)
  BY PlacesFinite
<1>3. \A p, q \in P : At(s, p).id = At(s, q).id => p = q
  BY PlaceOfEvent
<1>4. Lists(order, n, P, R)
  BY <1>2, SortedLists
<1>. HIDE DEF s, P, n
<1>5. /\ order \in [1 .. n -> P]
      /\ \A p \in P : \E k \in 1 .. n : order[k] = p
      /\ \A i, j \in 1 .. n : i < j => <<order[i], order[j]>> \in R
  BY <1>4 DEF Lists
<1>6. l = [k \in 1 .. n |-> At(s, order[k])]
  BY <1>5 DEF List, P
<1>. HIDE DEF l, order
<1>7. \A k \in 1 .. n : l[k] = At(s, order[k]) /\ order[k] \in P
  BY <1>5, <1>6
<1>8. \A i, j \in 1 .. n : i # j => order[i] # order[j]
  <2>1. \A i, j \in 1 .. n : i # j => i < j \/ j < i
    BY <1>2
  <2>. QED  BY <1>5, <2>1 DEF TotallyOrders, P, s
<1>9. \A k \in 1 .. n : /\ l[k].id \in DOMAIN h /\ l[k] = Written(h, loss, l[k].id)
                        /\ "traces" \notin loss.fields
  BY <1>1, <1>7
<1>10. "traces" \notin loss.fields => \A i \in DOMAIN h : \E k \in 1 .. n : l[k].id = i
  BY <1>1, <1>5, <1>7
<1>11. \A j, k \in 1 .. n : l[j].id = l[k].id => j = k
  BY <1>3, <1>7, <1>8
<1>. QED  BY <1>2, <1>4, <1>6, <1>9, <1>10, <1>11 DEF s, P, n, l, order

(* What a snapshot has of the events of its history.                       *)
LEMMA FlatWritten ==
    ASSUME NEW h \in Told, NEW loss \in Losses
    PROVE  LET s == SnapshotOf(h, loss)
           IN  /\ ToSet(Flat(s)) = IF "traces" \in loss.fields THEN {}
                                   ELSE {Written(h, loss, i) : i \in DOMAIN h}
               /\ Flat(s) # <<>> <=> ToSet(Flat(s)) # {}
<1>. DEFINE s == SnapshotOf(h, loss)
            l == Flat(s)
            n == Cardinality(Places(s))
            order == SortedBy(Places(s), InFile(s))
<1>1. /\ n \in Nat /\ l = [k \in 1 .. n |-> At(s, order[k])]
      /\ \A k \in 1 .. n : /\ l[k].id \in DOMAIN h /\ l[k] = Written(h, loss, l[k].id)
                           /\ "traces" \notin loss.fields
      /\ "traces" \notin loss.fields => \A i \in DOMAIN h : \E k \in 1 .. n : l[k].id = i
  BY FileOrders, ListWritten DEF Flat
<1>. HIDE DEF s, l, n, order
<1>2. DOMAIN l = 1 .. n
  BY <1>1
<1>3. ToSet(l) = IF "traces" \in loss.fields THEN {} ELSE {Written(h, loss, i) : i \in DOMAIN h}
  <2>1. ToSet(l) = {l[k] : k \in 1 .. n}
    BY <1>2 DEF ToSet
  <2>2. CASE "traces" \in loss.fields
    BY <1>1, <2>1, <2>2
  <2>3. CASE "traces" \notin loss.fields
    <3>1. \A i \in DOMAIN h : \E k \in 1 .. n : l[k] = Written(h, loss, i)
      BY <1>1, <2>3
    <3>2. \A k \in 1 .. n : \E i \in DOMAIN h : l[k] = Written(h, loss, i)
      BY <1>1
    <3>. QED  BY <2>1, <2>3, <3>1, <3>2
  <2>. QED  BY <2>2, <2>3
<1>4. l # <<>> <=> ToSet(l) # {}
  <2>1. ToSet(l) # {} <=> DOMAIN l # {}
    BY DEF ToSet
  <2>2. CASE n = 0
    <3>1. 1 .. n = {}
      BY <2>2
    <3>2. l = <<>>
      BY <1>1, <3>1
    <3>. QED  BY <2>1, <3>2
  <2>3. CASE n # 0
    <3>1. 1 \in 1 .. n
      BY <1>1, <2>3
    <3>2. DOMAIN l # {}
      BY <1>2, <3>1
    <3>3. l # <<>>
      BY <3>2
    <3>. QED  BY <2>1, <3>2, <3>3
  <2>. QED  BY <2>2, <2>3
<1>. QED  BY <1>3, <1>4 DEF s, l

-----------------------------------------------------------------------------
(* The blocks of a snapshot.                                               *)

(* There is a segment.                                                     *)
LEMMA SegmentsTyped ==
    /\ \A i \in DOMAIN Segments : Segments[i] \in [addr : Nat, size : Nat \ {0}, graph : BOOLEAN]
    /\ DOMAIN Segments # {}
<1>. DEFINE S == [addr : Nat, size : Nat \ {0}, graph : BOOLEAN]
<1>1. Segments \in Seq(S) /\ Segments # <<>>
  BY SegmentsAssumption
<1>. HIDE DEF S
<1>2. Len(Segments) \in Nat \ {0}
  BY <1>1, EmptySeq
<1>3. Segments \in [1 .. Len(Segments) -> S]
  BY <1>1, LenProperties
<1>4. 1 \in 1 .. Len(Segments)
  BY <1>2
<1>. QED  BY <1>3, <1>4 DEF S

(* A lifetime in a history is that of one of its allocations.              *)
LEMMA LivesTyped ==
    ASSUME NEW h \in Told, NEW a \in LivesOf(h)
    PROVE  \E i \in DOMAIN h : a.addr = h[i].addr /\ a.size = h[i].size /\ IsAlloc(h[i])
<1>. DEFINE frees(i) == {j \in DOMAIN h : i < j /\ IsFree(h[j]) /\ h[j].addr = h[i].addr}
            until(i) == IF frees(i) = {} THEN None ELSE Min(frees(i))
<1>1. LivesOf(h) = {[addr |-> h[i].addr, size |-> h[i].size, born |-> i, freed |-> until(i)] :
                       i \in {j \in DOMAIN h : IsAlloc(h[j])}}
  BY DEF LivesOf
<1>. HIDE DEF until
<1>. QED  BY <1>1

(* What is held in a segment at the end of a history.                       *)
HeldIn(seg, h) ==
    {a \in LivesOf(h) : a.freed = None /\ seg.addr <= a.addr /\ a.addr < seg.addr + seg.size}

(* m blocks that lie one after the other from the start of their segment;  *)
(* an active one begins with what is held there, and is no larger.         *)
Tile(bs, m, seg, h) ==
    /\ m \in Nat \ {0} /\ DOMAIN bs = 1 .. m
    /\ \A k \in 1 .. m : /\ bs[k].addr \in Int /\ bs[k].size \in Int
                         /\ DOMAIN bs[k] = {"addr", "size", "active"}
                         /\ bs[k].active \in BOOLEAN
                         /\ bs[k].active <=> \E a \in HeldIn(seg, h) : a.addr = bs[k].addr
    /\ bs[1].addr = seg.addr
    /\ \A j, k \in 1 .. m : j < k => bs[j].addr < bs[k].addr
    /\ \A k \in 1 .. m - 1 : bs[k + 1].addr < seg.addr + seg.size
                               => bs[k].addr + bs[k].size = bs[k + 1].addr
    /\ \A a \in HeldIn(seg, h) : \E k \in 1 .. m : bs[k].addr = a.addr
    /\ \A a \in HeldIn(seg, h), k \in 1 .. m :
          bs[k].addr = a.addr => 0 < bs[k].size /\ bs[k].size <= a.size

(* The blocks of a segment are in address order, without gaps, and cover   *)
(* what is held in it.                                                     *)
LEMMA BlocksTile ==
    ASSUME NEW h \in Told, NEW i \in DOMAIN Segments
    PROVE  \E m : Tile(BlocksOf(Segments[i], h), m, Segments[i], h)
<1>. DEFINE seg  == Segments[i]
            end  == seg.addr + seg.size
            live == HeldIn(seg, h)
            begins == {a.addr : a \in live}
            ends   == {a.addr + a.size : a \in live}
            starts == {seg.addr} \cup begins \cup (ends \ {end})
            later(x) == {y \in starts : y > x} \cup {end}
            next(x) == Min(later(x))
            block(x) == [addr |-> x, size |-> next(x) - x, active |-> \E a \in live : a.addr = x]
            order == Ascending(starts)
            bs == BlocksOf(seg, h)
<1>1. seg.addr \in Nat /\ seg.size \in Nat \ {0}
  <2>1. Segments[i] \in [addr : Nat, size : Nat \ {0}, graph : BOOLEAN]
    BY SegmentsTyped
  <2>. QED  BY <2>1
<1>2. /\ Len(h) \in Nat /\ DOMAIN h = 1 .. Len(h)
      /\ \A j \in DOMAIN h : h[j].addr \in Nat /\ h[j].size \in Nat
  BY HistoryTyped
<1>3. \A a \in live : \E j \in 1 .. Len(h) :
         a.addr = h[j].addr /\ a.size = h[j].size /\ IsAlloc(h[j])
  BY LivesTyped, <1>2 DEF HeldIn
<1>4. bs = [k \in DOMAIN order |-> block(order[k])]
  BY DEF BlocksOf, HeldIn
<1>5. ASSUME NEW a \in live
      PROVE  a.addr \in Nat /\ a.size \in Nat /\ a.size > 0 /\ seg.addr <= a.addr /\ a.addr < end
  <2>1. PICK j \in DOMAIN h : a.addr = h[j].addr /\ a.size = h[j].size /\ IsAlloc(h[j])
    BY <1>2, <1>3
  <2>2. h[j].size > 0
    BY <2>1, HistoriesAssumption DEF Told
  <2>. QED  BY <1>2, <2>1, <2>2 DEF HeldIn
<1>. HIDE DEF live, seg, bs
<1>6. IsFiniteSet(begins) /\ begins \subseteq Int
  <2>. DEFINE f == [j \in 1 .. Len(h) |-> h[j].addr]
  <2>1. \A x \in begins : \E j \in 1 .. Len(h) : f[j] = x
    BY <1>3
  <2>2. DOMAIN f = 1 .. Len(h) /\ f = [j \in 1 .. Len(h) |-> f[j]] /\ \A j \in 1 .. Len(h) : f[j] \in Int
    BY <1>2
  <2>. HIDE DEF f, begins
  <2>. QED  BY <1>2, <2>1, <2>2, ValuesFinite
<1>7. IsFiniteSet(ends) /\ ends \subseteq Int
  <2>. DEFINE f == [j \in 1 .. Len(h) |-> h[j].addr + h[j].size]
  <2>1. \A x \in ends : \E j \in 1 .. Len(h) : f[j] = x
    BY <1>3
  <2>2. DOMAIN f = 1 .. Len(h) /\ f = [j \in 1 .. Len(h) |-> f[j]] /\ \A j \in 1 .. Len(h) : f[j] \in Int
    BY <1>2
  <2>. HIDE DEF f, ends
  <2>. QED  BY <1>2, <2>1, <2>2, ValuesFinite
<1>8. IsFiniteSet(starts) /\ starts \in SUBSET Int /\ seg.addr \in starts
  <2>. HIDE DEF begins, ends
  <2>1. IsFiniteSet(ends \ {end})
    BY <1>7, FS_Subset
  <2>2. IsFiniteSet({seg.addr})
    BY FS_Singleton
  <2>3. IsFiniteSet(({seg.addr} \cup begins) \cup (ends \ {end}))
    BY <1>6, <2>1, <2>2, FS_Union
  <2>4. seg.addr \in Int
    BY <1>1
  <2>5. seg.addr \in starts /\ starts \subseteq Int
    BY <1>6, <1>7, <2>4, Zenon
  <2>6. IsFiniteSet(starts)
    BY <2>3, Zenon
  <2>. QED  BY <2>5, <2>6
<1>9. ASSUME NEW y \in starts
      PROVE  y >= seg.addr
  <2>1. CASE y = seg.addr
    BY <1>1, <2>1
  <2>2. CASE y \in begins
    BY <1>1, <1>5, <2>2
  <2>3. CASE y \in ends
    BY <1>1, <1>5, <2>3
  <2>. QED  BY <2>1, <2>2, <2>3
<1>10. \A a \in live : a.addr \in starts /\ (a.addr + a.size = end \/ a.addr + a.size \in starts)
  OBVIOUS
<1>11. \A y \in starts : y = seg.addr \/ (\E a \in live : y = a.addr) \/ y # end
  OBVIOUS
<1>. HIDE DEF starts
<1>12. /\ order \in [1 .. Cardinality(starts) -> starts] /\ Cardinality(starts) \in Nat
       /\ \A x \in starts : \E k \in 1 .. Cardinality(starts) : order[k] = x
       /\ \A j, k \in 1 .. Cardinality(starts) : j < k => order[j] < order[k]
  BY <1>8, AscendingLists
<1>13. Cardinality(starts) # 0
  BY <1>8, FS_EmptySet
<1>. DEFINE m == Cardinality(starts)
<1>. HIDE DEF order, m
<1>14. m \in Nat \ {0} /\ order \in [1 .. m -> starts] /\ DOMAIN bs = 1 .. m
  BY <1>4, <1>12, <1>13 DEF m
<1>15. end \in Int /\ seg.addr < end
  BY <1>1
<1>. HIDE DEF end
<1>16. ASSUME NEW x \in starts
       PROVE  /\ next(x) \in Int /\ next(x) \in later(x)
              /\ \A y \in later(x) : next(x) <= y
  <2>1. later(x) \in SUBSET Int
    BY <1>8, <1>15
  <2>2. IsFiniteSet(later(x))
    <3>1. IsFiniteSet({y \in starts : y > x})
      BY <1>8, FS_Subset
    <3>2. IsFiniteSet({end})
      BY FS_Singleton
    <3>. QED  BY <3>1, <3>2, FS_Union
  <2>3. later(x) # {}
    OBVIOUS
  <2>. HIDE DEF later
  <2>. QED  BY <2>1, <2>2, <2>3, MinExists
<1>. HIDE DEF next
<1>17. ASSUME NEW k \in 1 .. m
       PROVE  /\ bs[k] = block(order[k]) /\ order[k] \in starts /\ order[k] \in Int
  BY <1>4, <1>8, <1>14
<1>18. ASSUME NEW k \in 1 .. m
       PROVE  /\ bs[k].addr = order[k] /\ bs[k].size = next(order[k]) - order[k]
              /\ bs[k].active = (\E a \in live : a.addr = order[k])
              /\ DOMAIN bs[k] = {"addr", "size", "active"}
  <2>. DEFINE d == next(order[k]) - order[k]
              on == \E a \in live : a.addr = order[k]
  <2>1. bs[k] = [addr |-> order[k], size |-> d, active |-> on]
    BY <1>17
  <2>. HIDE DEF d, on
  <2>2. /\ bs[k].addr = order[k] /\ bs[k].size = d /\ bs[k].active = on
        /\ DOMAIN bs[k] = {"addr", "size", "active"}
    BY <2>1
  <2>. QED  BY <2>2 DEF d, on
<1>19. \A j, k \in 1 .. m : j < k => order[j] < order[k]
  BY <1>12 DEF m
<1>20. \A x \in starts : \E k \in 1 .. m : order[k] = x
  BY <1>12 DEF m
<1>21. bs[1].addr = seg.addr
  <2>1. 1 \in 1 .. m
    BY <1>14
  <2>2. PICK k \in 1 .. m : order[k] = seg.addr
    BY <1>8, <1>20
  <2>3. k = 1
    <3>1. CASE k > 1
      <4>1. order[1] < order[k]
        BY <1>14, <1>19, <2>1, <3>1
      <4>2. order[1] >= seg.addr /\ order[1] \in Int
        BY <1>9, <1>17, <2>1
      <4>. QED  BY <1>1, <2>2, <4>1, <4>2
    <3>. QED  BY <1>14, <3>1
  <2>. QED  BY <1>18, <2>1, <2>2, <2>3
<1>22. ASSUME NEW k \in 1 .. m - 1, bs[k + 1].addr < end
       PROVE  bs[k].addr + bs[k].size = bs[k + 1].addr
  <2>1. k \in 1 .. m /\ k + 1 \in 1 .. m /\ k < k + 1 /\ k \in Int
    BY <1>14
  <2>2. order[k + 1] < end /\ order[k + 1] \in starts /\ order[k + 1] \in Int /\ order[k] \in Int
        /\ order[k] \in starts
    BY <1>17, <1>18, <1>22, <2>1
  <2>3. order[k] < order[k + 1]
    BY <1>19, <2>1
  <2>4. order[k + 1] \in later(order[k])
    BY <2>2, <2>3
  <2>5. ASSUME NEW y \in later(order[k])
        PROVE  order[k + 1] <= y
    <3>1. CASE y = end
      BY <1>15, <2>2, <3>1
    <3>2. CASE y \in starts /\ y > order[k]
      <4>1. PICK l \in 1 .. m : order[l] = y
        BY <1>20, <3>2
      <4>2. l \in Int /\ order[l] \in Int
        <5>1. m \in Nat
          BY <1>14
        <5>2. l \in Int
          BY <5>1
        <5>3. order[l] \in Int
          BY <1>17, Zenon
        <5>. QED  BY <5>2, <5>3
      <4>3. ~(l < k) /\ l # k
        BY <1>19, <2>1, <2>2, <3>2, <4>1, <4>2
      <4>4. l = k + 1 \/ k + 1 < l
        BY <2>1, <4>2, <4>3
      <4>. QED  BY <1>19, <2>1, <2>2, <4>1, <4>2, <4>4
    <3>. QED  BY <3>1, <3>2
  <2>6. next(order[k]) = order[k + 1]
    <3>1. next(order[k]) <= order[k + 1] /\ order[k + 1] <= next(order[k]) /\ next(order[k]) \in Int
      BY <1>16, <2>2, <2>4, <2>5
    <3>. QED  BY <2>2, <3>1
  <2>7. bs[k].addr = order[k] /\ bs[k].size = order[k + 1] - order[k] /\ bs[k + 1].addr = order[k + 1]
    BY <1>18, <2>1, <2>6
  <2>. QED  BY <2>2, <2>7
<1>23. \A a \in live : \E k \in 1 .. m : bs[k].addr = a.addr
  BY <1>10, <1>18, <1>20
<1>24. ASSUME NEW a \in live, NEW k \in 1 .. m, bs[k].addr = a.addr
       PROVE  0 < bs[k].size /\ bs[k].size <= a.size
  <2>1. order[k] = a.addr /\ bs[k].size = next(a.addr) - a.addr /\ a.addr \in starts
    BY <1>17, <1>18, <1>24
  <2>2. /\ a.addr \in Nat /\ a.size \in Nat /\ a.size > 0 /\ a.addr < end
    BY <1>5 DEF end
  <2>3. \A y \in later(a.addr) : y > a.addr
    BY <1>15, <2>2
  <2>4. a.addr + a.size \in later(a.addr)
    <3>1. a.addr + a.size > a.addr
      BY <2>2
    <3>2. a.addr + a.size = end \/ a.addr + a.size \in starts
      BY <1>10 DEF end
    <3>. QED  BY <3>1, <3>2
  <2>5. next(a.addr) > a.addr /\ next(a.addr) <= a.addr + a.size /\ next(a.addr) \in Int
    <3>. HIDE DEF later
    <3>. QED  BY <1>16, <2>1, <2>3, <2>4
  <2>. QED  BY <2>1, <2>2, <2>5
<1>25. ASSUME NEW k \in 1 .. m
       PROVE  bs[k].addr \in Int /\ bs[k].size \in Int
  <2>1. order[k] \in Int /\ next(order[k]) \in Int
    BY <1>16, <1>17, Zenon
  <2>2. bs[k].addr = order[k] /\ bs[k].size = next(order[k]) - order[k]
    BY <1>18, Zenon
  <2>. QED  BY <2>1, <2>2
<1>26. \A k \in 1 .. m : /\ bs[k].active \in BOOLEAN
                         /\ bs[k].active <=> \E a \in live : a.addr = bs[k].addr
  BY <1>18
<1>27. \A j, k \in 1 .. m : j < k => bs[j].addr < bs[k].addr
  BY <1>18, <1>19
<1>28. \A k \in 1 .. m : DOMAIN bs[k] = {"addr", "size", "active"}
  BY <1>18
<1>29. \A k \in 1 .. m - 1 : bs[k + 1].addr < end => bs[k].addr + bs[k].size = bs[k + 1].addr
  BY <1>22
<1>30. \A a \in live, k \in 1 .. m : bs[k].addr = a.addr => 0 < bs[k].size /\ bs[k].size <= a.size
  BY <1>24
<1>31. Tile(bs, m, seg, h)
  BY <1>14, <1>21, <1>23, <1>25, <1>26, <1>27, <1>28, <1>29, <1>30 DEF Tile, live, end
<1>. QED  BY <1>31 DEF bs, seg

(* Every segment has a block, and every block an address.                  *)
LEMMA BlocksPlaced ==
    ASSUME NEW h \in Told, NEW i \in DOMAIN Segments
    PROVE  \E m \in Nat \ {0} :
              /\ DOMAIN BlocksOf(Segments[i], h) = 1 .. m
              /\ \A k \in 1 .. m : /\ BlocksOf(Segments[i], h)[k].addr \in Int
                                   /\ "addr" \in DOMAIN BlocksOf(Segments[i], h)[k]
BY BlocksTile DEF Tile

(* The blocks of a snapshot have an address unless it is left out.         *)
LEMMA BlocksWritten ==
    ASSUME NEW h \in Told, NEW loss \in Losses
    PROVE  LET s == SnapshotOf(h, loss)
           IN  /\ \A b : b \in Blocks(s) <=>
                     \E i \in DOMAIN Segments : \E k \in DOMAIN BlocksOf(Segments[i], h) :
                        b = [BlocksOf(Segments[i], h)[k] EXCEPT
                                !.addr = Left(loss, "address", k, BlocksOf(Segments[i], h)[k].addr)]
               /\ s.segments # <<>>
<1>. DEFINE s == SnapshotOf(h, loss)
            bs(i) == BlocksOf(Segments[i], h)
            block(b, k) == [b EXCEPT !.addr = Left(loss, "address", k, b.addr)]
<1>1. /\ DOMAIN s.segments = DOMAIN Segments
      /\ \A i \in DOMAIN Segments :
            s.segments[i].blocks = [k \in DOMAIN bs(i) |-> block(bs(i)[k], k)]
  BY DEF SnapshotOf
<1>. HIDE DEF s, bs, block
<1>2. \A b : b \in Blocks(s) <=> \E i \in DOMAIN Segments : b \in ToSet(s.segments[i].blocks)
  BY <1>1 DEF Blocks, ToSet
<1>3. \A i \in DOMAIN Segments : \A b :
         b \in ToSet(s.segments[i].blocks) <=> \E k \in DOMAIN bs(i) : b = block(bs(i)[k], k)
  BY <1>1 DEF ToSet
<1>4. \A b : b \in Blocks(s) <=>
         \E i \in DOMAIN Segments : \E k \in DOMAIN bs(i) : b = block(bs(i)[k], k)
  BY <1>2, <1>3
<1>5. s.segments # <<>>
  <2>1. DOMAIN Segments # {}
    BY SegmentsTyped
  <2>2. DOMAIN s.segments # {}
    BY <1>1, <2>1
  <2>. QED  BY <2>2
<1>. QED  BY <1>4, <1>5 DEF s, bs, block

-----------------------------------------------------------------------------
(* What the manifest and the normalized snapshot say.                      *)

LeftOut(loss, field) == loss.at = 0 /\ field \in loss.fields

(* A field that is not left out everywhere is there, at every other record *)
(* if not at all.                                                          *)
LEMMA FieldsLeft ==
    ASSUME NEW loss \in Losses, NEW field, NEW i, NEW v, v # None
    PROVE  /\ LeftOut(loss, field) => Left(loss, field, i, v) = None
           /\ field \notin loss.fields => Left(loss, field, i, v) = v
           /\ Left(loss, field, i, v) # None => Left(loss, field, i, v) = v
           /\ ~LeftOut(loss, field) /\ Left(loss, field, i, v) = None => i = loss.at /\ field \in loss.fields
           /\ loss.at = 0 /\ Left(loss, field, i, v) = None => LeftOut(loss, field)
BY DEF LeftOut, Left

(* None is not what a field holds.                                         *)
LEMMA ValuesKnown ==
    ASSUME NEW h \in Told, NEW i \in DOMAIN h
    PROVE  h[i].act # None /\ h[i].addr # None /\ h[i].size # None /\ h[i].time # None
<1>1. None \notin Int /\ None \notin STRING
  BY NoneAssumption
<1>2. h[i].act \in STRING /\ h[i].addr \in Nat /\ h[i].size \in Nat /\ h[i].time \in Nat
  BY HistoryTyped
<1>. QED  BY <1>1, <1>2

(* The manifest says of each field whether the torch probed has it.        *)
LEMMA CapabilitiesTell ==
    ASSUME NEW loss \in Losses
    PROVE  LET c == Capabilities(SnapshotOf(Probe, loss))
           IN  /\ c.block_explicit_address <=> ~LeftOut(loss, "address")
               /\ (/\ c.device_traces_present /\ c.device_traces_action
                   /\ c.device_traces_addr /\ c.device_traces_size)
                     <=> \A f \in NeedsHistory : ~LeftOut(loss, f)
               /\ c \notin {None, Unreadable}
<1>. DEFINE s == SnapshotOf(Probe, loss)
            c == Capabilities(s)
            E == ProbeTraces(s)
<1>0. /\ Probe \in Told /\ loss \in [fields : SUBSET Fields, at : Nat]
      /\ loss.at = 0 \/ "traces" \notin loss.fields
  BY LossesAssumption DEF Told
<1>1. /\ c.block_explicit_address = (\E b \in Blocks(s) : b.addr # None)
      /\ c.device_traces_present = (E # {})
      /\ c.device_traces_action = (\E e \in E : e.act # None)
      /\ c.device_traces_addr = (\E e \in E : e.addr # None)
      /\ c.device_traces_size = (\E e \in E : e.size # None)
  BY DEF Capabilities
<1>2. E = IF "traces" \in loss.fields THEN {} ELSE {Written(Probe, loss, i) : i \in DOMAIN Probe}
  BY <1>0, FlatWritten DEF ProbeTraces
<1>3. 1 \in DOMAIN Probe /\ 2 \in DOMAIN Probe
  <2>1. Len(Probe) \in Nat /\ DOMAIN Probe = 1 .. Len(Probe)
    BY <1>0, HistoryTyped
  <2>2. Len(Probe) > 1
    BY ProbeAssumption
  <2>. QED  BY <2>1, <2>2
<1>4. c.block_explicit_address <=> ~LeftOut(loss, "address")
  <2>1. \A b : b \in Blocks(s) <=>
           \E i \in DOMAIN Segments : \E k \in DOMAIN BlocksOf(Segments[i], Probe) :
              b = [BlocksOf(Segments[i], Probe)[k] EXCEPT
                      !.addr = Left(loss, "address", k, BlocksOf(Segments[i], Probe)[k].addr)]
    BY <1>0, BlocksWritten
  <2>2. \A i \in DOMAIN Segments : \A k \in DOMAIN BlocksOf(Segments[i], Probe) :
            /\ BlocksOf(Segments[i], Probe)[k].addr # None
            /\ "addr" \in DOMAIN BlocksOf(Segments[i], Probe)[k]
    BY <1>0, BlocksPlaced, NoneAssumption
  <2>3. PICK i \in DOMAIN Segments : 2 \in DOMAIN BlocksOf(Segments[i], Probe)
    BY ProbeAssumption
  <2>4. PICK m \in Nat \ {0} : DOMAIN BlocksOf(Segments[i], Probe) = 1 .. m
    BY <1>0, BlocksPlaced
  <2>5. 1 \in DOMAIN BlocksOf(Segments[i], Probe) /\ 2 \in DOMAIN BlocksOf(Segments[i], Probe)
    <3>1. 1 \in 1 .. m
      OBVIOUS
    <3>. QED  BY <2>3, <2>4, <3>1
  <2>. DEFINE bs(j) == BlocksOf(Segments[j], Probe)
              block(j, k) == [bs(j)[k] EXCEPT !.addr = Left(loss, "address", k, bs(j)[k].addr)]
  <2>6. \A j \in DOMAIN Segments : \A k \in DOMAIN bs(j) :
            block(j, k).addr = Left(loss, "address", k, bs(j)[k].addr)
    BY <2>2
  <2>7. \A b : b \in Blocks(s) <=> \E j \in DOMAIN Segments : \E k \in DOMAIN bs(j) : b = block(j, k)
    BY <2>1
  <2>. HIDE DEF s, block, bs
  <2>8. ASSUME LeftOut(loss, "address"), NEW b \in Blocks(s)
        PROVE  b.addr = None
    BY <2>2, <2>6, <2>7, <2>8, FieldsLeft DEF bs
  <2>9. ASSUME ~LeftOut(loss, "address")
        PROVE  \E b \in Blocks(s) : b.addr # None
    <3>1. block(i, 1) \in Blocks(s) /\ block(i, 2) \in Blocks(s)
      BY <2>5, <2>7 DEF bs
    <3>2. block(i, 1).addr = None => 1 = loss.at
      BY <2>2, <2>5, <2>6, <2>9, FieldsLeft DEF bs
    <3>3. block(i, 2).addr = None => 2 = loss.at
      BY <2>2, <2>5, <2>6, <2>9, FieldsLeft DEF bs
    <3>. QED  BY <3>1, <3>2, <3>3
  <2>. QED  BY <1>1, <2>8, <2>9 DEF s
<1>. DEFINE w(i) == Written(Probe, loss, i)
<1>5. \A i \in DOMAIN Probe :
         /\ w(i).act = Left(loss, "action", i, Probe[i].act)
         /\ w(i).addr = Left(loss, "addr", i, Probe[i].addr)
         /\ w(i).size = Left(loss, "size", i, Probe[i].size)
  <2>1. SUFFICES ASSUME NEW i \in DOMAIN Probe
                 PROVE  /\ w(i).act = Left(loss, "action", i, Probe[i].act)
                        /\ w(i).addr = Left(loss, "addr", i, Probe[i].addr)
                        /\ w(i).size = Left(loss, "size", i, Probe[i].size)
    OBVIOUS
  <2>. QED  BY ONLY WrittenFields
<1>6. \A i \in DOMAIN Probe : Probe[i].act # None /\ Probe[i].addr # None /\ Probe[i].size # None
  BY <1>0, ValuesKnown
<1>7. "traces" \notin loss.fields => E = {w(i) : i \in DOMAIN Probe}
  BY <1>2
<1>. HIDE DEF s, c, E, w
<1>8. c.device_traces_present <=> ~LeftOut(loss, "traces")
  <2>1. E # {} <=> "traces" \notin loss.fields
    BY <1>2, <1>3
  <2>2. "traces" \in loss.fields <=> LeftOut(loss, "traces")
    BY <1>0 DEF LeftOut
  <2>3. c.device_traces_present = (E # {})
    BY <1>1
  <2>. QED  BY <2>1, <2>2, <2>3
<1>9. ASSUME "traces" \notin loss.fields
      PROVE  /\ c.device_traces_action <=> ~LeftOut(loss, "action")
             /\ c.device_traces_addr <=> ~LeftOut(loss, "addr")
             /\ c.device_traces_size <=> ~LeftOut(loss, "size")
  <2>1. w(1) \in E /\ w(2) \in E
    BY <1>3, <1>7, <1>9
  <2>2. \A e \in E : \E i \in DOMAIN Probe : e = w(i)
    BY <1>7, <1>9
  <2>3. c.device_traces_action <=> ~LeftOut(loss, "action")
    <3>1. LeftOut(loss, "action") => \A e \in E : e.act = None
      BY <1>5, <1>6, <2>2, FieldsLeft
    <3>2. ~LeftOut(loss, "action") => (w(1).act = None => 1 = loss.at) /\ (w(2).act = None => 2 = loss.at)
      BY <1>3, <1>5, <1>6, FieldsLeft
    <3>. QED  BY <1>1, <2>1, <3>1, <3>2
  <2>4. c.device_traces_addr <=> ~LeftOut(loss, "addr")
    <3>1. LeftOut(loss, "addr") => \A e \in E : e.addr = None
      BY <1>5, <1>6, <2>2, FieldsLeft
    <3>2. ~LeftOut(loss, "addr") => (w(1).addr = None => 1 = loss.at) /\ (w(2).addr = None => 2 = loss.at)
      BY <1>3, <1>5, <1>6, FieldsLeft
    <3>. QED  BY <1>1, <2>1, <3>1, <3>2
  <2>5. c.device_traces_size <=> ~LeftOut(loss, "size")
    <3>1. LeftOut(loss, "size") => \A e \in E : e.size = None
      BY <1>5, <1>6, <2>2, FieldsLeft
    <3>2. ~LeftOut(loss, "size") => (w(1).size = None => 1 = loss.at) /\ (w(2).size = None => 2 = loss.at)
      BY <1>3, <1>5, <1>6, FieldsLeft
    <3>. QED  BY <1>1, <2>1, <3>1, <3>2
  <2>. QED  BY <2>3, <2>4, <2>5
<1>10. (/\ c.device_traces_present /\ c.device_traces_action
        /\ c.device_traces_addr /\ c.device_traces_size)
          <=> \A f \in NeedsHistory : ~LeftOut(loss, f)
  <2>1. CASE "traces" \in loss.fields
    BY <1>0, <1>8, <2>1 DEF NeedsHistory, LeftOut
  <2>2. CASE "traces" \notin loss.fields
    BY <1>8, <1>9, <2>2 DEF NeedsHistory
  <2>. QED  BY <2>1, <2>2
<1>11. c \notin {None, Unreadable}
  <2>. DEFINE explicit == \E b \in Blocks(s) : b.addr # None
              present  == ProbeTraces(s) # {}
              action   == \E e \in ProbeTraces(s) : e.act # None
              addr     == \E e \in ProbeTraces(s) : e.addr # None
              size     == \E e \in ProbeTraces(s) : e.size # None
  <2>1. c = [block_explicit_address |-> explicit, device_traces_present |-> present,
             device_traces_action |-> action, device_traces_addr |-> addr, device_traces_size |-> size]
    BY DEF c, Capabilities
  <2>2. explicit \in BOOLEAN /\ present \in BOOLEAN /\ action \in BOOLEAN /\ addr \in BOOLEAN /\ size \in BOOLEAN
    OBVIOUS
  <2>. HIDE DEF explicit, present, action, addr, size
  <2>3. c \in Manifests
    BY <2>1, <2>2 DEF Manifests
  <2>. QED  BY <2>3, NoneAssumption
<1>. QED  BY <1>4, <1>10, <1>11 DEF c, s

(* A layout is there if every block has an address.                        *)
LEMMA LayoutTells ==
    ASSUME NEW h \in Told, NEW loss \in Losses
    PROVE  LET s == SnapshotOf(h, loss)
           IN  /\ Normalize(s).layout <=> \A b \in Blocks(s) : b.addr # None
               /\ loss.at = 0 => (Normalize(s).layout <=> ~LeftOut(loss, "address"))
<1>. DEFINE s == SnapshotOf(h, loss)
            bs(i) == BlocksOf(Segments[i], h)
            block(i, k) == [bs(i)[k] EXCEPT !.addr = Left(loss, "address", k, bs(i)[k].addr)]
<1>1. Normalize(s).layout <=> \A b \in Blocks(s) : b.addr # None
  <2>1. Normalize(s).layout = BlockAddress(s)
    BY DEF Normalize
  <2>2. s.segments # <<>>
    BY BlocksWritten
  <2>. QED  BY <2>1, <2>2 DEF BlockAddress
<1>2. \A b : b \in Blocks(s) <=> \E i \in DOMAIN Segments : \E k \in DOMAIN bs(i) : b = block(i, k)
  BY BlocksWritten
<1>3. \A i \in DOMAIN Segments : \A k \in DOMAIN bs(i) :
         bs(i)[k].addr # None /\ "addr" \in DOMAIN bs(i)[k]
  BY BlocksPlaced, NoneAssumption
<1>4. \A i \in DOMAIN Segments : \A k \in DOMAIN bs(i) :
         block(i, k).addr = Left(loss, "address", k, bs(i)[k].addr)
  BY <1>3
<1>5. \E i \in DOMAIN Segments : 1 \in DOMAIN bs(i)
  <2>1. PICK i : i \in DOMAIN Segments
    BY SegmentsTyped
  <2>2. PICK m \in Nat \ {0} : DOMAIN bs(i) = 1 .. m
    BY <2>1, BlocksPlaced
  <2>3. 1 \in 1 .. m
    OBVIOUS
  <2>. QED  BY <2>1, <2>2, <2>3
<1>. HIDE DEF s, bs, block
<1>6. ASSUME LeftOut(loss, "address")
      PROVE  \E b \in Blocks(s) : b.addr = None
  <2>1. PICK i \in DOMAIN Segments : 1 \in DOMAIN bs(i)
    BY <1>5
  <2>2. block(i, 1).addr = None
    BY <1>3, <1>4, <1>6, <2>1, FieldsLeft
  <2>. QED  BY <1>2, <2>1, <2>2
<1>7. ASSUME loss.at = 0, NEW b \in Blocks(s), b.addr = None
      PROVE  LeftOut(loss, "address")
  <2>1. PICK i \in DOMAIN Segments : \E k \in DOMAIN bs(i) : b = block(i, k)
    BY <1>2
  <2>2. PICK k \in DOMAIN bs(i) : b = block(i, k)
    BY <2>1
  <2>3. Left(loss, "address", k, bs(i)[k].addr) = None /\ bs(i)[k].addr # None
    BY <1>3, <1>4, <1>7, <2>2
  <2>. QED  BY <1>7, <2>3, FieldsLeft
<1>. QED  BY <1>1, <1>6, <1>7 DEF s

(* A history is there if every event that is used has its fields; then they *)
(* are what happened.                                                      *)
LEMMA HistoryTells ==
    ASSUME NEW h \in Told, NEW loss \in Losses
    PROVE  LET s == SnapshotOf(h, loss)
               w(i) == Written(h, loss, i)
           IN  /\ Normalize(s).history =>
                    /\ "traces" \notin loss.fields
                    /\ \A i \in DOMAIN h :
                          /\ w(i).act = h[i].act
                          /\ IsAlloc(h[i]) \/ IsFree(h[i]) => w(i).addr = h[i].addr
                          /\ IsAlloc(h[i]) => w(i).size = h[i].size
               /\ loss.at = 0 =>
                    (Normalize(s).history <=> /\ \A f \in NeedsHistory : ~LeftOut(loss, f)
                                              /\ \E i \in DOMAIN h : IsAlloc(h[i]))
<1>. DEFINE s == SnapshotOf(h, loss)
            w(i) == Written(h, loss, i)
            E == ToSet(Flat(s))
            used == Used(Flat(s))
            allocs == Allocs(Flat(s))
<1>1. Normalize(s).history <=>
         /\ E # {} /\ \A e \in E : e.act # None
         /\ used # {} /\ \A e \in used : e.addr # None
         /\ allocs # {} /\ \A e \in allocs : e.size # None
  <2>1. Normalize(s).history = (Flat(s) # <<>> /\ TraceAction(s) /\ TraceAddr(s) /\ TraceSize(s))
    BY DEF Normalize
  <2>2. Flat(s) # <<>> <=> E # {}
    BY FlatWritten
  <2>3. /\ TraceAction(s) <=> Flat(s) # <<>> /\ \A e \in E : e.act # None
        /\ TraceAddr(s) <=> used # {} /\ \A e \in used : e.addr # None
        /\ TraceSize(s) <=> allocs # {} /\ \A e \in allocs : e.size # None
    BY DEF TraceAction, TraceAddr, TraceSize
  <2>. HIDE DEF s, used, allocs, E
  <2>. QED  BY <2>1, <2>2, <2>3
<1>2. /\ "traces" \in loss.fields => E = {}
      /\ "traces" \notin loss.fields => E = {w(i) : i \in DOMAIN h}
  BY FlatWritten
<1>3. \A e : e \in used <=> e \in E /\ e.act # None /\ (IsAlloc(e) \/ IsFree(e))
  BY DEF Used
<1>4. \A e : e \in allocs <=> e \in E /\ e.act # None /\ IsAlloc(e)
  BY DEF Allocs
<1>5. \A i \in DOMAIN h : /\ w(i).act = Left(loss, "action", i, h[i].act)
                          /\ w(i).addr = Left(loss, "addr", i, h[i].addr)
                          /\ w(i).size = Left(loss, "size", i, h[i].size)
  <2>1. SUFFICES ASSUME NEW i \in DOMAIN h
                 PROVE  /\ w(i).act = Left(loss, "action", i, h[i].act)
                        /\ w(i).addr = Left(loss, "addr", i, h[i].addr)
                        /\ w(i).size = Left(loss, "size", i, h[i].size)
    OBVIOUS
  <2>. QED  BY ONLY WrittenFields
<1>6. \A i \in DOMAIN h : h[i].act # None /\ h[i].addr # None /\ h[i].size # None
  BY ValuesKnown
<1>7. \A i \in DOMAIN h : w(i).act = h[i].act =>
         (IsAlloc(w(i)) <=> IsAlloc(h[i])) /\ (IsFree(w(i)) <=> IsFree(h[i]))
  BY DEF IsAlloc, IsFree
<1>8. loss \in [fields : SUBSET Fields, at : Nat] /\ (loss.at = 0 \/ "traces" \notin loss.fields)
  BY LossesAssumption
<1>. HIDE DEF s, w, E, used, allocs
<1>9. ASSUME Normalize(s).history
      PROVE  /\ "traces" \notin loss.fields
             /\ \A i \in DOMAIN h : /\ w(i).act = h[i].act
                                    /\ IsAlloc(h[i]) \/ IsFree(h[i]) => w(i).addr = h[i].addr
                                    /\ IsAlloc(h[i]) => w(i).size = h[i].size
             /\ \E i \in DOMAIN h : IsAlloc(h[i])
  <2>1. "traces" \notin loss.fields /\ \A i \in DOMAIN h : w(i) \in E
    BY <1>1, <1>2, <1>9
  <2>2. \A i \in DOMAIN h : w(i).act = h[i].act
    BY <1>1, <1>5, <1>6, <1>9, <2>1, FieldsLeft
  <2>3. \A i \in DOMAIN h : IsAlloc(h[i]) \/ IsFree(h[i]) => w(i) \in used
    BY <1>3, <1>6, <1>7, <2>1, <2>2
  <2>4. \A i \in DOMAIN h : IsAlloc(h[i]) \/ IsFree(h[i]) => w(i).addr = h[i].addr
    BY <1>1, <1>5, <1>6, <1>9, <2>3, FieldsLeft
  <2>5. \A i \in DOMAIN h : IsAlloc(h[i]) => w(i) \in allocs
    BY <1>4, <1>6, <1>7, <2>1, <2>2
  <2>6. \A i \in DOMAIN h : IsAlloc(h[i]) => w(i).size = h[i].size
    BY <1>1, <1>5, <1>6, <1>9, <2>5, FieldsLeft
  <2>7. \E i \in DOMAIN h : IsAlloc(h[i])
    BY <1>1, <1>2, <1>4, <1>7, <1>9, <2>1, <2>2
  <2>. QED  BY <2>1, <2>2, <2>4, <2>6, <2>7
<1>10. ASSUME loss.at = 0, Normalize(s).history
       PROVE  \A f \in NeedsHistory : ~LeftOut(loss, f)
  <2>1. PICK i \in DOMAIN h : IsAlloc(h[i])
    BY <1>9, <1>10
  <2>2. w(i).act # None /\ w(i).addr # None /\ w(i).size # None /\ "traces" \notin loss.fields
    BY <1>6, <1>9, <1>10, <2>1
  <2>3. ~LeftOut(loss, "action") /\ ~LeftOut(loss, "addr") /\ ~LeftOut(loss, "size")
    BY <1>5, <1>6, <2>2, FieldsLeft
  <2>4. ~LeftOut(loss, "traces")
    BY <2>2 DEF LeftOut
  <2>. QED  BY <2>3, <2>4 DEF NeedsHistory
<1>11. ASSUME loss.at = 0, \A f \in NeedsHistory : ~LeftOut(loss, f), NEW i \in DOMAIN h, IsAlloc(h[i])
       PROVE  Normalize(s).history
  <2>1. ~LeftOut(loss, "action") /\ ~LeftOut(loss, "addr") /\ ~LeftOut(loss, "size")
        /\ ~LeftOut(loss, "traces")
    BY <1>11 DEF NeedsHistory
  <2>2. "traces" \notin loss.fields
    BY <1>11, <2>1 DEF LeftOut
  <2>3. \A j \in DOMAIN h : w(j).act # None /\ w(j).addr # None /\ w(j).size # None
    BY <1>5, <1>6, <1>11, <2>1, FieldsLeft
  <2>4. \A e \in E : e.act # None /\ e.addr # None /\ e.size # None
    BY <1>2, <2>2, <2>3
  <2>5. w(i) \in E
    BY <1>2, <2>2
  <2>6. w(i).act = h[i].act
    BY <1>5, <1>6, <2>3, FieldsLeft
  <2>7. w(i) \in used /\ w(i) \in allocs
    BY <1>3, <1>4, <1>7, <1>11, <2>3, <2>5, <2>6
  <2>8. (\A e \in used : e.addr # None) /\ (\A e \in allocs : e.size # None)
    BY <1>3, <1>4, <2>4
  <2>. QED  BY <1>1, <2>4, <2>5, <2>7, <2>8
<1>. QED  BY <1>9, <1>10, <1>11 DEF s, w

-----------------------------------------------------------------------------
(* The invariant, step by step.                                            *)

(* None is no reason to refuse.                                            *)
LEMMA ReasonsKnown == None \notin {"schema", "sidecar", "layout"}
BY NoneAssumption DEF Reasons

(* It holds before the capture.                                            *)
LEMMA InitIInv == Init => IInv
BY DEF Init, IInv, ManifestOK, RawOK, SnapOK, OutcomeOK

(* The validator writes the manifest of what it probed.                    *)
LEMMA ValidateIInv ==
    ASSUME IInv, NEW loss \in Losses, Validate(loss)
    PROVE  IInv'
<1>1. ManifestOK'
  BY DEF Validate, ManifestOK
<1>2. at = "capture" /\ UNCHANGED <<raw, history, lost, at, snap, refused, result>>
  BY DEF Validate
<1>3. RawOK' /\ SnapOK'
  BY <1>2 DEF IInv, RawOK, SnapOK
<1>4. OutcomeOK'
  BY <1>2 DEF IInv, OutcomeOK
<1>. QED  BY <1>1, <1>3, <1>4 DEF IInv

(* The capture is dumped.                                                  *)
LEMMA CaptureIInv ==
    ASSUME IInv, NEW h \in Histories, NEW loss \in Losses, Capture(h, loss)
    PROVE  IInv'
BY DEF IInv, Capture, ManifestOK, RawOK, SnapOK, OutcomeOK

(* The pickle is normalized, or refused if it is not complete.             *)
LEMMA LoadIInv ==
    ASSUME IInv, Load
    PROVE  IInv'
<1>1. /\ at = "load" /\ UNCHANGED <<files, result>>
      /\ \/ at' = "sidecar" /\ refused' = refused /\ snap' = Normalize(raw)
         \/ at' = "done" /\ refused' = "schema" /\ snap' = None
  <2>1. CASE Complete(raw)
    BY <2>1, ReasonsKnown DEF Load, Go
  <2>2. CASE ~Complete(raw)
    BY <2>2, ReasonsKnown DEF Load, Go
  <2>. QED  BY <2>1, <2>2
<1>. QED  BY <1>1 DEF IInv, ManifestOK, RawOK, SnapOK, OutcomeOK, files

(* The sidecar is found, or not.                                           *)
LEMMA FindSidecarIInv ==
    ASSUME IInv, NEW asked \in BOOLEAN, NEW readable \in BOOLEAN, FindSidecar(asked, readable)
    PROVE  IInv'
<1>1. /\ at = "sidecar" /\ UNCHANGED <<files, snap, result>>
      /\ \/ at' = "analyze" /\ refused' = refused
         \/ at' = "done" /\ refused' = "sidecar"
  BY ReasonsKnown DEF FindSidecar, Go
<1>. QED  BY <1>1 DEF IInv, ManifestOK, RawOK, SnapOK, OutcomeOK, files

(* What may be reported depends on the manifest and the snapshot alone.    *)
LEMMA ReportsFollow ==
    ASSUME UNCHANGED <<manifest, snap>>
    PROVE  (FailsClosed' <=> FailsClosed) /\ Reports' = Reports
<1>1. /\ LayoutDenied' <=> LayoutDenied
      /\ HistoryDenied' <=> HistoryDenied
  BY DEF LayoutDenied, HistoryDenied, Supplied
<1>2. LayoutAvailable' = LayoutAvailable /\ HistoryAvailable' = HistoryAvailable
  BY <1>1 DEF LayoutAvailable, HistoryAvailable
<1>3. Summaries' = Summaries
  BY <1>2 DEF Summaries
<1>4. Bars' = Bars
  BY DEF Bars, InGraph
<1>5. Reports' = Reports
  BY <1>2, <1>3, <1>4 DEF Reports
<1>. QED  BY <1>1, <1>5 DEF FailsClosed

(* The analysis reports, or refuses.                                       *)
LEMMA AnalyzeIInv ==
    ASSUME IInv, Analyze
    PROVE  IInv'
<1>1. /\ at = "analyze" /\ at' = "done" /\ UNCHANGED <<files, snap>>
      /\ \/ FailsClosed /\ refused' = "layout" /\ result' = None
         \/ ~FailsClosed /\ refused' = refused /\ result' = Reports
  <2>1. CASE FailsClosed
    BY <2>1, ReasonsKnown DEF Analyze, Go
  <2>2. CASE ~FailsClosed
    BY <2>2, ReasonsKnown DEF Analyze, Go
  <2>. QED  BY <2>1, <2>2
<1>2. (FailsClosed' <=> FailsClosed) /\ Reports' = Reports
  BY <1>1, ReportsFollow DEF files
<1>3. ManifestOK' /\ RawOK' /\ SnapOK'
  BY <1>1 DEF IInv, ManifestOK, RawOK, SnapOK, files
<1>4. snap' = Normalize(raw)' /\ refused = None
  BY <1>1 DEF IInv, SnapOK, OutcomeOK, files
<1>5. OutcomeOK'
  BY <1>1, <1>2, <1>4 DEF OutcomeOK
<1>. QED  BY <1>3, <1>5 DEF IInv

(* The inductive invariant, for any histories and any losses.              *)
LEMMA GateInvariance == Spec => []IInv
<1>1. IInv /\ [Next]_vars => IInv'
  <2>1. SUFFICES ASSUME IInv, [Next]_vars PROVE IInv'
    OBVIOUS
  <2>2. CASE \E loss \in Losses : Validate(loss)
    BY <2>1, <2>2, ValidateIInv
  <2>3. CASE \E h \in Histories, loss \in Losses : Capture(h, loss)
    BY <2>1, <2>3, CaptureIInv
  <2>4. CASE \E asked, readable \in BOOLEAN : FindSidecar(asked, readable)
    BY <2>1, <2>4, FindSidecarIInv
  <2>5. CASE Load
    BY <2>1, <2>5, LoadIInv
  <2>6. CASE Analyze
    BY <2>1, <2>6, AnalyzeIInv
  <2>7. CASE UNCHANGED vars
    <3>1. UNCHANGED <<manifest, snap>>
      BY <2>7 DEF vars, files
    <3>2. (FailsClosed' <=> FailsClosed) /\ Reports' = Reports
      BY <3>1, ReportsFollow
    <3>. QED  BY <2>1, <2>7, <3>2 DEF IInv, ManifestOK, RawOK, SnapOK, OutcomeOK, vars, files
  <2>. QED  BY <2>1, <2>2, <2>3, <2>4, <2>5, <2>6, <2>7 DEF Next
<1>. QED  BY <1>1, InitIInv, PTL DEF Spec

-----------------------------------------------------------------------------
(* What the probed torch leaves out everywhere is what the manifest denies. *)
LEMMA DenialsTell ==
    ASSUME ManifestOK
    PROVE  /\ LayoutDenied <=> "address" \in Probed
           /\ HistoryDenied <=> Probed \cap NeedsHistory # {}
<1>1. CASE probeLost = None /\ manifest \in {None, Unreadable}
  BY <1>1 DEF LayoutDenied, HistoryDenied, Supplied, Probed
<1>2. CASE probeLost \in Losses /\ manifest = Capabilities(SnapshotOf(Probe, probeLost))
  <2>1. \A f : f \in Probed <=> LeftOut(probeLost, f)
    BY <1>2, NoneAssumption DEF Probed, LeftOut
  <2>. DEFINE c == Capabilities(SnapshotOf(Probe, probeLost))
  <2>2. /\ c.block_explicit_address <=> ~LeftOut(probeLost, "address")
        /\ (/\ c.device_traces_present /\ c.device_traces_action
            /\ c.device_traces_addr /\ c.device_traces_size)
              <=> \A f \in NeedsHistory : ~LeftOut(probeLost, f)
        /\ c \notin {None, Unreadable}
    BY <1>2, CapabilitiesTell
  <2>3. manifest = c
    BY <1>2
  <2>. HIDE DEF c
  <2>4. Supplied
    BY <2>2, <2>3 DEF Supplied
  <2>5. LayoutDenied <=> LeftOut(probeLost, "address")
    BY <2>2, <2>3, <2>4 DEF LayoutDenied
  <2>6. HistoryDenied <=> ~ \A f \in NeedsHistory : ~LeftOut(probeLost, f)
    BY <2>2, <2>3, <2>4 DEF HistoryDenied
  <2>. QED  BY <2>1, <2>5, <2>6
<1>. QED  BY <1>1, <1>2 DEF ManifestOK

(* What is reported says itself what it holds.                             *)
LEMMA ReportsTell == Reports.layout = LayoutAvailable /\ Reports.lifetime = HistoryAvailable
BY DEF Reports

(* A capture that ended without a refusal for its form is one of history's. *)
LEMMA AnalyzedFollows ==
    ASSUME IInv, Reported \/ refused = "layout" \/ (at = "done" /\ refused \notin {"schema", "sidecar"})
    PROVE  /\ history \in Told /\ lost \in Losses /\ raw = SnapshotOf(history, lost)
           /\ snap = Normalize(SnapshotOf(history, lost))
           /\ Reported => refused = None /\ result = Reports /\ ~FailsClosed
           /\ refused = "layout" => ~Reported /\ FailsClosed
           /\ refused = "layout" \/ refused = None
<1>1. OutcomeOK /\ RawOK
  BY DEF IInv
<1>2. at = "done"
  BY <1>1, ReasonsKnown DEF OutcomeOK, Reported
<1>3. \/ refused = "layout" /\ result = None /\ snap = Normalize(raw) /\ FailsClosed
      \/ refused = None /\ result = Reports /\ snap = Normalize(raw) /\ ~FailsClosed
  BY <1>1, <1>2, ReasonsKnown DEF OutcomeOK, Reported
<1>4. history \in Histories /\ lost \in Losses /\ raw = SnapshotOf(history, lost)
  BY <1>1, <1>2 DEF RawOK
<1>5. history \in Told
  BY <1>4 DEF Told
<1>6. snap = Normalize(SnapshotOf(history, lost))
  BY <1>3, <1>4
<1>. QED  BY <1>3, <1>4, <1>5, <1>6, ReasonsKnown DEF Reported

(* DriftFailsClosed, for any histories and segments and whatever the two   *)
(* versions of torch leave out.                                            *)
THEOREM DriftClosed == Spec => []DriftFailsClosed
<1>1. ASSUME IInv
      PROVE  DriftFailsClosed
  <2>. DEFINE lacks  == \E b \in Blocks(raw) : b.addr = None
              denied == "address" \in Probed
  <2>1. ASSUME Reported \/ refused = "layout"
        PROVE  (snap.layout <=> ~lacks) /\ (FailsClosed <=> ~snap.layout /\ ~denied)
    <3>1. /\ history \in Told /\ lost \in Losses /\ raw = SnapshotOf(history, lost)
          /\ snap = Normalize(SnapshotOf(history, lost))
      BY <1>1, <2>1, AnalyzedFollows
    <3>2. snap.layout <=> ~lacks
      BY <3>1, LayoutTells
    <3>3. LayoutDenied <=> denied
      BY <1>1, DenialsTell DEF IInv
    <3>. QED  BY <3>2, <3>3 DEF FailsClosed
  <2>2. Reported => ~FailsClosed
    BY <1>1, AnalyzedFollows
  <2>3. refused = "layout" => FailsClosed
    BY <1>1, AnalyzedFollows
  <2>. HIDE DEF lacks, denied
  <2>4. (Reported /\ lacks => denied) /\ (refused = "layout" => lacks /\ ~denied)
    BY <2>1, <2>2, <2>3
  <2>. QED  BY <2>4 DEF DriftFailsClosed, lacks, denied
<1>. QED  BY <1>1, GateInvariance, PTL

(* OffersWhatBothHave, for any histories and segments and whatever the two *)
(* versions of torch leave out.                                            *)
THEOREM OffersBoth == Spec => []OffersWhatBothHave
<1>1. ASSUME IInv
      PROVE  OffersWhatBothHave
  <2>1. /\ LayoutDenied <=> "address" \in Probed
        /\ HistoryDenied <=> Probed \cap NeedsHistory # {}
    BY <1>1, DenialsTell DEF IInv
  <2>2. ASSUME Reported
        PROVE  /\ result.layout <=> snap.layout /\ "address" \notin Probed
               /\ result.lifetime <=> snap.history /\ Probed \cap NeedsHistory = {}
    <3>1. result = Reports
      BY <1>1, <2>2, AnalyzedFollows
    <3>2. /\ LayoutAvailable <=> snap.layout /\ "address" \notin Probed
          /\ HistoryAvailable <=> snap.history /\ Probed \cap NeedsHistory = {}
      BY <2>1 DEF LayoutAvailable, HistoryAvailable
    <3>. QED  BY <3>1, <3>2, ReportsTell
  <2>3. Reported => /\ result.layout => "address" \notin Probed
                    /\ result.lifetime => Probed \cap NeedsHistory = {}
    BY <2>2
  <2>. DEFINE gone == lost.fields \cup Probed
              taken == \E i \in DOMAIN history : IsAlloc(history[i])
  <2>4. ASSUME at = "done", lost.at = 0, refused \notin {"schema", "sidecar"}
        PROVE  /\ refused = None <=> ("address" \in lost.fields => "address" \in Probed)
               /\ Reported => /\ result.layout <=> "address" \notin gone
                              /\ result.lifetime <=> gone \cap NeedsHistory = {} /\ taken
    <3>1. /\ history \in Told /\ lost \in Losses
          /\ snap = Normalize(SnapshotOf(history, lost))
          /\ refused = "layout" => FailsClosed
          /\ refused = "layout" \/ refused = None
      BY <1>1, <2>4, AnalyzedFollows
    <3>2. refused = None => ~FailsClosed
      BY <1>1, <2>4, ReasonsKnown DEF IInv, OutcomeOK
    <3>3. \A f : LeftOut(lost, f) <=> f \in lost.fields
      BY <2>4 DEF LeftOut
    <3>4. snap.layout <=> "address" \notin lost.fields
      BY <2>4, <3>1, <3>3, LayoutTells
    <3>5. snap.history <=> (\A f \in NeedsHistory : ~LeftOut(lost, f)) /\ taken
      BY <2>4, <3>1, HistoryTells
    <3>6. snap.history <=> lost.fields \cap NeedsHistory = {} /\ taken
      BY <3>3, <3>5
    <3>7. FailsClosed <=> ~snap.layout /\ "address" \notin Probed
      BY <2>1 DEF FailsClosed
    <3>8. refused = None <=> ~FailsClosed
      BY <3>1, <3>2, ReasonsKnown
    <3>9. ASSUME Reported
          PROVE  /\ result.layout <=> "address" \notin gone
                 /\ result.lifetime <=> gone \cap NeedsHistory = {} /\ taken
      <4>. HIDE DEF taken
      <4>1. gone \cap NeedsHistory = {} <=>
               lost.fields \cap NeedsHistory = {} /\ Probed \cap NeedsHistory = {}
        OBVIOUS
      <4>2. "address" \in gone <=> "address" \in lost.fields \/ "address" \in Probed
        OBVIOUS
      <4>. HIDE DEF gone
      <4>. QED  BY <2>2, <3>4, <3>6, <3>9, <4>1, <4>2
    <3>. HIDE DEF gone, taken
    <3>. QED  BY <3>4, <3>7, <3>8, <3>9
  <2>. QED  BY <2>3, <2>4 DEF OffersWhatBothHave
<1>. QED  BY <1>1, GateInvariance, PTL

-----------------------------------------------------------------------------
(* The events that are analyzed.                                           *)

(* A list of the first n numbers, each once.                               *)
Renumbers(f, n) ==
    /\ f \in [1 .. n -> 1 .. n]
    /\ \A x \in 1 .. n : \E k \in 1 .. n : f[k] = x
    /\ \A j, k \in 1 .. n : f[j] = f[k] => j = k

(* It has the numbers up to b before the others.                           *)
SplitsAt(f, n, b) == \A j, k \in 1 .. n : f[j] <= b /\ b < f[k] => j < k

(* Then it has them in its first b places.                                 *)
LEMMA FirstOnes ==
    ASSUME NEW n \in Nat, NEW f, Renumbers(f, n), NEW b \in 1 .. n, SplitsAt(f, n, b)
    PROVE  /\ \A k \in 1 .. b : f[k] \in 1 .. b
           /\ \A x \in 1 .. b : \E k \in 1 .. b : f[k] = x
<1>. USE DEF Renumbers, SplitsAt
<1>. DEFINE D == {k \in 1 .. n : f[k] <= b}
            g == [k \in D |-> f[k]]
<1>0. b \in Nat /\ b <= n /\ \A x \in 1 .. b : x \in 1 .. n
  OBVIOUS
<1>1. IsFiniteSet(D) /\ Cardinality(D) = b
  <2>1. \A k \in D : f[k] \in 1 .. b
    <3>1. \A k \in D : f[k] \in 1 .. n /\ f[k] <= b
      OBVIOUS
    <3>. QED  BY <3>1
  <2>2. \A x \in 1 .. b : \E k \in D : f[k] = x
    <3>1. \A x \in 1 .. b : x <= b
      OBVIOUS
    <3>. QED  BY <1>0, <3>1
  <2>3. \A j, k \in D : f[j] = f[k] => j = k
    OBVIOUS
  <2>. HIDE DEF D
  <2>4. g \in Bijection(D, 1 .. b)
    BY <2>1, <2>2, <2>3 DEF Bijection, Injection, Surjection, IsInjective
  <2>5. ExistsBijection(1 .. b, D)
    BY <2>4, Fun_ExistsBijSymmetric DEF ExistsBijection
  <2>6. IsFiniteSet(1 .. b) /\ Cardinality(1 .. b) = b
    BY <1>0, UpTo
  <2>. QED  BY <2>5, <2>6, FS_Bijection
<1>2. \A k \in D : k <= b
  <2>1. SUFFICES ASSUME NEW k \in D, b < k
                 PROVE  FALSE
    OBVIOUS
  <2>2. ASSUME NEW j \in 1 .. k
        PROVE  j \in D
    <3>1. j \in 1 .. n /\ k \in 1 .. n /\ f[k] <= b /\ ~ k < j
      BY <2>1
    <3>2. f[j] \in Int /\ b \in Int
      BY <3>1
    <3>3. ~ b < f[j]
      BY <3>1
    <3>4. f[j] <= b
      BY ONLY <3>2, <3>3
    <3>. QED  BY <3>1, <3>4
  <2>3. k \in Nat
    OBVIOUS
  <2>. HIDE DEF D
  <2>4. (1 .. k) \in SUBSET D
    BY <2>2
  <2>5. Cardinality(1 .. k) <= Cardinality(D)
    BY <1>1, <2>4, FS_Subset
  <2>6. Cardinality(1 .. k) = k
    BY <2>3, UpTo
  <2>. QED  BY <1>0, <1>1, <2>1, <2>3, <2>5, <2>6
<1>3. D = 1 .. b
  <2>1. \A k \in D : k \in 1 .. b
    BY <1>2
  <2>2. IsFiniteSet(1 .. b) /\ Cardinality(1 .. b) = b
    BY <1>0, UpTo
  <2>. HIDE DEF D
  <2>3. D \in SUBSET (1 .. b)
    BY <2>1
  <2>. QED  BY <1>1, <2>2, <2>3, FS_Subset
<1>4. \A x \in 1 .. b : \E k \in D : f[k] = x
  <2>1. \A x \in 1 .. b : x <= b
    OBVIOUS
  <2>. QED  BY <1>0, <2>1
<1>5. \A k \in D : f[k] \in 1 .. b
  <2>1. \A k \in D : f[k] \in 1 .. n /\ f[k] <= b
    OBVIOUS
  <2>. QED  BY <2>1
<1>. QED  BY ONLY <1>3, <1>4, <1>5

(* The order of the events that are analyzed.                              *)
OrderOf(s) == IF Timed(s) THEN InTime(s) ELSE InFile(s)

(* The order of the events analyzed is total.                              *)
LEMMA OrderTotal ==
    ASSUME NEW h \in Told, NEW loss \in Losses
    PROVE  TotallyOrders(OrderOf(SnapshotOf(h, loss)), Places(SnapshotOf(h, loss)))
<1>1. CASE Timed(SnapshotOf(h, loss))
  BY <1>1, TimeOrders DEF OrderOf
<1>2. CASE ~Timed(SnapshotOf(h, loss))
  BY <1>2, FileOrders DEF OrderOf
<1>. QED  BY <1>1, <1>2

(* Earlier events of a history do not come later in time.                  *)
LEMMA TimesRise ==
    ASSUME NEW h \in Told, NEW i \in DOMAIN h, NEW j \in DOMAIN h, h[i].time < h[j].time
    PROVE  i < j
<1>1. i \in DOMAIN h /\ j \in DOMAIN h /\ h[i].time < h[j].time
  OBVIOUS
<1>2. h[i].time \in Int /\ h[j].time \in Int
  BY ONLY <1>1, HistoryTyped
<1>3. DOMAIN h = 1 .. Len(h)
  BY HistoryTyped
<1>4. i \in Int /\ j \in Int
  BY ONLY <1>1, <1>3
<1>5. j < i => h[j].time <= h[i].time
  BY HistoriesAssumption DEF Told
<1>6. i # j
  BY ONLY <1>1, <1>2
<1>. QED  BY ONLY <1>1, <1>2, <1>4, <1>5, <1>6

(* It keeps the order of the events of a device.                           *)
LEMMA OrderKept ==
    ASSUME NEW h \in Told, NEW loss \in Losses,
           NEW p \in Places(SnapshotOf(h, loss)), NEW q \in Places(SnapshotOf(h, loss)),
           <<p, q>> \in OrderOf(SnapshotOf(h, loss))
    PROVE  LET i == At(SnapshotOf(h, loss), p).id
               j == At(SnapshotOf(h, loss), q).id
           IN  /\ h[i].dev = h[j].dev => i < j
               /\ Timed(SnapshotOf(h, loss)) => h[i].time <= h[j].time
<1>. DEFINE s == SnapshotOf(h, loss)
            i == At(s, p).id
            j == At(s, q).id
<1>1. /\ p[1] \in Int /\ p[2] \in Int /\ q[1] \in Int /\ q[2] \in Int
      /\ i \in DOMAIN h /\ j \in DOMAIN h /\ h[i].dev = p[1] /\ h[j].dev = q[1]
      /\ p[1] = q[1] /\ p[2] < q[2] => i < j
  BY PlacesWritten
<1>2. Timed(s) => At(s, p).time = h[i].time /\ At(s, q).time = h[j].time
  BY TimesWritten
<1>3. <<p, q>> \in OrderOf(s)
  OBVIOUS
<1>4. h[i].time \in Int /\ h[j].time \in Int
  BY <1>1, HistoryTyped
<1>. HIDE DEF s, i, j
<1>5. CASE Timed(s)
  <2>1. h[i].time < h[j].time \/ (h[i].time = h[j].time /\ Earlier(p, q))
    BY <1>2, <1>3, <1>5 DEF OrderOf, InTime
  <2>2. h[i].time < h[j].time => i < j
    BY <1>1, TimesRise
  <2>3. Earlier(p, q) /\ h[i].dev = h[j].dev => i < j
    BY <1>1 DEF Earlier
  <2>. QED  BY <1>4, <1>5, <2>1, <2>2, <2>3 DEF i, j, s
<1>6. CASE ~Timed(s)
  <2>1. Earlier(p, q)
    BY <1>3, <1>6 DEF OrderOf, InFile
  <2>2. h[i].dev = h[j].dev => i < j
    BY <1>1, <2>1 DEF Earlier
  <2>. QED  BY <1>6, <2>2 DEF i, j, s
<1>. QED  BY <1>5, <1>6

(* The events analyzed are those of the history, each once; those of a     *)
(* device are in order, and all of them wherever there are times.          *)
LEMMA EventsWritten ==
    ASSUME NEW h \in Told, NEW loss \in Losses
    PROVE  LET s  == SnapshotOf(h, loss)
               ev == Normalize(s).events
           IN  /\ "traces" \in loss.fields => ev = <<>>
               /\ "traces" \notin loss.fields =>
                    /\ DOMAIN ev = 1 .. Len(h) /\ Len(ev) = Len(h)
                    /\ \A k \in 1 .. Len(h) : /\ ev[k].id \in 1 .. Len(h)
                                              /\ ev[k] = Normal(Written(h, loss, ev[k].id))
                    /\ \A i \in 1 .. Len(h) : \E k \in 1 .. Len(h) : ev[k].id = i
                    /\ \A j, k \in 1 .. Len(h) : ev[j].id = ev[k].id => j = k
                    /\ \A j, k \in 1 .. Len(h) : j < k =>
                          /\ h[ev[j].id].dev = h[ev[k].id].dev => ev[j].id < ev[k].id
                          /\ Timed(s) => h[ev[j].id].time <= h[ev[k].id].time
<1>. DEFINE s == SnapshotOf(h, loss)
            R == OrderOf(s)
            l == List(s, R)
            n == Cardinality(Places(s))
            order == SortedBy(Places(s), R)
            ev == Normalize(s).events
<1>0. h \in Told /\ loss \in Losses /\ TotallyOrders(R, Places(s))
  BY OrderTotal
<1>1. /\ n \in Nat /\ Lists(order, n, Places(s), R) /\ l = [k \in 1 .. n |-> At(s, order[k])]
      /\ \A k \in 1 .. n : l[k].id \in DOMAIN h /\ l[k] = Written(h, loss, l[k].id)
      /\ "traces" \notin loss.fields => n = Len(h) /\ \A i \in DOMAIN h : \E k \in 1 .. n : l[k].id = i
      /\ \A j, k \in 1 .. n : l[j].id = l[k].id => j = k
  BY ONLY <1>0, ListWritten
<1>2. \A p, q \in Places(s) : <<p, q>> \in R =>
         /\ h[At(s, p).id].dev = h[At(s, q).id].dev => At(s, p).id < At(s, q).id
         /\ Timed(s) => h[At(s, p).id].time <= h[At(s, q).id].time
  BY OrderKept
<1>3. "traces" \in loss.fields => n = 0
  BY PlacesFinite, FS_EmptySet
<1>4. Merged(s) = l
  BY DEF Merged, OrderOf
<1>5. ev = [k \in DOMAIN l |-> Normal(l[k])]
  BY <1>4 DEF Normalize
<1>6. DOMAIN h = 1 .. Len(h) /\ Len(h) \in Nat
  BY HistoryTyped
<1>. HIDE DEF s, R, l, n, order, ev
<1>7. DOMAIN l = 1 .. n
  BY <1>1
<1>8. ev = [k \in 1 .. n |-> Normal(l[k])]
  BY <1>5, <1>7
<1>9. CASE "traces" \in loss.fields
  <2>1. 1 .. n = {}
    BY <1>3, <1>9
  <2>2. ev = <<>>
    BY <1>8, <2>1
  <2>. QED  BY <1>9, <2>2 DEF ev, s
<1>10. CASE "traces" \notin loss.fields
  <2>1. n = Len(h)
    BY <1>1, <1>10
  <2>2. \A k \in 1 .. n : ev[k] = Normal(l[k]) /\ ev[k].id = l[k].id
    <3>1. \A e : Normal(e).id = e.id
      BY DEF Normal
    <3>. QED  BY <1>8, <3>1
  <2>3. /\ order \in [1 .. n -> Places(s)]
        /\ \A i, j \in 1 .. n : i < j => <<order[i], order[j]>> \in R
    BY <1>1 DEF Lists
  <2>4. \A k \in 1 .. n : l[k] = At(s, order[k])
    BY <1>1
  <2>5. \A j, k \in 1 .. n : j < k =>
           /\ h[ev[j].id].dev = h[ev[k].id].dev => ev[j].id < ev[k].id
           /\ Timed(s) => h[ev[j].id].time <= h[ev[k].id].time
    <3>1. SUFFICES ASSUME NEW j \in 1 .. n, NEW k \in 1 .. n, j < k
                   PROVE  /\ h[ev[j].id].dev = h[ev[k].id].dev => ev[j].id < ev[k].id
                          /\ Timed(s) => h[ev[j].id].time <= h[ev[k].id].time
      OBVIOUS
    <3>2. order[j] \in Places(s) /\ order[k] \in Places(s) /\ <<order[j], order[k]>> \in R
      BY <2>3, <3>1
    <3>3. ev[j].id = At(s, order[j]).id /\ ev[k].id = At(s, order[k]).id
      BY <2>2, <2>4
    <3>. QED  BY <1>2, <3>2, <3>3
  <2>6. DOMAIN ev = 1 .. n /\ Len(ev) = n
    <3>1. DOMAIN ev = 1 .. n
      BY <1>8
    <3>. QED  BY <1>1, <3>1, <1>8
  <2>7. \A k \in 1 .. n : ev[k].id \in 1 .. n /\ ev[k] = Normal(Written(h, loss, ev[k].id))
    BY <1>1, <1>6, <2>1, <2>2
  <2>8. \A i \in 1 .. n : \E k \in 1 .. n : ev[k].id = i
    BY <1>1, <1>6, <1>10, <2>1, <2>2
  <2>9. \A j, k \in 1 .. n : ev[j].id = ev[k].id => j = k
    BY <1>1, <2>2
  <2>. QED  BY <1>10, <2>1, <2>5, <2>6, <2>7, <2>8, <2>9 DEF ev, s
<1>. QED  BY <1>9, <1>10

(* A version of torch that writes times gives every event one.             *)
LEMMA TimesThere ==
    ASSUME NEW h \in Told, NEW loss \in Losses, "time" \notin loss.fields
    PROVE  Timed(SnapshotOf(h, loss))
<1>. DEFINE s == SnapshotOf(h, loss)
<1>1. ASSUME NEW p \in Places(s)
      PROVE  At(s, p).time # None
  <2>1. At(s, p).id \in DOMAIN h /\ At(s, p) = Written(h, loss, At(s, p).id)
    BY PlacesWritten
  <2>. DEFINE i == At(s, p).id
  <2>. HIDE DEF s, i
  <2>2. At(s, p).time = Left(loss, "time", i, h[i].time)
    BY <2>1 DEF Written, i
  <2>3. At(s, p).time = h[i].time
    BY <2>2 DEF Left
  <2>. QED  BY <2>1, <2>3, ValuesKnown DEF i
<1>. QED  BY <1>1 DEF Timed

(* What is analyzed is what happened.                                      *)
LEMMA NormalizedFollows ==
    ASSUME IInv, snap # None
    PROVE  history \in Told /\ lost \in Losses /\ snap = Normalize(SnapshotOf(history, lost))
<1>1. snap = Normalize(raw) /\ at # "capture"
  BY DEF IInv, SnapOK
<1>. QED  BY <1>1 DEF IInv, RawOK, Told

(* BoundariesSplitTheTrace, for any number of devices.                     *)
THEOREM BoundariesSplit == Spec => []BoundariesSplitTheTrace
<1>1. ASSUME IInv, snap # None, snap.events # <<>>, NEW b \in 1 .. Len(history) - 1,
             ~ \E i, j \in DOMAIN history : history[i].dev # history[j].dev
                  /\ ("time" \in lost.fields \/ history[b].time = history[b + 1].time)
      PROVE  {snap.events[i].id : i \in 1 .. b} = 1 .. b
  <2>. DEFINE n == Len(history)
              id == [k \in 1 .. n |-> snap.events[k].id]
              s == SnapshotOf(history, lost)
  <2>1. history \in Told /\ lost \in Losses /\ snap = Normalize(s)
    BY <1>1, NormalizedFollows
  <2>2. /\ DOMAIN history = 1 .. n /\ n \in Nat
        /\ \A i \in 1 .. n : history[i].time \in Int
    BY <2>1, HistoryTyped
  <2>3. "traces" \notin lost.fields
    BY <1>1, <2>1, EventsWritten
  <2>4. /\ id \in [1 .. n -> 1 .. n]
        /\ \A i \in 1 .. n : \E k \in 1 .. n : id[k] = i
        /\ \A j, k \in 1 .. n : id[j] = id[k] => j = k
        /\ \A j, k \in 1 .. n : j < k =>
              /\ history[id[j]].dev = history[id[k]].dev => id[j] < id[k]
              /\ Timed(s) => history[id[j]].time <= history[id[k]].time
    BY <2>1, <2>3, EventsWritten
  <2>5. \A i \in 1 .. b : i \in 1 .. n /\ snap.events[i].id = id[i]
    BY <2>2
  <2>6. b \in 1 .. n /\ b + 1 \in 1 .. n /\ b \in Int
    BY <2>2
  <2>7. \A i, j \in 1 .. n : i < j => history[i].time <= history[j].time
    BY <2>1, <2>2, HistoriesAssumption DEF Told
  <2>8. "time" \notin lost.fields => Timed(s)
    BY <2>1, TimesThere
  <2>9. \/ \A i, j \in 1 .. n : history[i].dev = history[j].dev
        \/ Timed(s) /\ history[b].time # history[b + 1].time
    BY <1>1, <2>2, <2>8
  <2>. HIDE DEF id, n, s
  <2>10. ASSUME NEW j \in 1 .. n, NEW k \in 1 .. n, id[j] <= b, b < id[k]
         PROVE  j < k
    <3>1. id[j] \in 1 .. n /\ id[k] \in 1 .. n
      BY <2>4
    <3>2. id[j] \in Int /\ id[k] \in Int /\ j \in Int /\ k \in Int
      BY <3>1
    <3>3. j # k
      BY <2>6, <2>10, <3>2
    <3>4. SUFFICES ASSUME k < j
                   PROVE  FALSE
      BY ONLY <3>2, <3>3, <3>4
    <3>5. ~ id[k] < id[j]
      BY ONLY <2>6, <2>10, <3>2
    <3>6. Timed(s) /\ history[b].time # history[b + 1].time
      <4>1. history[id[j]].dev # history[id[k]].dev
        BY <2>4, <3>4, <3>5
      <4>. QED  BY <2>9, <3>1, <4>1
    <3>7. history[id[k]].time <= history[id[j]].time
      BY <2>4, <3>4, <3>6
    <3>8. id[j] = b \/ id[j] < b
      BY ONLY <2>6, <2>10, <3>2
    <3>9. history[id[j]].time <= history[b].time
      BY <2>2, <2>6, <2>7, <3>1, <3>8
    <3>10. id[k] = b + 1 \/ b + 1 < id[k]
      BY ONLY <2>6, <2>10, <3>2
    <3>11. history[b + 1].time <= history[id[k]].time
      BY <2>2, <2>6, <2>7, <3>1, <3>10
    <3>12. history[b].time <= history[b + 1].time
      <4>1. b < b + 1
        BY <2>6
      <4>. QED  BY <2>6, <2>7, <4>1
    <3>13. /\ history[b].time \in Int /\ history[b + 1].time \in Int
           /\ history[id[j]].time \in Int /\ history[id[k]].time \in Int
      BY <2>2, <2>6, <3>1
    <3>. QED  BY ONLY <3>6, <3>7, <3>9, <3>11, <3>12, <3>13
  <2>11. n \in Nat /\ b \in 1 .. n /\ Renumbers(id, n)
    BY ONLY <2>2, <2>4, <2>6 DEF Renumbers
  <2>12. SplitsAt(id, n, b)
    BY ONLY <2>10 DEF SplitsAt
  <2>14. /\ \A k \in 1 .. b : id[k] \in 1 .. b
         /\ \A x \in 1 .. b : \E k \in 1 .. b : id[k] = x
    BY ONLY <2>11, <2>12, FirstOnes
  <2>15. \A i \in 1 .. b : snap.events[i].id = id[i]
    BY <2>5
  <2>16. \A x : x \in {snap.events[i].id : i \in 1 .. b} <=> x \in 1 .. b
    BY ONLY <2>14, <2>15
  <2>. QED  BY ONLY <2>16
<1>2. ASSUME IInv
      PROVE  BoundariesSplitTheTrace
  BY <1>1, <1>2 DEF BoundariesSplitTheTrace
<1>. QED  BY <1>2, GateInvariance, PTL

-----------------------------------------------------------------------------
(* The lifetimes of what is analyzed.                                      *)

(* A trace has the events of a history, each once, those at an address in   *)
(* the order in which they happened, with what the lifetimes need.         *)
Numbering(ev, h) ==
    /\ Len(h) \in Nat /\ DOMAIN h = 1 .. Len(h) /\ DOMAIN ev = 1 .. Len(h) /\ Len(ev) = Len(h)
    /\ \A k \in DOMAIN ev : ev[k].id \in DOMAIN h
    /\ \A i \in DOMAIN h : \E k \in DOMAIN ev : ev[k].id = i
    /\ \A j, k \in DOMAIN ev : ev[j].id = ev[k].id => j = k
InOrder(ev, h) ==
    \A j, k \in DOMAIN ev :
        j < k /\ h[ev[j].id].addr = h[ev[k].id].addr => ev[j].id < ev[k].id
Says(ev, h) ==
    \A k \in DOMAIN ev :
        /\ IsAlloc(ev[k]) <=> IsAlloc(h[ev[k].id])
        /\ IsFree(ev[k]) <=> IsFree(h[ev[k].id])
        /\ IsAlloc(h[ev[k].id]) \/ IsFree(h[ev[k].id]) => ev[k].addr = h[ev[k].id].addr
        /\ IsAlloc(h[ev[k].id]) => ev[k].size = h[ev[k].id].size
        /\ ev[k].addr \in Int /\ ev[k].size \in Int

(* An event of which nothing is missing that is used is told as it was.    *)
LEMMA SaysTrue ==
    ASSUME NEW h \in Told, NEW loss \in Losses, NEW i \in DOMAIN h,
           Normalize(SnapshotOf(h, loss)).history
    PROVE  LET e == Normal(Written(h, loss, i))
           IN  /\ e.id = i /\ e.act = h[i].act
               /\ IsAlloc(h[i]) \/ IsFree(h[i]) => e.addr = h[i].addr
               /\ IsAlloc(h[i]) => e.size = h[i].size
               /\ e.addr \in Int /\ e.size \in Int
<1>. DEFINE w == Written(h, loss, i)
            e == Normal(w)
<1>1. /\ w.act = h[i].act
      /\ IsAlloc(h[i]) \/ IsFree(h[i]) => w.addr = h[i].addr
      /\ IsAlloc(h[i]) => w.size = h[i].size
  BY HistoryTells
<1>2. /\ w.id = i /\ w.addr = Left(loss, "addr", i, h[i].addr)
      /\ w.size = Left(loss, "size", i, h[i].size)
  BY WrittenFields
<1>3. h[i].act # None /\ h[i].addr # None /\ h[i].size # None
  BY ValuesKnown
<1>4. h[i].addr \in Int /\ h[i].size \in Int
  BY HistoryTyped
<1>. HIDE DEF w
<1>5. /\ e.id = w.id
      /\ e.act = IF w.act = None THEN "?" ELSE w.act
      /\ e.addr = IF w.addr = None THEN -1 ELSE w.addr
      /\ e.size = IF w.size = None THEN 0 ELSE w.size
  BY DEF Normal
<1>. HIDE DEF e
<1>6. (w.addr = None \/ w.addr = h[i].addr) /\ (w.size = None \/ w.size = h[i].size)
  BY <1>2, <1>3 DEF Left
<1>. QED  BY <1>1, <1>2, <1>3, <1>4, <1>5, <1>6 DEF e, w

(* The events analyzed tell the history in its order.                      *)
LEMMA EventsTell ==
    ASSUME NEW h \in Told, NEW loss \in Losses, Normalize(SnapshotOf(h, loss)).history
    PROVE  LET ev == Normalize(SnapshotOf(h, loss)).events
           IN  Numbering(ev, h) /\ InOrder(ev, h) /\ Says(ev, h)
<1>. DEFINE s == SnapshotOf(h, loss)
            ev == Normalize(s).events
            n == Len(h)
<1>1. "traces" \notin loss.fields
  BY HistoryTells
<1>2. n \in Nat /\ DOMAIN h = 1 .. n
  BY HistoryTyped
<1>3. /\ DOMAIN ev = 1 .. n /\ Len(ev) = n
      /\ \A k \in 1 .. n : ev[k].id \in 1 .. n /\ ev[k] = Normal(Written(h, loss, ev[k].id))
      /\ \A i \in 1 .. n : \E k \in 1 .. n : ev[k].id = i
      /\ \A j, k \in 1 .. n : ev[j].id = ev[k].id => j = k
      /\ \A j, k \in 1 .. n : j < k => (h[ev[j].id].dev = h[ev[k].id].dev => ev[j].id < ev[k].id)
  BY <1>1, EventsWritten
<1>4. \A i \in 1 .. n : LET e == Normal(Written(h, loss, i))
                        IN  /\ e.act = h[i].act
                            /\ IsAlloc(h[i]) \/ IsFree(h[i]) => e.addr = h[i].addr
                            /\ IsAlloc(h[i]) => e.size = h[i].size
                            /\ e.addr \in Int /\ e.size \in Int
  BY <1>2, SaysTrue
<1>5. \A i, j \in 1 .. n : i < j /\ h[i].addr = h[j].addr => h[i].dev = h[j].dev
  BY <1>2, HistoriesAssumption DEF Told
<1>. HIDE DEF s, ev, n
<1>6. Numbering(ev, h)
  BY <1>2, <1>3 DEF Numbering, n
<1>7. InOrder(ev, h)
  <2>1. SUFFICES ASSUME NEW j \in 1 .. n, NEW k \in 1 .. n, j < k,
                        h[ev[j].id].addr = h[ev[k].id].addr
                 PROVE  ev[j].id < ev[k].id
    BY <1>3 DEF InOrder
  <2>. DEFINE p == ev[j].id
              q == ev[k].id
  <2>2. /\ p \in 1 .. n /\ q \in 1 .. n
        /\ h[p].dev = h[q].dev => p < q
    BY <1>3, <2>1
  <2>3. h[p].addr = h[q].addr
    BY <2>1
  <2>. HIDE DEF p, q
  <2>4. p < q \/ q < p \/ p = q
    BY ONLY <1>2, <2>2
  <2>5. p < q => h[p].dev = h[q].dev
    BY <1>5, <2>2, <2>3
  <2>6. q < p => h[q].dev = h[p].dev
    BY <1>5, <2>2, <2>3
  <2>7. h[p].dev = h[q].dev
    BY ONLY <2>4, <2>5, <2>6
  <2>. QED  BY <2>2, <2>7 DEF p, q
<1>8. Says(ev, h)
  <2>1. SUFFICES ASSUME NEW k \in 1 .. n
                 PROVE  /\ IsAlloc(ev[k]) <=> IsAlloc(h[ev[k].id])
                        /\ IsFree(ev[k]) <=> IsFree(h[ev[k].id])
                        /\ IsAlloc(h[ev[k].id]) \/ IsFree(h[ev[k].id]) => ev[k].addr = h[ev[k].id].addr
                        /\ IsAlloc(h[ev[k].id]) => ev[k].size = h[ev[k].id].size
                        /\ ev[k].addr \in Int /\ ev[k].size \in Int
    BY <1>3 DEF Says
  <2>. DEFINE i == ev[k].id
              e == Normal(Written(h, loss, i))
  <2>2. i \in 1 .. n /\ ev[k] = e
    BY <1>3
  <2>3. /\ e.act = h[i].act
        /\ IsAlloc(h[i]) \/ IsFree(h[i]) => e.addr = h[i].addr
        /\ IsAlloc(h[i]) => e.size = h[i].size
        /\ e.addr \in Int /\ e.size \in Int
    BY <1>4, <2>2
  <2>. HIDE DEF e, i
  <2>4. (IsAlloc(e) <=> IsAlloc(h[i])) /\ (IsFree(e) <=> IsFree(h[i]))
    BY <2>3 DEF IsAlloc, IsFree
  <2>. QED  BY <2>2, <2>3, <2>4 DEF i
<1>. QED  BY <1>6, <1>7, <1>8 DEF s, ev

(* At one address, later in the trace is later in the history.             *)
LEMMA OrderTells ==
    ASSUME NEW ev, NEW h, Numbering(ev, h), InOrder(ev, h), NEW j \in DOMAIN ev, NEW k \in DOMAIN ev,
           h[ev[j].id].addr = h[ev[k].id].addr
    PROVE  (j < k <=> ev[j].id < ev[k].id) /\ (j = k <=> ev[j].id = ev[k].id)
<1>0. /\ j \in 1 .. Len(h) /\ k \in 1 .. Len(h) /\ Len(h) \in Nat
      /\ ev[j].id \in 1 .. Len(h) /\ ev[k].id \in 1 .. Len(h)
      /\ ev[j].id = ev[k].id => j = k
  BY DEF Numbering
<1>1. /\ j \in Int /\ k \in Int /\ ev[j].id \in Int /\ ev[k].id \in Int
      /\ ev[j].id = ev[k].id => j = k
  BY ONLY <1>0
<1>2. (j < k => ev[j].id < ev[k].id) /\ (k < j => ev[k].id < ev[j].id)
  BY DEF InOrder
<1>3. j = k => ev[j].id = ev[k].id
  OBVIOUS
<1>. QED  BY ONLY <1>1, <1>2, <1>3

(* The trace can be read by the pass that pairs allocations and frees.     *)
LEMMA TraceReadable ==
    ASSUME NEW h \in Told, NEW ev, Numbering(ev, h), InOrder(ev, h), Says(ev, h)
    PROVE  Readable(ev) /\ FreedBetween(ev)
<1>1. Readable(ev)
  BY DEF Numbering, Says, Readable
<1>2. ASSUME NEW i \in Births(ev), NEW j \in Births(ev), i < j, ev[i].addr = ev[j].addr
      PROVE  \E k \in i + 1 .. j - 1 : FreesAt(ev[k], ev[i].addr)
  <2>. DEFINE p == ev[i].id
              q == ev[j].id
  <2>1. i \in DOMAIN ev /\ j \in DOMAIN ev /\ IsAlloc(ev[i]) /\ IsAlloc(ev[j])
    BY DEF Births
  <2>2. p \in DOMAIN h /\ q \in DOMAIN h
    BY <2>1 DEF Numbering
  <2>3. IsAlloc(h[p]) /\ IsAlloc(h[q]) /\ ev[i].addr = h[p].addr /\ ev[j].addr = h[q].addr
    BY <2>1 DEF Says
  <2>4. h[p].addr = h[q].addr
    BY <1>2, <2>3
  <2>5. p < q
    BY <1>2, <2>1, <2>4, OrderTells
  <2>. HIDE DEF p, q
  <2>6. PICK r \in p + 1 .. q - 1 : IsFree(h[r]) /\ h[r].addr = h[p].addr
    BY <2>2, <2>3, <2>4, <2>5, HistoriesAssumption DEF Told
  <2>7. p \in Int /\ q \in Int /\ r \in Int /\ p < r /\ r < q
    <3>1. p \in 1 .. Len(h) /\ q \in 1 .. Len(h) /\ Len(h) \in Nat
      BY <2>2 DEF Numbering
    <3>2. r \in p + 1 .. q - 1
      OBVIOUS
    <3>. QED  BY ONLY <3>1, <3>2
  <2>8. r \in DOMAIN h
    <3>1. p \in 1 .. Len(h) /\ q \in 1 .. Len(h) /\ Len(h) \in Nat
      BY <2>2 DEF Numbering
    <3>2. r \in 1 .. Len(h)
      BY ONLY <2>7, <3>1
    <3>. QED  BY <3>2 DEF Numbering
  <2>9. PICK k \in DOMAIN ev : ev[k].id = r
    BY <2>8 DEF Numbering
  <2>10. IsFree(ev[k]) /\ ev[k].addr = ev[i].addr
    BY <2>3, <2>6, <2>9 DEF Says
  <2>11. i < k /\ k < j
    BY <2>1, <2>4, <2>6, <2>7, <2>9, OrderTells DEF p, q
  <2>12. i \in Int /\ j \in Int /\ k \in Int
    BY <2>1, <2>9 DEF Numbering
  <2>13. k \in i + 1 .. j - 1
    BY ONLY <2>11, <2>12
  <2>. QED  BY <2>10, <2>13 DEF FreesAt
<1>. QED  BY <1>1, <1>2 DEF FreedBetween

(* The lifetime that event i of a history begins.                          *)
FreesOf(h, i) == {j \in DOMAIN h : i < j /\ IsFree(h[j]) /\ h[j].addr = h[i].addr}
LifeOf(h, i) ==
    [addr |-> h[i].addr, size |-> h[i].size, born |-> i,
     freed |-> IF FreesOf(h, i) = {} THEN None ELSE Min(FreesOf(h, i))]

(* A bar that is reported, with the events that began and ended it.        *)
EventAt(ev, ord) == IF ord = Len(ev) THEN None ELSE ev[ord + 1].id
ToldBy(ev, a) ==
    [addr |-> a.addr, size |-> a.size, born |-> EventAt(ev, a.alloc), freed |-> EventAt(ev, a.free)]

(* The event that ends a bar is the first free of its allocation.          *)
LEMMA EndTells ==
    ASSUME NEW h \in Told, NEW ev, Numbering(ev, h), InOrder(ev, h), Says(ev, h),
           NEW k \in Births(ev), NEW f \in Nat,
           \/ Untouched(ev, k, Len(ev)) /\ f = Len(ev)
           \/ f + 1 \in DOMAIN ev /\ FreedBy(ev, k, f + 1)
    PROVE  EventAt(ev, f) = LifeOf(h, ev[k].id).freed
<1>. DEFINE i == ev[k].id
            n == Len(h)
            F == FreesOf(h, i)
<1>1. k \in DOMAIN ev /\ IsAlloc(ev[k])
  BY DEF Births
<1>2. i \in DOMAIN h /\ ev[k].addr = h[i].addr
  BY <1>1 DEF Numbering, Says
<1>3. n \in Nat /\ DOMAIN h = 1 .. n /\ DOMAIN ev = 1 .. n /\ Len(ev) = n
  BY DEF Numbering
<1>. HIDE DEF n
<1>4. k \in 1 .. n /\ k \in Int
  <2>1. k \in 1 .. n
    BY <1>1, <1>3
  <2>. QED  BY ONLY <1>3, <2>1
<1>5. ASSUME NEW j \in F
      PROVE  \E m \in DOMAIN ev : /\ ev[m].id = j /\ k < m /\ m \in k + 1 .. n
                                  /\ FreesAt(ev[m], ev[k].addr)
  <2>1. j \in DOMAIN h /\ i < j /\ IsFree(h[j]) /\ h[j].addr = h[i].addr
    BY DEF FreesOf
  <2>2. PICK m \in DOMAIN ev : ev[m].id = j
    BY <2>1 DEF Numbering
  <2>3. FreesAt(ev[m], ev[k].addr)
    BY <1>2, <2>1, <2>2 DEF Says, FreesAt
  <2>4. k < m
    BY <1>1, <2>1, <2>2, OrderTells
  <2>5. m \in 1 .. n
    BY <1>3
  <2>6. m \in k + 1 .. n
    BY ONLY <1>3, <1>4, <2>4, <2>5
  <2>. QED  BY <2>2, <2>3, <2>4, <2>6
<1>6. ASSUME NEW m \in DOMAIN ev, k < m, FreesAt(ev[m], ev[k].addr)
      PROVE  ev[m].id \in F
  <2>1. ev[m].id \in DOMAIN h /\ IsFree(h[ev[m].id]) /\ ev[m].addr = h[ev[m].id].addr
    BY <1>6 DEF Numbering, Says, FreesAt
  <2>2. h[ev[m].id].addr = h[i].addr
    BY <1>2, <1>6, <2>1 DEF FreesAt
  <2>3. i < ev[m].id
    BY <1>1, <1>6, <2>2, OrderTells
  <2>. QED  BY <2>1, <2>2, <2>3 DEF FreesOf
<1>7. LifeOf(h, i).freed = IF F = {} THEN None ELSE Min(F)
  BY DEF LifeOf
<1>8. CASE Untouched(ev, k, Len(ev)) /\ f = Len(ev)
  <2>1. F = {}
    BY <1>3, <1>5, <1>8 DEF Untouched
  <2>. QED  BY <1>7, <1>8, <2>1 DEF EventAt
<1>9. CASE f + 1 \in DOMAIN ev /\ FreedBy(ev, k, f + 1)
  <2>. DEFINE x == ev[f + 1].id
  <2>1. k < f + 1 /\ FreesAt(ev[f + 1], ev[k].addr) /\ Untouched(ev, k, f)
    <3>1. (f + 1) - 1 = f
      OBVIOUS
    <3>2. f + 1 > k <=> k < f + 1
      BY <1>4
    <3>. QED  BY <1>9, <3>1, <3>2 DEF FreedBy
  <2>2. x \in F
    BY <1>6, <1>9, <2>1
  <2>3. F \in SUBSET Int
    <3>1. \A j \in F : j \in 1 .. n
      BY <1>3 DEF FreesOf
    <3>2. \A j \in 1 .. n : j \in Int
      OBVIOUS
    <3>. QED  BY <3>1, <3>2
  <2>4. ASSUME NEW j \in F
        PROVE  x <= j
    <3>1. PICK m \in DOMAIN ev : /\ ev[m].id = j /\ k < m /\ m \in k + 1 .. n
                                 /\ FreesAt(ev[m], ev[k].addr)
      BY <1>5
    <3>2. m \notin k + 1 .. f
      BY <2>1, <3>1 DEF Untouched
    <3>3. m \in Int /\ f \in Int
      BY <3>1
    <3>4. f + 1 = m \/ f + 1 < m
      BY ONLY <1>4, <3>1, <3>2, <3>3
    <3>5. h[x].addr = h[j].addr
      BY <2>2 DEF FreesOf
    <3>6. x = j \/ x < j
      BY <1>9, <3>1, <3>4, <3>5, OrderTells
    <3>7. x \in Int /\ j \in Int
      BY <2>2, <2>3
    <3>. QED  BY ONLY <3>6, <3>7
  <2>5. Min(F) = x
    BY <2>2, <2>3, <2>4, MinIs
  <2>6. f # Len(ev)
    <3>1. f + 1 \in 1 .. n
      BY <1>3, <1>9
    <3>2. f \in Int /\ n \in Int
      BY <1>3
    <3>3. f # n
      BY ONLY <3>1, <3>2
    <3>. QED  BY <1>3, <3>3
  <2>. QED  BY <1>7, <2>2, <2>5, <2>6 DEF EventAt
<1>. QED  BY <1>8, <1>9

(* A bar tells the lifetime of its allocation.                             *)
LEMMA BarTells ==
    ASSUME NEW h \in Told, NEW ev, Numbering(ev, h), InOrder(ev, h), Says(ev, h),
           NEW a \in Extract(ev)
    PROVE  \E k \in Births(ev) : a.alloc = k - 1 /\ a.addr = ev[k].addr
                                 /\ ToldBy(ev, a) = LifeOf(h, ev[k].id)
<1>1. PICK k \in Births(ev), f \in Nat :
         /\ a = [addr |-> ev[k].addr, size |-> ev[k].size, alloc |-> k - 1, free |-> f]
         /\ \/ Untouched(ev, k, Len(ev)) /\ f = Len(ev)
            \/ f + 1 \in DOMAIN ev /\ FreedBy(ev, k, f + 1)
  BY TraceReadable, ExtractPairsFrees
<1>2. a.addr = ev[k].addr /\ a.size = ev[k].size /\ a.alloc = k - 1 /\ a.free = f
  BY <1>1
<1>3. k \in DOMAIN ev /\ IsAlloc(ev[k])
  BY DEF Births
<1>4. ev[k].addr = h[ev[k].id].addr /\ ev[k].size = h[ev[k].id].size
  BY <1>3 DEF Says
<1>5. EventAt(ev, k - 1) = ev[k].id
  <2>1. k \in 1 .. Len(ev) /\ Len(ev) \in Nat
    BY <1>3 DEF Numbering
  <2>2. k - 1 # Len(ev) /\ (k - 1) + 1 = k
    BY ONLY <2>1
  <2>. QED  BY <2>2 DEF EventAt
<1>6. EventAt(ev, f) = LifeOf(h, ev[k].id).freed
  BY <1>1, EndTells
<1>7. LifeOf(h, ev[k].id) = [addr |-> h[ev[k].id].addr, size |-> h[ev[k].id].size, born |-> ev[k].id,
                             freed |-> LifeOf(h, ev[k].id).freed]
  BY DEF LifeOf
<1>8. ToldBy(ev, a) = [addr |-> a.addr, size |-> a.size, born |-> EventAt(ev, a.alloc),
                       freed |-> EventAt(ev, a.free)]
  BY DEF ToldBy
<1>. QED  BY <1>2, <1>4, <1>5, <1>6, <1>7, <1>8

(* Every lifetime of the history is told by a bar.                         *)
LEMMA LifeTold ==
    ASSUME NEW h \in Told, NEW ev, Numbering(ev, h), InOrder(ev, h), Says(ev, h),
           NEW i \in DOMAIN h, IsAlloc(h[i])
    PROVE  \E a \in Extract(ev) : a.addr = h[i].addr /\ ToldBy(ev, a) = LifeOf(h, i)
<1>1. PICK k \in DOMAIN ev : ev[k].id = i
  BY DEF Numbering
<1>2. /\ IsAlloc(ev[k]) /\ ev[k].addr = h[i].addr /\ ev[k].size = h[i].size
      /\ ev[k].addr \in Int /\ ev[k].size \in Int
  BY <1>1 DEF Says
<1>3. h[i].addr \in Nat /\ h[i].size > 0
  BY HistoryTyped, HistoriesAssumption DEF Told
<1>4. k \in Births(ev)
  BY <1>2, <1>3 DEF Births
<1>5. PICK a \in Extract(ev) : a.alloc = k - 1
  <2>. DEFINE freed == Pass(ev)[Len(ev)].freed
              a == [addr |-> ev[k].addr, size |-> ev[k].size, alloc |-> k - 1, free |-> freed[k]]
  <2>1. a \in Extract(ev)
    BY <1>4 DEF Extract
  <2>2. a.alloc = k - 1
    OBVIOUS
  <2>. QED  BY <2>1, <2>2
<1>6. PICK m \in Births(ev) : a.alloc = m - 1 /\ a.addr = ev[m].addr
                              /\ ToldBy(ev, a) = LifeOf(h, ev[m].id)
  BY BarTells
<1>7. m = k
  <2>1. m \in 1 .. Len(ev) /\ k \in 1 .. Len(ev)
    BY <1>6 DEF Births, Numbering
  <2>2. m - 1 = k - 1
    BY <1>5, <1>6
  <2>. QED  BY ONLY <2>1, <2>2
<1>. QED  BY <1>1, <1>2, <1>6, <1>7

(* LifetimesAreTrue, for histories of any length.                          *)
THEOREM LifetimesTrue == Spec => []LifetimesAreTrue
<1>1. ASSUME IInv, Reported, result.lifetime
      PROVE  Shown = {ToldBy(snap.events, a) : a \in result.bars}
  <2>. DEFINE h == history
              ev == snap.events
              s == SnapshotOf(history, lost)
  <2>1. h \in Told /\ lost \in Losses /\ snap = Normalize(s) /\ result = Reports
    BY <1>1, AnalyzedFollows
  <2>2. HistoryAvailable
    BY <1>1, <2>1, ReportsTell
  <2>3. Normalize(s).history
    BY <2>1, <2>2 DEF HistoryAvailable
  <2>4. Numbering(ev, h) /\ InOrder(ev, h) /\ Says(ev, h)
    BY <2>1, <2>3, EventsTell
  <2>5. result.bars = {a \in Extract(ev) : InGraph(a.addr)}
    BY <2>1, <2>2 DEF Reports, Bars
  <2>6. LivesOf(h) = {LifeOf(h, i) : i \in {j \in DOMAIN h : IsAlloc(h[j])}}
    BY DEF LivesOf, LifeOf, FreesOf
  <2>7. \A i : LifeOf(h, i).addr = h[i].addr
    BY DEF LifeOf
  <2>8. \A v : v \in Shown <=> \E i \in DOMAIN h : IsAlloc(h[i]) /\ InGraph(h[i].addr) /\ v = LifeOf(h, i)
    BY <2>6, <2>7 DEF Shown
  <2>. HIDE DEF h, ev, s
  <2>9. ASSUME NEW i \in DOMAIN h, IsAlloc(h[i]), InGraph(h[i].addr)
        PROVE  \E a \in result.bars : LifeOf(h, i) = ToldBy(ev, a)
    BY <2>1, <2>4, <2>5, <2>9, LifeTold
  <2>10. ASSUME NEW a \in result.bars
         PROVE  \E i \in DOMAIN h : IsAlloc(h[i]) /\ InGraph(h[i].addr) /\ ToldBy(ev, a) = LifeOf(h, i)
    <3>1. a \in Extract(ev) /\ InGraph(a.addr)
      BY <2>5
    <3>2. PICK k \in Births(ev) : a.addr = ev[k].addr /\ ToldBy(ev, a) = LifeOf(h, ev[k].id)
      BY <2>1, <2>4, <3>1, BarTells
    <3>3. k \in DOMAIN ev /\ IsAlloc(ev[k])
      BY DEF Births
    <3>4. ev[k].id \in DOMAIN h /\ IsAlloc(h[ev[k].id]) /\ ev[k].addr = h[ev[k].id].addr
      BY <2>4, <3>3 DEF Numbering, Says
    <3>. QED  BY <3>1, <3>2, <3>4
  <2>11. \A v : v \in Shown <=> v \in {ToldBy(ev, a) : a \in result.bars}
    BY <2>8, <2>9, <2>10
  <2>. QED  BY <2>11 DEF ev
<1>2. ASSUME IInv
      PROVE  LifetimesAreTrue
  BY <1>1, <1>2 DEF LifetimesAreTrue, ToldBy, EventAt
<1>. QED  BY <1>2, GateInvariance, PTL

-----------------------------------------------------------------------------
(* The layout that is reported.                                            *)

(* A block of a snapshot is that of the segment, but for its address.      *)
LEMMA BlockKept ==
    ASSUME NEW h \in Told, NEW loss \in Losses, NEW i \in DOMAIN Segments,
           NEW k \in DOMAIN BlocksOf(Segments[i], h)
    PROVE  LET b == BlocksOf(Segments[i], h)[k]
               w == SnapshotOf(h, loss).segments[i].blocks[k]
           IN  /\ w.addr = Left(loss, "address", k, b.addr)
               /\ w.size = b.size /\ w.active = b.active
               /\ w \in Blocks(SnapshotOf(h, loss))
<1>. DEFINE s == SnapshotOf(h, loss)
            bs(j) == BlocksOf(Segments[j], h)
            block(b, m) == [b EXCEPT !.addr = Left(loss, "address", m, b.addr)]
<1>1. /\ DOMAIN s.segments = DOMAIN Segments
      /\ s.segments[i].blocks = [m \in DOMAIN bs(i) |-> block(bs(i)[m], m)]
  BY DEF SnapshotOf
<1>2. "addr" \in DOMAIN bs(i)[k]
  BY BlocksPlaced
<1>3. /\ block(bs(i)[k], k).addr = Left(loss, "address", k, bs(i)[k].addr)
      /\ block(bs(i)[k], k).size = bs(i)[k].size
      /\ block(bs(i)[k], k).active = bs(i)[k].active
  BY <1>2
<1>. HIDE DEF s, bs, block
<1>4. k \in DOMAIN bs(i)
  BY DEF bs
<1>5. s.segments[i].blocks[k] = block(bs(i)[k], k)
  BY <1>1, <1>4
<1>6. s.segments[i].blocks[k] \in Blocks(s)
  BY <1>1, <1>4 DEF Blocks, ToSet
<1>. QED  BY <1>3, <1>5, <1>6 DEF s, bs

(* BlocksAreTrue, the part of LayoutIsTrue that says where the blocks are,  *)
(* for any segments and histories.                                         *)
THEOREM BlocksTrue == Spec => []BlocksAreTrue
<1>1. ASSUME IInv, Reported, NEW i \in DOMAIN Segments
      PROVE  result.segments[i].blocks =
                IF result.layout
                THEN {[offset |-> b.addr - Segments[i].addr, size |-> b.size, active |-> b.active] :
                        b \in ToSet(BlocksOf(Segments[i], history))}
                ELSE {}
  <2>. DEFINE s  == SnapshotOf(history, lost)
              bs == BlocksOf(Segments[i], history)
              ws == s.segments[i].blocks
              true(b) == [offset |-> b.addr - Segments[i].addr, size |-> b.size, active |-> b.active]
              told(b) == [offset |-> Offset(b, s.segments[i]), size |-> b.size, active |-> b.active]
  <2>1. /\ history \in Told /\ lost \in Losses /\ snap = Normalize(s) /\ result = Reports
        /\ result.layout = LayoutAvailable
    BY <1>1, AnalyzedFollows, ReportsTell
  <2>2. snap.segments = s.segments
    BY <2>1 DEF Normalize
  <2>3. /\ DOMAIN s.segments = DOMAIN Segments /\ s.segments[i].addr = Segments[i].addr
        /\ DOMAIN ws = DOMAIN bs
    BY DEF SnapshotOf
  <2>4. result.segments[i] = Summary(s.segments[i], LayoutAvailable)
    BY <2>1, <2>2, <2>3 DEF Reports, Summaries
  <2>5. result.segments[i].blocks = IF LayoutAvailable THEN {told(b) : b \in ToSet(ws)} ELSE {}
    <3>1. \A seg, w : Summary(seg, w).blocks =
             IF w THEN {[offset |-> Offset(b, seg), size |-> b.size, active |-> b.active] :
                          b \in ToSet(seg.blocks)}
             ELSE {}
      BY DEF Summary
    <3>2. Summary(s.segments[i], LayoutAvailable).blocks =
             IF LayoutAvailable
             THEN {[offset |-> Offset(b, s.segments[i]), size |-> b.size, active |-> b.active] :
                     b \in ToSet(s.segments[i].blocks)}
             ELSE {}
      BY ONLY <3>1
    <3>. QED  BY ONLY <2>4, <3>2
  <2>6. ASSUME LayoutAvailable, NEW k \in DOMAIN bs
        PROVE  told(ws[k]) = true(bs[k])
    <3>1. \A b \in Blocks(s) : b.addr # None
      BY <2>1, <2>6, LayoutTells DEF LayoutAvailable
    <3>2. /\ ws[k].addr = Left(lost, "address", k, bs[k].addr) /\ ws[k] \in Blocks(s)
          /\ ws[k].size = bs[k].size /\ ws[k].active = bs[k].active
      BY <2>1, BlockKept
    <3>3. ws[k].addr # None
      BY <3>1, <3>2
    <3>4. ws[k].addr = bs[k].addr
      BY ONLY <3>2, <3>3 DEF Left
    <3>5. Offset(ws[k], s.segments[i]) = bs[k].addr - Segments[i].addr
      BY <2>3, <3>3, <3>4 DEF Offset
    <3>. QED  BY <3>2, <3>5
  <2>. HIDE DEF s, bs, ws, true, told
  <2>7. CASE LayoutAvailable
    <3>1. \A x : x \in {told(b) : b \in ToSet(ws)} <=> \E k \in DOMAIN bs : x = told(ws[k])
      BY <2>3 DEF ToSet
    <3>2. \A x : x \in {true(b) : b \in ToSet(bs)} <=> \E k \in DOMAIN bs : x = true(bs[k])
      BY DEF ToSet
    <3>3. {told(b) : b \in ToSet(ws)} = {true(b) : b \in ToSet(bs)}
      BY <2>6, <2>7, <3>1, <3>2
    <3>4. result.segments[i].blocks = {true(b) : b \in ToSet(bs)} /\ result.layout
      BY <2>1, <2>5, <2>7, <3>3
    <3>. QED  BY <3>4 DEF true, bs
  <2>8. CASE ~LayoutAvailable
    <3>1. result.segments[i].blocks = {} /\ ~result.layout
      BY <2>1, <2>5, <2>8
    <3>. QED  BY <3>1
  <2>. QED  BY <2>7, <2>8
<1>2. ASSUME IInv
      PROVE  BlocksAreTrue
  BY <1>1, <1>2 DEF BlocksAreTrue
<1>. QED  BY <1>2, GateInvariance, PTL

-----------------------------------------------------------------------------
(* The self-check of the validator.                                        *)

(* The sizes of the blocks before one lead from the start of the segment to *)
(* its address.                                                            *)
LEMMA BlocksFollow ==
    ASSUME NEW seg, NEW h, NEW bs, NEW m, Tile(bs, m, seg, h), seg.addr \in Int,
           NEW f, \A k \in 1 .. m : f[k] = bs[k].size,
           NEW k \in 1 .. m, bs[k].addr < seg.addr + seg.size, seg.size \in Int
    PROVE  seg.addr + SumFunctionOnSet(f, 1 .. k - 1) = bs[k].addr
<1>. DEFINE end == seg.addr + seg.size
            follows(n) == n + 1 \in 1 .. m /\ bs[n + 1].addr < end
                            => seg.addr + SumFunctionOnSet(f, 1 .. n) = bs[n + 1].addr
            F == {n \in Nat : follows(n)}
<1>1. /\ m \in Nat \ {0} /\ bs[1].addr = seg.addr
      /\ \A j \in 1 .. m : bs[j].addr \in Int /\ bs[j].size \in Int
      /\ \A i, j \in 1 .. m : i < j => bs[i].addr < bs[j].addr
      /\ \A j \in 1 .. m - 1 : bs[j + 1].addr < end => bs[j].addr + bs[j].size = bs[j + 1].addr
  BY DEF Tile
<1>2. end \in Int
  OBVIOUS
<1>. HIDE DEF end
<1>3. 0 \in F
  <2>1. 1 .. 0 = {}
    OBVIOUS
  <2>2. SumFunctionOnSet(f, 1 .. 0) = 0
    BY <2>1, SumOfNothing
  <2>. QED  BY <1>1, <2>2
<1>4. ASSUME NEW n \in Nat, n \in F
      PROVE  n + 1 \in F
  <2>1. SUFFICES ASSUME n + 2 \in 1 .. m, bs[n + 2].addr < end
                 PROVE  seg.addr + SumFunctionOnSet(f, 1 .. n + 1) = bs[n + 2].addr
    <3>1. n + 1 \in Nat /\ (n + 1) + 1 = n + 2
      OBVIOUS
    <3>. QED  BY <3>1
  <2>2. n + 1 \in 1 .. m /\ n + 1 \in 1 .. m - 1 /\ (n + 1) + 1 = n + 2 /\ n + 1 < n + 2
    BY <1>1, <2>1
  <2>3. /\ bs[n + 1].addr < bs[n + 2].addr /\ bs[n + 1].addr \in Int /\ bs[n + 2].addr \in Int
        /\ bs[n + 1].addr + bs[n + 1].size = bs[n + 2].addr /\ bs[n + 1].size \in Int
    BY <1>1, <2>1, <2>2
  <2>4. bs[n + 1].addr < end
    BY <1>2, <2>1, <2>3
  <2>5. seg.addr + SumFunctionOnSet(f, 1 .. n) = bs[n + 1].addr
    BY <1>4, <2>2, <2>4
  <2>6. IsFiniteSet(1 .. n) /\ n + 1 \notin 1 .. n /\ 1 .. n + 1 = (1 .. n) \cup {n + 1}
    BY UpTo
  <2>7. f[n + 1] = bs[n + 1].size /\ \A j \in 1 .. n : f[j] \in Int
    <3>1. \A j \in 1 .. n : j \in 1 .. m
      BY <1>1, <2>2
    <3>. QED  BY <1>1, <2>2, <3>1
  <2>8. f[n + 1] \in Int
    BY <2>3, <2>7
  <2>9. SumFunctionOnSet(f, 1 .. n + 1) = f[n + 1] + SumFunctionOnSet(f, 1 .. n)
    BY <2>6, <2>7, <2>8, SumWithOneMore
  <2>10. SumFunctionOnSet(f, 1 .. n) \in Int
    BY <2>6, <2>7, SumType
  <2>. QED  BY <2>3, <2>5, <2>7, <2>9, <2>10
<1>5. Nat \subseteq F
  <2>. HIDE DEF F
  <2>. QED  BY <1>3, <1>4, SetInduction
<1>6. k - 1 \in Nat /\ (k - 1) + 1 = k
  BY <1>1
<1>. QED  BY <1>5, <1>6 DEF end

(* What the validator holds begins a block of one of the segments, and the *)
(* place derived for that block is its address, left out or not.           *)
LEMMA HeldLocated ==
    ASSUME NEW loss \in Losses, NEW p \in Known
    PROVE  Located(SnapshotOf(Probe, loss), p)
<1>. DEFINE s == SnapshotOf(Probe, loss)
<1>1. Probe \in Told
  BY DEF Told
<1>2. PICK a \in LivesOf(Probe) : a.freed = None /\ a.addr = p
  BY DEF Known
<1>3. PICK i \in DOMAIN Segments : Segments[i].addr <= p /\ p < Segments[i].addr + Segments[i].size
  BY <1>2, ProbeAssumption
<1>. DEFINE seg == Segments[i]
            bs  == BlocksOf(seg, Probe)
            w   == s.segments[i]
<1>4. seg.addr \in Int /\ seg.size \in Int
  <2>1. Segments[i] \in [addr : Nat, size : Nat \ {0}, graph : BOOLEAN]
    BY SegmentsTyped
  <2>. QED  BY <2>1
<1>5. a \in HeldIn(seg, Probe)
  BY <1>2, <1>3 DEF HeldIn
<1>6. PICK m : Tile(bs, m, seg, Probe)
  BY <1>1, BlocksTile
<1>7. PICK k \in 1 .. m : bs[k].addr = p
  BY <1>2, <1>5, <1>6 DEF Tile
<1>8. DOMAIN bs = 1 .. m
  BY <1>6 DEF Tile
<1>9. /\ w \in ToSet(s.segments) /\ w.addr = seg.addr /\ DOMAIN w.blocks = DOMAIN bs
  BY DEF SnapshotOf, ToSet
<1>10. \A j \in 1 .. m : /\ w.blocks[j].addr = Left(loss, "address", j, bs[j].addr)
                         /\ w.blocks[j].size = bs[j].size
  BY <1>1, <1>8, BlockKept
<1>. DEFINE f == [j \in DOMAIN w.blocks |-> w.blocks[j].size]
<1>11. \A j \in 1 .. m : f[j] = bs[j].size
  BY <1>8, <1>9, <1>10
<1>12. Derived(w, k) = IF w.blocks[k].addr # None THEN w.blocks[k].addr
                       ELSE w.addr + SumFunctionOnSet(f, 1 .. k - 1)
  BY DEF Derived
<1>. HIDE DEF f, bs, w, s, seg
<1>13. seg.addr + SumFunctionOnSet(f, 1 .. k - 1) = p
  BY <1>3, <1>4, <1>6, <1>7, <1>11, BlocksFollow DEF seg
<1>14. w.blocks[k].addr # None => w.blocks[k].addr = p
  BY <1>7, <1>10 DEF Left
<1>15. Derived(w, k) = p
  BY <1>9, <1>12, <1>13, <1>14
<1>. QED  BY <1>8, <1>9, <1>15 DEF Located, s

(* SelfCheckFindsAllocations, for any segments, probe and losses.          *)
THEOREM SelfCheckFinds == Spec => []SelfCheckFindsAllocations
<1>1. Init => SelfCheckFindsAllocations
  BY DEF Init, SelfCheckFindsAllocations
<1>2. SelfCheckFindsAllocations /\ [Next]_vars => SelfCheckFindsAllocations'
  <2>. SUFFICES ASSUME SelfCheckFindsAllocations, [Next]_vars
                PROVE  SelfCheckFindsAllocations'
    OBVIOUS
  <2>1. ASSUME NEW loss \in Losses, Validate(loss)
        PROVE  SelfCheckFindsAllocations'
    <3>1. \A p \in Known : Located(SnapshotOf(Probe, loss), p)
      BY HeldLocated
    <3>2. validated' = 0
      BY <2>1, <3>1 DEF Validate
    <3>. QED  BY <3>2 DEF SelfCheckFindsAllocations
  <2>2. ASSUME UNCHANGED validated
        PROVE  SelfCheckFindsAllocations'
    BY <2>2 DEF SelfCheckFindsAllocations
  <2>. QED  BY <2>1, <2>2 DEF Next, vars, files, Capture, FindSidecar, Load, Analyze
<1>. QED  BY <1>1, <1>2, PTL DEF Spec

-----------------------------------------------------------------------------
(* The bytes of a segment.                                                 *)

SizesOf(seg) == [k \in DOMAIN seg.blocks |-> seg.blocks[k].size]
InState(seg, active) == {k \in DOMAIN seg.blocks : seg.blocks[k].active = active}

(* Bytes of the blocks listed are bytes of the blocks there are: no two are *)
(* the same, as they begin at different addresses.                         *)
LEMMA BytesByState ==
    ASSUME NEW h \in Told, NEW loss \in Losses, NEW i \in DOMAIN Segments, NEW active \in BOOLEAN
    PROVE  LET w == SnapshotOf(h, loss).segments[i]
           IN  SumFunctionOnSet(SizesOf(w), InState(w, active)) =
                  BytesIn({b \in ToSet(BlocksOf(Segments[i], h)) : b.active = active})
<1>. DEFINE bs == BlocksOf(Segments[i], h)
            w  == SnapshotOf(h, loss).segments[i]
            K  == InState(w, active)
            f  == SizesOf(w)
            B  == {b \in ToSet(bs) : b.active = active}
            g  == [b \in B |-> b.size]
<1>1. PICK m : Tile(bs, m, Segments[i], h)
  BY BlocksTile
<1>2. /\ m \in Nat /\ DOMAIN bs = 1 .. m
      /\ \A k \in 1 .. m : bs[k].addr \in Int /\ bs[k].size \in Int
      /\ \A j, k \in 1 .. m : j < k => bs[j].addr < bs[k].addr
  BY <1>1 DEF Tile
<1>3. DOMAIN w.blocks = 1 .. m
  BY <1>2 DEF SnapshotOf
<1>4. \A k \in 1 .. m : w.blocks[k].size = bs[k].size /\ w.blocks[k].active = bs[k].active
  BY <1>2, BlockKept
<1>5. K \in SUBSET (1 .. m) /\ IsFiniteSet(K)
  <2>1. K \in SUBSET (1 .. m)
    BY <1>3 DEF InState
  <2>. QED  BY <1>2, <2>1, UpTo, FS_Subset
<1>6. \A x, y \in K : bs[x] = bs[y] => x = y
  <2>1. SUFFICES ASSUME NEW x \in 1 .. m, NEW y \in 1 .. m, x < y
                 PROVE  bs[x] # bs[y]
    <3>1. \A x, y \in 1 .. m : x = y \/ x < y \/ y < x
      BY <1>2
    <3>. QED  BY <1>5, <2>1, <3>1
  <2>2. bs[x].addr < bs[y].addr /\ bs[x].addr \in Int
    BY <1>2, <2>1
  <2>. QED  BY <2>2
<1>7. \A k \in K : f[k] = bs[k].size /\ bs[k].active = active
  BY <1>3, <1>4, <1>5 DEF SizesOf, InState
<1>8. \A k \in K : f[k] \in Int
  BY <1>2, <1>5, <1>7
<1>9. B = {bs[k] : k \in K}
  <2>1. \A k \in 1 .. m : k \in K <=> bs[k].active = active
    BY <1>3, <1>4 DEF InState
  <2>2. ToSet(bs) = {bs[k] : k \in 1 .. m}
    BY <1>2 DEF ToSet
  <2>. HIDE DEF K, bs
  <2>. QED  BY <1>5, <2>1, <2>2
<1>. HIDE DEF B
<1>10. \A b \in B : g[b] = b.size
  OBVIOUS
<1>11. \A k \in K : g[bs[k]] = f[k]
  BY <1>7, <1>9, <1>10
<1>. HIDE DEF K, f, g, bs
<1>12. SumFunctionOnSet(g, B) = SumFunctionOnSet(f, K)
  <2>1. \A k \in K : bs[k] \in B
    BY <1>9
  <2>2. \A b \in B : \E k \in K : b = bs[k]
    BY <1>9
  <2>3. IsFiniteSet(K)
    BY <1>5
  <2>. QED  BY ONLY <1>6, <1>8, <1>11, <2>1, <2>2, <2>3, SumRenamed
<1>13. BytesIn(B) = SumFunctionOnSet(g, B)
  BY <1>10, SizesAddUp
<1>. QED  BY <1>12, <1>13 DEF B, K, f, bs

(* What is reported of a segment is said of the snapshot.                  *)
LEMMA SegmentReported ==
    ASSUME IInv, Reported, NEW i \in DOMAIN Segments
    PROVE  /\ history \in Told /\ lost \in Losses
           /\ result.segments[i] = Summary(SnapshotOf(history, lost).segments[i], LayoutAvailable)
           /\ DOMAIN result.segments = DOMAIN Segments
<1>. DEFINE s == SnapshotOf(history, lost)
<1>1. history \in Told /\ lost \in Losses /\ snap = Normalize(s) /\ result = Reports
  BY AnalyzedFollows
<1>2. snap.segments = s.segments
  BY <1>1 DEF Normalize
<1>3. DOMAIN s.segments = DOMAIN Segments
  BY DEF SnapshotOf
<1>4. result.segments = Summaries
  BY <1>1 DEF Reports
<1>. QED  BY <1>1, <1>2, <1>3, <1>4 DEF Summaries, s

(* The bytes of a summary are the sums of its blocks' sizes.               *)
LEMMA SummaryBytes ==
    ASSUME NEW seg, NEW w
    PROVE  /\ Summary(seg, w).active = SumFunctionOnSet(SizesOf(seg), InState(seg, TRUE))
           /\ Summary(seg, w).inactive = SumFunctionOnSet(SizesOf(seg), InState(seg, FALSE))
           /\ Summary(seg, w).graph = seg.graph
BY DEF Summary, SizesOf, InState

(* LayoutIsTrue, for any segments and histories.                           *)
THEOREM LayoutTrue == Spec => []LayoutIsTrue
<1>. DEFINE bytes(i, active) == BytesIn({b \in ToSet(BlocksOf(Segments[i], history)) : b.active = active})
<1>1. ASSUME IInv, Reported, NEW i \in DOMAIN Segments
      PROVE  result.segments[i].active = bytes(i, TRUE) /\ result.segments[i].inactive = bytes(i, FALSE)
  <2>. DEFINE w == SnapshotOf(history, lost).segments[i]
  <2>1. /\ history \in Told /\ lost \in Losses
        /\ result.segments[i] = Summary(w, LayoutAvailable)
    BY <1>1, SegmentReported
  <2>2. /\ SumFunctionOnSet(SizesOf(w), InState(w, TRUE)) = bytes(i, TRUE)
        /\ SumFunctionOnSet(SizesOf(w), InState(w, FALSE)) = bytes(i, FALSE)
    BY <2>1, BytesByState
  <2>. HIDE DEF w, bytes
  <2>3. /\ Summary(w, LayoutAvailable).active = SumFunctionOnSet(SizesOf(w), InState(w, TRUE))
        /\ Summary(w, LayoutAvailable).inactive = SumFunctionOnSet(SizesOf(w), InState(w, FALSE))
    BY SummaryBytes, Zenon
  <2>. QED  BY <2>1, <2>2, <2>3
<1>2. ASSUME IInv
      PROVE  BytesAreTrue
  BY <1>1, <1>2 DEF BytesAreTrue
<1>. QED  BY <1>2, BlocksTrue, GateInvariance, PTL DEF LayoutIsTrue

-----------------------------------------------------------------------------
(* The peak.                                                               *)

(* There are finitely many lifetimes in a history, of at most as many       *)
(* births as events, and those held at its end are live after its last one. *)
LEMMA LivesSized ==
    ASSUME NEW h \in Told
    PROVE  /\ Sized(LivesOf(h))
           /\ \A a \in LivesOf(h) : /\ a.born \in DOMAIN h
                                    /\ a.freed = None \/ a.freed \in DOMAIN h
                                    /\ a.freed # None => a.born < a.freed
<1>. DEFINE n == Len(h)
            life == [i \in 1 .. n |-> LifeOf(h, i)]
<1>1. n \in Nat /\ DOMAIN h = 1 .. n /\ \A i \in DOMAIN h : h[i].size \in Nat
  BY HistoryTyped
<1>2. \A a \in LivesOf(h) : \E i \in 1 .. n : life[i] = a
  <2>1. LivesOf(h) = {LifeOf(h, i) : i \in {j \in DOMAIN h : IsAlloc(h[j])}}
    BY DEF LivesOf, LifeOf, FreesOf
  <2>. HIDE DEF n
  <2>2. \A i \in 1 .. n : life[i] = LifeOf(h, i)
    OBVIOUS
  <2>. QED  BY <1>1, <2>1, <2>2
<1>3. ASSUME NEW i \in 1 .. n
      PROVE  /\ LifeOf(h, i).size \in Nat /\ LifeOf(h, i).born = i
             /\ LifeOf(h, i).freed = None \/ (LifeOf(h, i).freed \in 1 .. n /\ i < LifeOf(h, i).freed)
  <2>. DEFINE F == FreesOf(h, i)
              until == IF F = {} THEN None ELSE Min(F)
  <2>1. F \in SUBSET (1 .. n) /\ \A j \in F : i < j
    BY <1>1 DEF FreesOf
  <2>2. ASSUME F # {} PROVE Min(F) \in F
    <3>1. F \in SUBSET Int /\ IsFiniteSet(F)
      BY <1>1, <2>1, UpTo, FS_Subset
    <3>. HIDE DEF F
    <3>. QED  BY <2>2, <3>1, MinExists
  <2>3. LifeOf(h, i) = [addr |-> h[i].addr, size |-> h[i].size, born |-> i, freed |-> until]
    BY DEF LifeOf
  <2>. HIDE DEF F
  <2>4. until = None \/ (until \in 1 .. n /\ i < until)
    BY <2>1, <2>2
  <2>. HIDE DEF until
  <2>. QED  BY <1>1, <2>3, <2>4
<1>. HIDE DEF n
<1>4. \A i \in 1 .. n : life[i] = LifeOf(h, i)
  OBVIOUS
<1>5. IsFiniteSet(LivesOf(h))
  <2>1. DOMAIN life = 1 .. n /\ life = [i \in 1 .. n |-> life[i]]
    OBVIOUS
  <2>. HIDE DEF life
  <2>. QED  BY <1>1, <1>2, <2>1, ValuesFinite
<1>. HIDE DEF life
<1>6. \A a \in LivesOf(h) : \E i \in 1 .. n : a = LifeOf(h, i)
  BY <1>2, <1>4
<1>7. \A a \in LivesOf(h) : a.size \in Nat
  BY <1>3, <1>6
<1>8. \A a \in LivesOf(h) : /\ a.born \in DOMAIN h
                            /\ a.freed = None \/ a.freed \in DOMAIN h
                            /\ a.freed # None => a.born < a.freed
  <2>1. SUFFICES ASSUME NEW a \in LivesOf(h), NEW i \in 1 .. n, a = LifeOf(h, i)
                 PROVE  /\ a.born \in DOMAIN h
                        /\ a.freed = None \/ a.freed \in DOMAIN h
                        /\ a.freed # None => a.born < a.freed
    BY <1>6
  <2>2. a.born = i /\ (a.freed = None \/ (a.freed \in 1 .. n /\ i < a.freed))
    BY <1>3, <2>1
  <2>. QED  BY <1>1, <2>2
<1>. QED  BY <1>5, <1>7, <1>8 DEF Sized

(* The active blocks of a segment are at most as large together as what is *)
(* held there: each begins with an allocation of its own.                  *)
LEMMA ActiveAtMostHeld ==
    ASSUME NEW h \in Told, NEW loss \in Losses, NEW i \in DOMAIN Segments
    PROVE  LET w == SnapshotOf(h, loss).segments[i]
           IN  /\ SumFunctionOnSet(SizesOf(w), InState(w, TRUE)) \in Int
               /\ SumFunctionOnSet(SizesOf(w), InState(w, TRUE)) <= BytesIn(HeldIn(Segments[i], h))
               /\ Sized(HeldIn(Segments[i], h))
<1>. DEFINE bs == BlocksOf(Segments[i], h)
            w  == SnapshotOf(h, loss).segments[i]
            K  == InState(w, TRUE)
            f  == SizesOf(w)
            U  == HeldIn(Segments[i], h)
            b  == [k \in K |-> CHOOSE a \in U : a.addr = bs[k].addr]
<1>1. PICK m : Tile(bs, m, Segments[i], h)
  BY BlocksTile
<1>2. /\ m \in Nat /\ DOMAIN bs = 1 .. m
      /\ \A k \in 1 .. m : /\ bs[k].addr \in Int /\ bs[k].size \in Int
                           /\ bs[k].active <=> \E a \in U : a.addr = bs[k].addr
      /\ \A j, k \in 1 .. m : j < k => bs[j].addr < bs[k].addr
      /\ \A a \in U, k \in 1 .. m : bs[k].addr = a.addr => bs[k].size <= a.size
  BY <1>1 DEF Tile
<1>3. DOMAIN w.blocks = 1 .. m
  BY <1>2 DEF SnapshotOf
<1>4. \A k \in 1 .. m : w.blocks[k].size = bs[k].size /\ w.blocks[k].active = bs[k].active
  BY <1>2, BlockKept
<1>5. U \in SUBSET LivesOf(h)
  BY DEF HeldIn
<1>6. Sized(U)
  BY <1>5, LivesSized, BytesSum
<1>. HIDE DEF U, bs, w
<1>7. K \in SUBSET (1 .. m) /\ \A k \in K : bs[k].active
  BY <1>3, <1>4 DEF InState
<1>8. IsFiniteSet(K)
  BY <1>2, <1>7, UpTo, FS_Subset
<1>. HIDE DEF K
<1>9. ASSUME NEW k \in K
      PROVE  b[k] \in U /\ b[k].addr = bs[k].addr
  <2>1. \E a \in U : a.addr = bs[k].addr
    BY <1>2, <1>7
  <2>. QED  BY <2>1
<1>. HIDE DEF b
<1>10. \A x, y \in K : b[x] = b[y] => x = y
  <2>1. SUFFICES ASSUME NEW x \in 1 .. m, NEW y \in 1 .. m, x < y
                 PROVE  bs[x].addr # bs[y].addr
    <3>1. \A x, y \in 1 .. m : x = y \/ x < y \/ y < x
      BY <1>2
    <3>2. \A x, y \in 1 .. m : bs[x].addr = bs[y].addr => x = y
      BY <2>1, <3>1
    <3>. QED  BY <1>7, <1>9, <3>2
  <2>2. bs[x].addr < bs[y].addr /\ bs[x].addr \in Int
    BY <1>2, <2>1
  <2>. QED  BY <2>2
<1>11. \A k \in K : f[k] = bs[k].size
  BY <1>3, <1>4, <1>7 DEF SizesOf
<1>. HIDE DEF f
<1>12. \A k \in K : f[k] \in Int /\ f[k] <= b[k].size
  <2>1. SUFFICES ASSUME NEW k \in K
                 PROVE  f[k] \in Int /\ f[k] <= b[k].size
    OBVIOUS
  <2>2. bs[k].size \in Int /\ bs[k].size <= b[k].size
    BY <1>2, <1>7, <1>9
  <2>. QED  BY <1>11, <2>2
<1>13. SumFunctionOnSet(f, K) <= BytesIn(U)
  <2>1. \A k \in K : b[k] \in U
    BY <1>9
  <2>. QED  BY ONLY <1>6, <1>8, <1>10, <1>12, <2>1, SumAtMostBytes
<1>14. SumFunctionOnSet(f, K) \in Int
  <2>1. \A k \in K : f[k] \in Int
    BY <1>12
  <2>. QED  BY <1>8, <2>1, SumType
<1>. QED  BY <1>6, <1>13, <1>14 DEF f, K, U, w

GraphSegments == {i \in DOMAIN Segments : Segments[i].graph}
HeldInAny(h, T) == UNION {HeldIn(Segments[i], h) : i \in T}

(* Segments do not overlap, so nothing is held in two of them.              *)
LEMMA HeldApart ==
    ASSUME NEW h \in Told, NEW i \in DOMAIN Segments, NEW j \in DOMAIN Segments, i # j
    PROVE  HeldIn(Segments[i], h) \cap HeldIn(Segments[j], h) = {}
<1>1. SUFFICES ASSUME NEW a \in LivesOf(h), a \in HeldIn(Segments[i], h), a \in HeldIn(Segments[j], h)
               PROVE  FALSE
  BY DEF HeldIn
<1>2. /\ Segments[i].addr \in Nat /\ Segments[i].size \in Nat
      /\ Segments[j].addr \in Nat /\ Segments[j].size \in Nat
  <2>1. /\ Segments[i] \in [addr : Nat, size : Nat \ {0}, graph : BOOLEAN]
        /\ Segments[j] \in [addr : Nat, size : Nat \ {0}, graph : BOOLEAN]
    BY SegmentsTyped
  <2>. QED  BY <2>1
<1>3. a.addr \in Nat
  BY LivesTyped, HistoryTyped
<1>4. /\ Segments[i].addr <= a.addr /\ a.addr < Segments[i].addr + Segments[i].size
      /\ Segments[j].addr <= a.addr /\ a.addr < Segments[j].addr + Segments[j].size
  BY <1>1 DEF HeldIn
<1>5. \/ Segments[i].addr + Segments[i].size <= Segments[j].addr
      \/ Segments[j].addr + Segments[j].size <= Segments[i].addr
  BY SegmentsAssumption
<1>. QED  BY <1>2, <1>3, <1>4, <1>5

(* What is active in segments is no more than what they hold together.     *)
LEMMA ActiveOfSegments ==
    ASSUME NEW h \in Told, NEW act,
           \A i \in GraphSegments : act[i] \in Int /\ act[i] <= BytesIn(HeldIn(Segments[i], h)),
           IsFiniteSet(GraphSegments)
    PROVE  SumFunctionOnSet(act, GraphSegments) <= BytesIn(HeldInAny(h, GraphSegments))
<1>. DEFINE held(i) == HeldIn(Segments[i], h)
            G == {T \in SUBSET GraphSegments :
                    SumFunctionOnSet(act, T) <= BytesIn(HeldInAny(h, T))}
<1>1. \A T : HeldInAny(h, T) \in SUBSET LivesOf(h)
  BY DEF HeldInAny, HeldIn
<1>2. \A T : Sized(HeldInAny(h, T)) /\ BytesIn(HeldInAny(h, T)) \in Nat
  BY <1>1, LivesSized, BytesSum
<1>3. {} \in G
  <2>1. SumFunctionOnSet(act, {}) = 0
    BY SumOfNothing
  <2>2. BytesIn(HeldInAny(h, {})) >= 0
    BY <1>2
  <2>. QED  BY <2>1, <2>2
<1>4. ASSUME NEW T \in SUBSET GraphSegments, NEW i \in GraphSegments, T \in G, i \notin T
      PROVE  T \cup {i} \in G
  <2>1. SumFunctionOnSet(act, T \cup {i}) = act[i] + SumFunctionOnSet(act, T)
    <3>1. IsFiniteSet(T) /\ (\A j \in T : act[j] \in Int) /\ act[i] \in Int
      BY FS_Subset
    <3>. QED  BY <1>4, <3>1, SumWithOneMore
  <2>2. HeldInAny(h, T \cup {i}) = held(i) \cup HeldInAny(h, T)
    BY DEF HeldInAny
  <2>3. held(i) \cap HeldInAny(h, T) = {}
    <3>1. \A j \in T : held(i) \cap held(j) = {}
      BY <1>4, HeldApart DEF GraphSegments
    <3>. HIDE DEF held
    <3>2. \A a \in HeldInAny(h, T) : \E j \in T : a \in held(j)
      BY DEF HeldInAny, held
    <3>. QED  BY <3>1, <3>2
  <2>4. Sized(held(i)) /\ BytesIn(held(i)) \in Nat
    <3>1. held(i) \in SUBSET LivesOf(h)
      BY DEF HeldIn
    <3>. QED  BY <3>1, LivesSized, BytesSum
  <2>. HIDE DEF held
  <2>5. BytesIn(held(i) \cup HeldInAny(h, T)) = BytesIn(held(i)) + BytesIn(HeldInAny(h, T))
    BY <1>2, <2>3, <2>4, BytesOfBoth
  <2>6. act[i] \in Int /\ act[i] <= BytesIn(held(i))
    BY DEF held
  <2>7. SumFunctionOnSet(act, T) \in Int
    <3>1. IsFiniteSet(T) /\ \A j \in T : act[j] \in Int
      BY FS_Subset
    <3>. QED  BY <3>1, SumType
  <2>8. SumFunctionOnSet(act, T) <= BytesIn(HeldInAny(h, T)) /\ BytesIn(HeldInAny(h, T)) \in Nat
    BY <1>2, <1>4
  <2>9. SumFunctionOnSet(act, T \cup {i}) <= BytesIn(HeldInAny(h, T \cup {i}))
    <3>1. BytesIn(HeldInAny(h, T \cup {i})) = BytesIn(held(i)) + BytesIn(HeldInAny(h, T))
      BY <2>2, <2>5
    <3>. QED  BY ONLY <2>1, <2>4, <2>6, <2>7, <2>8, <3>1
  <2>. QED  BY <2>9
<1>5. GraphSegments \in G
  <2>. HIDE DEF G
  <2>. QED  BY <1>3, <1>4, FiniteInduction
<1>. QED  BY <1>5

LiveAfter(i) == {a \in Shown : a.born <= i /\ (a.freed = None \/ i < a.freed)}

(* The peak is of some event, and at least what lives after any.            *)
LEMMA TruePeakIs ==
    ASSUME history \in Told
    PROVE  /\ TruePeak \in Nat
           /\ \A i \in DOMAIN history : BytesIn(LiveAfter(i)) <= TruePeak
           /\ TruePeak = 0 \/ \E i \in DOMAIN history : TruePeak = BytesIn(LiveAfter(i))
           /\ \A i : Sized(LiveAfter(i)) /\ BytesIn(LiveAfter(i)) \in Nat
<1>. DEFINE n == Len(history)
            bytes == [i \in 1 .. n |-> BytesIn(LiveAfter(i))]
            V == {0} \cup {BytesIn(LiveAfter(i)) : i \in 1 .. n}
<1>1. n \in Nat /\ DOMAIN history = 1 .. n
  BY HistoryTyped
<1>2. TruePeak = Max(V)
  BY <1>1 DEF TruePeak, LiveAfter
<1>3. \A i : LiveAfter(i) \in SUBSET LivesOf(history)
  BY DEF LiveAfter, Shown
<1>4. \A i : Sized(LiveAfter(i)) /\ BytesIn(LiveAfter(i)) \in Nat
  BY <1>3, LivesSized, BytesSum
<1>5. IsFiniteSet(V \ {0})
  <2>1. \A x \in V \ {0} : \E i \in 1 .. n : bytes[i] = x
    OBVIOUS
  <2>2. DOMAIN bytes = 1 .. n /\ bytes = [i \in 1 .. n |-> bytes[i]]
    OBVIOUS
  <2>. HIDE DEF V, bytes
  <2>. QED  BY <1>1, <2>1, <2>2, ValuesFinite
<1>6. IsFiniteSet(V) /\ V \in SUBSET Nat /\ 0 \in V
  <2>1. V = (V \ {0}) \cup {0}
    OBVIOUS
  <2>2. V \in SUBSET Nat /\ 0 \in V
    BY <1>4
  <2>. HIDE DEF V
  <2>3. IsFiniteSet(V)
    BY <1>5, <2>1, FS_AddElement
  <2>. QED  BY <2>2, <2>3
<1>7. \A i \in 1 .. n : BytesIn(LiveAfter(i)) \in V
  OBVIOUS
<1>8. \A v \in V : v = 0 \/ \E i \in 1 .. n : v = BytesIn(LiveAfter(i))
  OBVIOUS
<1>. HIDE DEF V
<1>9. Max(V) \in V /\ \A v \in V : Max(V) >= v
  <2>1. V \in SUBSET Int /\ V # {}
    BY <1>6
  <2>. QED  BY <1>6, <2>1, MaxExists
<1>10. TruePeak \in Nat /\ TruePeak \in V /\ \A v \in V : v \in Nat /\ TruePeak >= v
  BY <1>2, <1>6, <1>9
<1>11. \A i \in 1 .. n : BytesIn(LiveAfter(i)) <= TruePeak
  BY <1>7, <1>10
<1>. QED  BY <1>1, <1>4, <1>8, <1>10, <1>11

(* The proxy: what is active in the graph pool is held at the end.          *)
LEMMA ProxyNotOverstated ==
    ASSUME IInv, Reported
    PROVE  ActiveBytes(result.segments) <= TruePeak
<1>. DEFINE w(i) == SnapshotOf(history, lost).segments[i]
            act == [i \in DOMAIN result.segments |-> result.segments[i].active]
            held == HeldInAny(history, GraphSegments)
            n == Len(history)
<1>1. DOMAIN Segments # {}
  BY SegmentsTyped
<1>2. /\ history \in Told /\ lost \in Losses /\ DOMAIN result.segments = DOMAIN Segments
      /\ \A i \in DOMAIN Segments : result.segments[i] = Summary(w(i), LayoutAvailable)
  BY <1>1, SegmentReported
<1>3. n \in Nat /\ DOMAIN history = 1 .. n
  BY <1>2, HistoryTyped
<1>4. \A i \in DOMAIN Segments : w(i).graph = Segments[i].graph
  BY DEF SnapshotOf
<1>5. ASSUME NEW i \in DOMAIN Segments
      PROVE  /\ result.segments[i].graph = Segments[i].graph
             /\ result.segments[i].active \in Int
             /\ result.segments[i].active <= BytesIn(HeldIn(Segments[i], history))
  <2>1. /\ SumFunctionOnSet(SizesOf(w(i)), InState(w(i), TRUE)) \in Int
        /\ SumFunctionOnSet(SizesOf(w(i)), InState(w(i), TRUE)) <= BytesIn(HeldIn(Segments[i], history))
    BY <1>2, ActiveAtMostHeld
  <2>2. result.segments[i] = Summary(w(i), LayoutAvailable) /\ w(i).graph = Segments[i].graph
    BY <1>2, <1>4
  <2>. HIDE DEF w
  <2>3. /\ Summary(w(i), LayoutAvailable).active = SumFunctionOnSet(SizesOf(w(i)), InState(w(i), TRUE))
        /\ Summary(w(i), LayoutAvailable).graph = w(i).graph
    BY SummaryBytes, Zenon
  <2>. QED  BY <2>1, <2>2, <2>3
<1>6. {i \in DOMAIN result.segments : result.segments[i].graph} = GraphSegments
  BY <1>2, <1>5 DEF GraphSegments
<1>7. ActiveBytes(result.segments) = SumFunctionOnSet(act, GraphSegments)
  BY <1>6 DEF ActiveBytes
<1>8. \A i \in GraphSegments : act[i] = result.segments[i].active /\ i \in DOMAIN Segments
  BY <1>2 DEF GraphSegments
<1>. HIDE DEF act, w, n
<1>9. \A i \in GraphSegments : act[i] \in Int /\ act[i] <= BytesIn(HeldIn(Segments[i], history))
  BY <1>5, <1>8
<1>10. IsFiniteSet(GraphSegments)
  <2>. DEFINE S == [addr : Nat, size : Nat \ {0}, graph : BOOLEAN]
  <2>1. Segments \in Seq(S)
    BY SegmentsAssumption
  <2>. HIDE DEF S
  <2>2. Len(Segments) \in Nat /\ DOMAIN Segments = 1 .. Len(Segments)
    BY <2>1, LenProperties
  <2>. QED  BY <2>2, UpTo, FS_Subset DEF GraphSegments
<1>11. SumFunctionOnSet(act, GraphSegments) <= BytesIn(held)
  BY <1>2, <1>9, <1>10, ActiveOfSegments
<1>12. SumFunctionOnSet(act, GraphSegments) \in Int
  <2>1. \A i \in GraphSegments : act[i] \in Int
    BY <1>9
  <2>. QED  BY <1>10, <2>1, SumType
<1>13. held \in SUBSET LivesOf(history) /\ \A a \in held : a.freed = None /\ InGraph(a.addr)
  BY DEF HeldInAny, HeldIn, GraphSegments, InGraph
<1>. HIDE DEF held
<1>14. Sized(held) /\ BytesIn(held) \in Nat
  BY <1>2, <1>13, LivesSized, BytesSum
<1>15. BytesIn(held) <= TruePeak
  <2>1. /\ TruePeak \in Nat
        /\ \A i \in DOMAIN history : BytesIn(LiveAfter(i)) <= TruePeak
        /\ \A i : Sized(LiveAfter(i)) /\ BytesIn(LiveAfter(i)) \in Nat
    BY <1>2, TruePeakIs
  <2>2. \A a \in held : a.born \in 1 .. n
    BY <1>2, <1>3, <1>13, LivesSized
  <2>3. CASE n = 0
    <3>1. held = {}
      BY <2>2, <2>3
    <3>. QED  BY <2>1, <3>1, BytesOfNothing
  <2>4. CASE n # 0
    <3>1. n \in DOMAIN history
      BY <1>3, <2>4
    <3>2. held \in SUBSET LiveAfter(n)
      BY <1>3, <1>13, <2>2 DEF LiveAfter, Shown
    <3>3. BytesIn(held) <= BytesIn(LiveAfter(n))
      BY <2>1, <3>2, BytesOfPart
    <3>. QED  BY <1>14, <2>1, <3>1, <3>3
  <2>. QED  BY <2>3, <2>4
<1>16. TruePeak \in Nat
  BY <1>2, TruePeakIs
<1>. QED  BY ONLY <1>7, <1>11, <1>12, <1>14, <1>15, <1>16

(* With lifetimes of events in order, what the analyzer counts at an event *)
(* is what lived after it.                                                 *)

InTurn(ev) == \A i \in DOMAIN ev : ev[i].id = i

(* A bar tells its lifetime, and only one bar tells it.                     *)
LEMMA BarsTell ==
    ASSUME NEW h \in Told, NEW ev, Numbering(ev, h), InOrder(ev, h), Says(ev, h), InTurn(ev)
    PROVE  /\ \A a \in Extract(ev) :
                 /\ a.alloc \in 0 .. Len(h) - 1 /\ a.free \in 0 .. Len(h)
                 /\ ToldBy(ev, a).born = a.alloc + 1 /\ ToldBy(ev, a).size = a.size
                 /\ ToldBy(ev, a).addr = a.addr
                 /\ ToldBy(ev, a).freed = IF a.free = Len(h) THEN None ELSE a.free + 1
           /\ \A a, b \in Extract(ev) : ToldBy(ev, a) = ToldBy(ev, b) => a = b
<1>. DEFINE n == Len(h)
<1>1. /\ n \in Nat /\ DOMAIN ev = 1 .. n /\ Len(ev) = n
      /\ \A k \in 1 .. n : ev[k].id = k
  BY DEF Numbering, InTurn
<1>2. Readable(ev) /\ FreedBetween(ev)
  BY TraceReadable
<1>3. ASSUME NEW a \in Extract(ev)
      PROVE  /\ a = [addr |-> a.addr, size |-> a.size, alloc |-> a.alloc, free |-> a.free]
             /\ a.alloc \in 0 .. n - 1 /\ a.free \in 0 .. n
  <2>1. PICK i \in Births(ev), f \in Nat :
               /\ a = [addr |-> ev[i].addr, size |-> ev[i].size, alloc |-> i - 1, free |-> f]
               /\ \/ Untouched(ev, i, Len(ev)) /\ f = Len(ev)
                  \/ f + 1 \in DOMAIN ev /\ FreedBy(ev, i, f + 1)
    BY <1>2, ExtractPairsFrees
  <2>2. i \in 1 .. n
    BY <1>1 DEF Births
  <2>3. f \in 0 .. n
    <3>1. f = n \/ f + 1 \in 1 .. n
      BY <1>1, <2>1
    <3>2. n \in Nat /\ f \in Nat
      BY <1>1
    <3>. HIDE DEF n
    <3>. QED  BY ONLY <3>1, <3>2
  <2>4. i - 1 \in 0 .. n - 1
    BY <1>1, <2>2
  <2>. QED  BY <2>1, <2>3, <2>4
<1>. HIDE DEF n
<1>4. ASSUME NEW a \in Extract(ev)
      PROVE  /\ ToldBy(ev, a).born = a.alloc + 1 /\ ToldBy(ev, a).size = a.size
             /\ ToldBy(ev, a).addr = a.addr
             /\ ToldBy(ev, a).freed = IF a.free = n THEN None ELSE a.free + 1
  <2>1. a.alloc \in 0 .. n - 1 /\ a.free \in 0 .. n
    BY <1>3
  <2>2. EventAt(ev, a.alloc) = a.alloc + 1
    <3>1. a.alloc # n /\ a.alloc + 1 \in 1 .. n
      BY <1>1, <2>1
    <3>. QED  BY <1>1, <3>1 DEF EventAt
  <2>3. EventAt(ev, a.free) = IF a.free = n THEN None ELSE a.free + 1
    <3>1. a.free # n => a.free + 1 \in 1 .. n
      BY <1>1, <2>1
    <3>. QED  BY <1>1, <3>1 DEF EventAt
  <2>4. ToldBy(ev, a) = [addr |-> a.addr, size |-> a.size, born |-> EventAt(ev, a.alloc),
                         freed |-> EventAt(ev, a.free)]
    BY DEF ToldBy
  <2>. QED  BY <2>2, <2>3, <2>4
<1>5. ASSUME NEW a \in Extract(ev), NEW b \in Extract(ev), ToldBy(ev, a) = ToldBy(ev, b)
      PROVE  a = b
  <2>1. a.addr = b.addr /\ a.size = b.size /\ a.alloc + 1 = b.alloc + 1
    BY <1>4, <1>5
  <2>2. /\ a.alloc \in 0 .. n - 1 /\ a.free \in 0 .. n
        /\ b.alloc \in 0 .. n - 1 /\ b.free \in 0 .. n
    BY <1>3
  <2>3. a.alloc = b.alloc
    BY <1>1, <2>1, <2>2
  <2>4. (IF a.free = n THEN None ELSE a.free + 1) = (IF b.free = n THEN None ELSE b.free + 1)
    <3>1. /\ ToldBy(ev, a).freed = IF a.free = n THEN None ELSE a.free + 1
          /\ ToldBy(ev, b).freed = IF b.free = n THEN None ELSE b.free + 1
      BY <1>4
    <3>. QED  BY <1>5, <3>1
  <2>5. a.free = b.free
    <3>1. a.free + 1 # None /\ b.free + 1 # None
      BY <1>1, <2>2, NoneAssumption
    <3>. QED  BY <1>1, <2>2, <2>4, <3>1
  <2>. QED  BY <1>3, <2>1, <2>3, <2>5
<1>. QED  BY <1>3, <1>4, <1>5 DEF n

(* The bytes of the allocations live at an ordinal are those the history   *)
(* left live.                                                              *)
LEMMA LiveBytesTrue ==
    ASSUME history \in Told, NEW ev, Numbering(ev, history), InOrder(ev, history), Says(ev, history),
           InTurn(ev), NEW bars \in SUBSET Extract(ev), Shown = {ToldBy(ev, a) : a \in bars},
           NEW ord \in 0 .. Len(history) - 1
    PROVE  LiveBytes(bars, ord) = BytesIn(LiveAfter(ord + 1))
<1>. DEFINE n == Len(history)
            S == LiveAfter(ord + 1)
            U == {a \in bars : a.alloc <= ord /\ ord < a.free}
            b == [t \in S |-> CHOOSE a \in bars : ToldBy(ev, a) = t]
<1>1. n \in Nat /\ ord \in Nat /\ ord < n
  BY HistoryTyped
<1>2. Sized(S)
  BY TruePeakIs
<1>3. /\ \A a \in bars :
            /\ a.alloc \in 0 .. n - 1 /\ a.free \in 0 .. n
            /\ ToldBy(ev, a).born = a.alloc + 1 /\ ToldBy(ev, a).size = a.size
            /\ ToldBy(ev, a).freed = IF a.free = n THEN None ELSE a.free + 1
      /\ \A a, c \in bars : ToldBy(ev, a) = ToldBy(ev, c) => a = c
  BY BarsTell
<1>4. S = {t \in Shown : t.born <= ord + 1 /\ (t.freed = None \/ ord + 1 < t.freed)}
  BY DEF LiveAfter
<1>. HIDE DEF n
<1>5. ASSUME NEW a \in bars
      PROVE  ToldBy(ev, a) \in S <=> a \in U
  <2>1. ToldBy(ev, a) \in Shown
    OBVIOUS
  <2>2. /\ a.alloc \in 0 .. n - 1 /\ a.free \in 0 .. n
        /\ ToldBy(ev, a).born = a.alloc + 1
        /\ ToldBy(ev, a).freed = IF a.free = n THEN None ELSE a.free + 1
    BY <1>3
  <2>3. a.alloc + 1 <= ord + 1 <=> a.alloc <= ord
    BY <1>1, <2>2
  <2>4. (ToldBy(ev, a).freed = None \/ ord + 1 < ToldBy(ev, a).freed) <=> ord < a.free
    <3>1. CASE a.free = n
      BY <1>1, <2>2, <3>1
    <3>2. CASE a.free # n
      <4>1. a.free + 1 # None
        BY <1>1, <2>2, NoneAssumption
      <4>. QED  BY <1>1, <2>2, <3>2, <4>1
    <3>. QED  BY <3>1, <3>2
  <2>. QED  BY <1>4, <2>1, <2>2, <2>3, <2>4
<1>6. U \in SUBSET bars
  OBVIOUS
<1>7. \A t \in S : \E a \in bars : ToldBy(ev, a) = t
  BY <1>4
<1>8. LiveBytes(bars, ord) = BytesIn(U)
  BY DEF LiveBytes
<1>. HIDE DEF S, U
<1>9. ASSUME NEW t \in S
      PROVE  b[t] \in bars /\ ToldBy(ev, b[t]) = t
  BY <1>7
<1>. HIDE DEF b
<1>10. \A t \in S : b[t] \in U
  BY <1>5, <1>9
<1>11. \A a \in U : \E t \in S : a = b[t]
  <2>1. SUFFICES ASSUME NEW a \in U
                 PROVE  \E t \in S : a = b[t]
    OBVIOUS
  <2>2. ToldBy(ev, a) \in S /\ a \in bars
    BY <1>5, <1>6
  <2>3. b[ToldBy(ev, a)] = a
    BY <1>3, <1>9, <2>2
  <2>. QED  BY <2>2, <2>3
<1>12. \A s, t \in S : b[s] = b[t] => s = t
  BY <1>9
<1>13. \A t \in S : b[t].size = t.size
  BY <1>3, <1>9
<1>14. BytesIn(U) = BytesIn(S)
  BY ONLY <1>2, <1>10, <1>11, <1>12, <1>13, BytesRenamed
<1>. QED  BY <1>8, <1>14 DEF S

(* Between two births no more lives than after the first, so the peak is    *)
(* reached when something is allocated.                                    *)
LEMMA PeakAtBirth ==
    ASSUME history \in Told, TruePeak # 0
    PROVE  \E a \in Shown : TruePeak = BytesIn(LiveAfter(a.born))
<1>. DEFINE n == Len(history)
<1>1. n \in Nat /\ DOMAIN history = 1 .. n
  BY HistoryTyped
<1>2. /\ TruePeak \in Nat
      /\ \A i \in 1 .. n : BytesIn(LiveAfter(i)) <= TruePeak
      /\ TruePeak = 0 \/ \E i \in 1 .. n : TruePeak = BytesIn(LiveAfter(i))
      /\ \A i : Sized(LiveAfter(i)) /\ BytesIn(LiveAfter(i)) \in Nat
  BY <1>1, TruePeakIs
<1>3. PICK i \in 1 .. n : TruePeak = BytesIn(LiveAfter(i))
  BY <1>2
<1>4. LiveAfter(i) # {}
  BY <1>3, BytesOfNothing
<1>5. \A a \in Shown : a.born \in 1 .. n /\ (a.freed = None \/ a.freed \in 1 .. n)
  BY <1>1, LivesSized DEF Shown
<1>6. \A j : LiveAfter(j) = {a \in Shown : a.born <= j /\ (a.freed = None \/ j < a.freed)}
  BY DEF LiveAfter
<1>. HIDE DEF n
<1>. DEFINE B == {a.born : a \in LiveAfter(i)}
<1>7. B \in SUBSET (1 .. n) /\ B # {}
  BY <1>4, <1>5, <1>6
<1>8. PICK j \in B : \A k \in B : k <= j
  <2>. HIDE DEF B
  <2>. QED  BY <1>1, <1>7, LargestExists
<1>9. PICK a \in LiveAfter(i) : a.born = j
  BY <1>8
<1>10. i \in Int /\ j \in 1 .. n /\ j <= i /\ a \in Shown
  BY <1>1, <1>6, <1>7, <1>8, <1>9
<1>11. LiveAfter(i) \in SUBSET LiveAfter(j)
  <2>1. SUFFICES ASSUME NEW c \in LiveAfter(i)
                 PROVE  c \in LiveAfter(j)
    OBVIOUS
  <2>2. c \in Shown /\ c.born <= j /\ (c.freed = None \/ i < c.freed)
    BY <1>6, <1>8
  <2>3. c.freed = None \/ (c.freed \in Int /\ j < c.freed)
    BY <1>1, <1>5, <1>10, <2>2
  <2>. QED  BY <1>6, <2>2, <2>3
<1>12. BytesIn(LiveAfter(i)) <= BytesIn(LiveAfter(j))
  BY <1>2, <1>11, BytesOfPart
<1>13. TruePeak = BytesIn(LiveAfter(j))
  <2>1. BytesIn(LiveAfter(j)) \in Nat /\ BytesIn(LiveAfter(j)) <= TruePeak
    BY <1>2, <1>10
  <2>. QED  BY <1>2, <1>3, <1>12, <2>1
<1>. QED  BY <1>9, <1>10, <1>13

(* The peak of lifetimes in order is the true one.                          *)
LEMMA PeakTrue ==
    ASSUME IInv, Reported, LifetimesAreTrue, result.lifetime, InTurn(snap.events)
    PROVE  result.peak = TruePeak
<1>. DEFINE ev == snap.events
            n  == Len(history)
<1>1. /\ history \in Told /\ lost \in Losses /\ snap = Normalize(SnapshotOf(history, lost))
      /\ result = Reports /\ Reports.lifetime = HistoryAvailable
  BY AnalyzedFollows, ReportsTell
<1>2. HistoryAvailable
  BY <1>1
<1>3. Numbering(ev, history) /\ InOrder(ev, history) /\ Says(ev, history)
  BY <1>1, <1>2, EventsTell DEF HistoryAvailable
<1>4. result.bars = Bars /\ result.peak = PeakOf(Bars)
  BY <1>1, <1>2 DEF Reports
<1>5. Bars \in SUBSET Extract(ev)
  BY DEF Bars
<1>6. Shown = {ToldBy(ev, a) : a \in Bars}
  BY <1>4 DEF LifetimesAreTrue, ToldBy, EventAt
<1>7. n \in Nat /\ DOMAIN history = 1 .. n
  BY <1>1, HistoryTyped
<1>8. \A a \in Bars : a.alloc \in 0 .. n - 1 /\ ToldBy(ev, a).born = a.alloc + 1
  BY <1>1, <1>3, <1>5, BarsTell
<1>9. \A ord \in 0 .. n - 1 : LiveBytes(Bars, ord) = BytesIn(LiveAfter(ord + 1))
  BY <1>1, <1>3, <1>5, <1>6, LiveBytesTrue
<1>10. /\ TruePeak \in Nat
       /\ \A i \in 1 .. n : BytesIn(LiveAfter(i)) <= TruePeak
       /\ \A i : BytesIn(LiveAfter(i)) \in Nat
  BY <1>1, <1>7, TruePeakIs
<1>. HIDE DEF ev, n
<1>. DEFINE V == {0} \cup {LiveBytes(Bars, a.alloc) : a \in Bars}
<1>11. \A a \in Bars : LiveBytes(Bars, a.alloc) = BytesIn(LiveAfter(a.alloc + 1)) /\ a.alloc + 1 \in 1 .. n
  BY <1>7, <1>8, <1>9
<1>12. V \in SUBSET Int /\ \A v \in V : TruePeak >= v
  BY <1>10, <1>11
<1>13. TruePeak \in V
  <2>1. CASE TruePeak = 0
    BY <2>1
  <2>2. CASE TruePeak # 0
    <3>1. PICK t \in Shown : TruePeak = BytesIn(LiveAfter(t.born))
      BY <1>1, <2>2, PeakAtBirth
    <3>2. PICK a \in Bars : t = ToldBy(ev, a)
      BY <1>6
    <3>3. TruePeak = LiveBytes(Bars, a.alloc)
      BY <1>8, <1>11, <3>1, <3>2
    <3>. QED  BY <3>3
  <2>. QED  BY <2>1, <2>2
<1>14. PeakOf(Bars) = Max(V)
  BY DEF PeakOf
<1>. HIDE DEF V
<1>. QED  BY <1>4, <1>12, <1>13, <1>14, MaxIs

(* PeakNeverOverstated, for any segments and histories.                    *)
THEOREM PeakNotOverstated == Spec => []PeakNeverOverstated
<1>1. ASSUME IInv, LifetimesAreTrue
      PROVE  PeakNeverOverstated
  <2>1. SUFFICES ASSUME Reported
                 PROVE  /\ ~result.lifetime => result.peak <= TruePeak
                        /\ result.lifetime /\ InTurn(snap.events) => result.peak = TruePeak
    BY DEF PeakNeverOverstated, InTurn
  <2>2. ~result.lifetime => result.peak <= TruePeak
    <3>1. result = Reports /\ Reports.lifetime = HistoryAvailable
      BY <1>1, <2>1, AnalyzedFollows, ReportsTell
    <3>2. ~HistoryAvailable => result.peak = ActiveBytes(result.segments)
      BY <3>1 DEF Reports
    <3>3. ActiveBytes(result.segments) <= TruePeak
      BY <1>1, <2>1, ProxyNotOverstated
    <3>. QED  BY <3>1, <3>2, <3>3
  <2>. QED  BY <1>1, <2>1, <2>2, PeakTrue
<1>. QED  BY <1>1, GateInvariance, LifetimesTrue, PTL

=============================================================================
