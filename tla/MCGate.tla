-------------------------------- MODULE MCGate -------------------------------
EXTENDS SnapshotGate, TLC

(* Two segments of the graph pool, one per device, and one that is not.    *)
Segs == <<[addr |-> 3, size |-> 2, graph |-> TRUE], [addr |-> 0, size |-> 3, graph |-> TRUE],
          [addr |-> 7, size |-> 1, graph |-> FALSE]>>

Ev(d, act, a, s) == [addr |-> a, size |-> s, act |-> act, dev |-> d]
Freed(d, a, s)   == <<Ev(d, "free_requested", a, s), Ev(d, "free_completed", a, s)>>

FirstDevice ==
    {<<>>, <<Ev(1, "alloc", 0, 1)>> \o Freed(1, 0, 1) \o <<Ev(1, "alloc", 0, 2)>>,
     <<Ev(1, "alloc", 7, 1), Ev(1, "free_requested", 2, 1), Ev(1, "alloc", 1, 2)>>}
SecondDevice ==
    {<<>>, <<Ev(2, "segment_alloc", 3, 2), Ev(2, "alloc", 4, 1)>>,
     <<Ev(2, "alloc", 3, 2), Ev(2, "free_completed", 3, 2)>>}

(* Every order of two sequences of events.                                 *)
Interleavings(s, t) ==
    LET n == Len(s) + Len(t)
        rank(i, P) == Cardinality({j \in P : j <= i})
    IN  {[i \in 1 .. n |-> IF i \in P THEN s[rank(i, P)] ELSE t[i - rank(i, P)]] :
            P \in {Q \in SUBSET (1 .. n) : Cardinality(Q) = Len(s)}}

(* Clocks that tick at every event or, in the shorter ones, at every other. *)
Clocked(h, each) == <<>> \o [i \in DOMAIN h |-> [addr |-> h[i].addr, size |-> h[i].size, act |-> h[i].act,
                                                 dev |-> h[i].dev, time |-> i \div each]]

Captures ==
    LET orders == UNION {Interleavings(s, t) : s \in FirstDevice, t \in SecondDevice}
    IN  {Clocked(h, 1) : h \in orders} \cup {Clocked(h, 2) : h \in {o \in orders : Len(o) <= 4}}

TwoGraphs == Clocked(<<Ev(1, "alloc", 0, 1), Ev(1, "alloc", 1, 2), Ev(1, "alloc", 3, 1)>>, 1)

Versions ==
    {[fields |-> {}, at |-> 0], [fields |-> {"traces", "address"}, at |-> 0]}
    \cup {[fields |-> {f}, at |-> 0] : f \in Fields}
    \cup {[fields |-> {f}, at |-> n] : f \in Fields \ {"required", "traces"}, n \in {1, 3}}
=============================================================================
