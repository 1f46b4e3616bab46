------------------------------ MODULE MCEvidence -----------------------------
EXTENDS Evidence, TLC

(* Addresses 0 and 1 are one graph pool, 2 another and 3 the default pool. *)
Layout  == 0 :> "graphA" @@ 1 :> "graphA" @@ 2 :> "graphB" @@ 3 :> "default"
Bytes   == "graphA" :> 2 @@ "graphB" :> 1

Blocks == {<<0, 1>>, <<1, 1>>, <<0, 2>>, <<2, 1>>, <<3, 1>>}

Lifetimes == {[addr |-> b[1], size |-> b[2], alloc |-> i, free |-> j] :
                b \in Blocks, i \in 0 .. End - 1, j \in 1 .. End}

Together(a, b) ==
    /\ {a.alloc, a.free} \cap {b.alloc, b.free} \subseteq {End}
    /\ \/ a.free <= b.alloc \/ b.free <= a.alloc
       \/ a.addr + a.size <= b.addr \/ b.addr + b.size <= a.addr

(* One or two allocations that one trace of End events can contain.        *)
SmallHeaps ==
    LET L == {a \in Lifetimes : a.alloc < a.free}
    IN  {{a} : a \in L} \cup {{p[1], p[2]} : p \in {q \in L \X L : Together(q[1], q[2])}}

Win(k, b, e) == [key |-> k, begin |-> b, end |-> e]

Captures  == {{}, {Win(1, 0, 4)}, {Win(1, 0, 2), Win(2, 2, 4)}, {Win(1, -1, 2), Win(2, 2, -1)},
              {Win(1, 0, 1), Win(2, 2, 2), Win(3, 2, 2), Win(4, 2, 4)}}
Segments  == {{}, {Win(5, 0, 1), Win(6, 1, 2), Win(7, 3, 4)}}

Bridge(p, o) == [ptr |-> p, ord |-> o]
Bridges == {<<>>} \cup {<<Bridge(p, o)>> : p \in {0, 1}, o \in {-1, 1, 3}}
           \cup {<<Bridge(0, -1), Bridge(0, 2)>>, <<Bridge(1, 2), Bridge(0, -1)>>}
=============================================================================
