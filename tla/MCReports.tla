------------------------------ MODULE MCReports ------------------------------
EXTENDS MemoryMap, TLC

(* Two adjacent segments of the graph pool, one behind a gap, and one of   *)
(* the default pool.                                                       *)
Segs    == {[addr |-> 0, size |-> 3], [addr |-> 3, size |-> 1], [addr |-> 5, size |-> 2]}
Default == {[addr |-> 8, size |-> 1]}

(* Some reach into the next segment, or over the gap; 4 is in no segment.  *)
Blocks == {<<0, 1>>, <<1, 1>>, <<2, 1>>, <<0, 2>>, <<3, 1>>, <<4, 1>>, <<2, 2>>}

Lifetimes == {[addr |-> b[1], size |-> b[2], alloc |-> i, free |-> j] :
                b \in Blocks, i \in 0 .. End - 1, j \in 1 .. End}

Together(a, b) ==
    /\ {a.alloc, a.free} \cap {b.alloc, b.free} \subseteq {End}
    /\ \/ a.free <= b.alloc \/ b.free <= a.alloc
       \/ a.addr + a.size <= b.addr \/ b.addr + b.size <= a.addr

(* One or two allocations that one trace of End events can contain.        *)
SmallHeaps ==
    LET L == {a \in Lifetimes : a.alloc < a.free}
    IN  {{a} : a \in L} \cup {{p[1], p[2]} : p \in {q \in L \X L : Together(q[1], q[2])}}

Win(r, k, b, e) == [runner |-> r, key |-> k, begin |-> b, end |-> e]

Captures ==
    {<<Win("eagle_draft", "1", 0, 2), Win("eagle_draft", "2", 2, 5)>>,
     <<Win("piecewise", "1", 1, 3), Win("breakable", "2", 3, 4), Win("breakable", "3", -1, 5)>>,
     <<Win("decode", "1", None, 2), Win("decode", "2", 1, 4), Win("eagle_draft", "3", 3, 2)>>}

SegmentWindows ==
    {<<>>, <<Win("breakable", "7", 1, 2), Win("breakable", "8", 2, -1), Win("breakable", "9", 2, 2)>>}

(* Three allocations that live one after the other or together, with no    *)
(* windows or one.                                                         *)
Wide == {<<0, 1>>, <<2, 2>>, <<3, 3>>, <<5, 2>>, <<4, 1>>, <<8, 1>>}

At(b, i, j) == [addr |-> b[1], size |-> b[2], alloc |-> i, free |-> j]

WideHeaps ==
    LET heaps == {{At(p, 0, 2), At(q, 1, 4), At(r, 3, 5)} : p, q, r \in Wide}
                 \cup {{At(p, 0, 1), At(q, 2, 5), At(r, 3, 5)} : p, q, r \in Wide}
    IN  {h \in heaps : \A a, b \in h : a = b \/ Together(a, b)}

InGraph(a) == \E s \in Segs : Within(a, s)

(* What may be found of the graph pool's allocations of a heap: at most one *)
(* of them by two detectors.                                               *)
Found(h) ==
    {{[of |-> a, det |-> "oversized"] : a \in F} \cup {[of |-> a, det |-> "long_lived"] : a \in G} :
        F \in SUBSET {a \in h : InGraph(a)}, G \in {{}} \cup {{a} : a \in {b \in h : InGraph(b)}}}

Input(h, c, s, fs) == [allocs |-> h, captures |-> c, segments |-> s, findings |-> fs]

All ==
    {Input(h, c, s, {}) : h \in SmallHeaps, c \in Captures, s \in SegmentWindows}
    \cup UNION {{Input(h, c, <<>>, fs) : c \in {<<>>, <<Win("eagle_draft", "1", 1, 3)>>}, fs \in Found(h)} :
                 h \in WideHeaps}

ShimCaptures == {Input(h, <<Win(r, "1", 1, 3)>>, <<>>, {}) : h \in SmallHeaps, r \in RunnerTags}
=============================================================================
