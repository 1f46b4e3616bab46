--------------------------- MODULE CaptureSession ---------------------------
(***************************************************************************)
(* One process capturing CUDA graphs with the shim's wrappers installed    *)
(* (shim.py): the allocator that records a trace, the runner that captures *)
(* shapes and segments, the records the wrappers take of each with event   *)
(* ordinals, and the dump when the capture ends.                           *)
(*                                                                         *)
(* The runner is sequential; the allocator's events can come from any      *)
(* thread.  A call of _trace_len answers -1 or the length of the trace at  *)
(* some moment of the call, less the slack its calibration settled         *)
(* (TraceCounter shows why), so it is one step here, except the calibrating *)
(* call: events that come between its snapshot and its second reading of   *)
(* the stats end up in the slack.                                          *)
(***************************************************************************)
EXTENDS Integers, Sequences, FiniteSets, SequencesExt

CONSTANTS
    Addrs,        \* addresses of the pool, an interval of Nat
    Sizes,        \* sizes of blocks
    Values,       \* the shapes a runner captures
    Runners,      \* runner tags
    AxisOf,       \* runner -> "bs" or "num_tokens"
    MaxEntries,   \* capacity of the trace ring
    None,         \* Python's None
    MaxTrace,     \* bound: entries recorded in one capture
    MaxCaptures,  \* bound: captures of the process
    MaxSegments,  \* bound: segments of one shape
    MaxFails,     \* bound: calls of _trace_len that raise inside and answer -1
    MaxBridges,   \* bound: bridges of one capture
    MaxSlots      \* bound: buffers in the runner's registry

ASSUME PoolAssumption == Addrs \subseteq Nat /\ Sizes \subseteq Nat \ {0}
ASSUME AxisAssumption == AxisOf \in [Runners -> {"bs", "num_tokens"}]
ASSUME RingAssumption == MaxEntries \in Nat \ {0}
ASSUME BoundsAssumption == {MaxTrace, MaxCaptures, MaxSegments, MaxFails, MaxBridges, MaxSlots} \subseteq Nat
ASSUME NoneAssumption == None \notin Int

(* Born of a block that was allocated before recording began.              *)
Old == -1

VARIABLES
    recording,   \* trace recording is enabled
    trace,       \* every event since it was enabled, evicted ones included
    heap,        \* the live blocks, each with the ordinal it was born at
    past         \* auxiliary: blocks born and freed in this recording

VARIABLES        \* shim.py's module state
    slack,       \* None until _o1["base"] is set, then the error it has
    marked,      \* length of the trace at the snapshot of the call in progress, or None
    fails,       \* auxiliary: reads that failed
    windows, segments, bridges, slots, pending

VARIABLES        \* the program being captured
    at,          \* "out", "capture", "shape" or "segment"
    runner,      \* the runner in capture()
    shape,       \* locals and context variables of the current shape
    nseg,        \* segments begun in it
    captures,    \* captures begun
    artifact     \* what the last _dump wrote, None if none did

allocator == <<recording, trace, heap, past>>
records   == <<windows, segments, bridges, slots, pending>>
program   == <<at, runner, shape, nseg, captures, artifact>>
counter   == <<slack, marked, fails>>
vars      == <<allocator, counter, records, program>>

NoShape == [key |-> None, tokens |-> None, begin |-> 0, value |-> None]

Init ==
    /\ recording = FALSE /\ trace = <<>> /\ heap = {} /\ past = {}
    /\ slack = None /\ marked = None /\ fails = 0
    /\ windows = <<>> /\ segments = <<>> /\ bridges = <<>> /\ slots = {}
    /\ pending = <<>>
    /\ at = "out" /\ runner = None /\ shape = NoShape /\ nseg = 0
    /\ captures = 0 /\ artifact = None

-----------------------------------------------------------------------------
(* The allocator (external)                                                *)

BlockRange(b) == b.addr .. b.addr + b.size - 1

Event(act, b) == [act |-> act, addr |-> b.addr, size |-> b.size]

Marker == [act |-> "snapshot", addr |-> -1, size |-> 0]

(* Nothing of interest happens after the last capture.                     *)
Alive == recording \/ captures < MaxCaptures

Alloc(addr, size) ==
    /\ Alive
    /\ addr .. addr + size - 1 \subseteq Addrs
    /\ \A b \in heap : BlockRange(b) \cap (addr .. addr + size - 1) = {}
    /\ LET b == [addr |-> addr, size |-> size,
                 born |-> IF recording THEN Len(trace) ELSE Old]
       IN  /\ recording => Len(trace) < MaxTrace
           /\ heap' = heap \cup {b}
           /\ trace' = IF recording THEN Append(trace, Event("alloc", b)) ELSE trace
    /\ UNCHANGED <<recording, past, counter, records, program>>

(* A free is two entries.                                                  *)
Free(b) ==
    /\ Alive
    /\ heap' = heap \ {b}
    /\ recording => Len(trace) + 1 < MaxTrace
    /\ trace' = IF recording
                THEN trace \o <<Event("free_requested", b), Event("free_completed", b)>>
                ELSE trace
    /\ past' = IF recording /\ b.born # Old
               THEN past \cup {[addr |-> b.addr, size |-> b.size,
                                alloc |-> b.born, free |-> Len(trace)]}
               ELSE past
    /\ UNCHANGED <<recording, counter, records, program>>

(* How many of n entries a full ring has overwritten.                      *)
Overwritten(n)  == IF n > MaxEntries THEN n - MaxEntries ELSE 0
Evicted(events) == Overwritten(Len(events))
Kept(events)    == SubSeq(events, Evicted(events) + 1, Len(events))

-----------------------------------------------------------------------------
(* _trace_len, called by the runner's wrappers                             *)

(* _window_key of a shape.                                                 *)
WindowKey(r, axis, value) == <<r, axis, value>>

(* External: the runner captures each of its shapes once.                  *)
NotYet(value) == \A i \in DOMAIN windows : windows[i].key # WindowKey(runner, AxisOf[runner], value)

(* _snapshot_len in a call that calibrates: the snapshot, and the marker    *)
(* it leaves.  The wrapper that called it goes on when the call answers.   *)
Snapshot ==
    /\ at # "out" /\ (at = "capture" => \E v \in Values : NotYet(v))
    /\ slack = None /\ marked = None
    /\ Len(trace) < MaxTrace
    /\ marked' = Len(trace)
    /\ trace' = Append(trace, Marker)
    /\ UNCHANGED <<recording, heap, past, slack, fails, records, program>>

(* What the second reading of the stats can make of the base: the snapshot  *)
(* missed the events that were evicted, and the reading those that raced.  *)
Slacks == {Overwritten(marked) + raced : raced \in 0 .. Len(trace) - marked - 1}

(* The rest of the call, or all of one that needs no snapshot: answer ord.  *)
(* Any reading may raise, also the last one, when the base is set.         *)
TraceLen(ord) ==
    /\ \/ UNCHANGED slack
       \/ slack = None /\ marked # None /\ slack' \in Slacks
    /\ \/ slack' # None /\ ord = Len(trace) - slack' /\ UNCHANGED fails
       \/ ord = -1 /\ fails < MaxFails /\ fails' = fails + 1
    /\ marked' = None
    /\ UNCHANGED trace

(* Blocks that were there when the call in progress took its snapshot.     *)
Present == {b \in heap : marked # None => b.born < marked}

Ordinals == -1 .. MaxTrace

-----------------------------------------------------------------------------
(* _wrap_outer_capture around a runner's capture()                         *)

(* What _reset_accumulators leaves of a list.                              *)
NotCleared(list) == list
Cleared(list)    == <<>>

(* _reset_accumulators, then _start_recording.                             *)
EnterCapture(r) ==
    /\ at = "out" /\ captures < MaxCaptures
    /\ at' = "capture" /\ runner' = r /\ captures' = captures + 1
    /\ windows' = Cleared(windows) /\ segments' = Cleared(segments)
    /\ bridges' = Cleared(bridges) /\ pending' = Cleared(pending)
    /\ slots' = {}
    /\ recording' = TRUE /\ trace' = <<>> /\ past' = {}
    /\ heap' = {[b EXCEPT !.born = Old] : b \in heap}
    /\ slack' = None /\ marked' = None
    /\ UNCHANGED <<fails, shape, nseg, artifact>>

(* Return or exception: _dump, then _stop_recording.                       *)
ExitCapture ==
    /\ at = "capture" /\ marked = None
    /\ at' = "out"
    /\ artifact' = [events   |-> Kept(trace), evicted |-> Evicted(trace),
                    windows  |-> windows, segments |-> segments,
                    bridges  |-> bridges, slots    |-> slots,
                    heap     |-> heap,    past     |-> past,
                    slack    |-> slack]
    /\ recording' = FALSE
    /\ UNCHANGED <<trace, heap, past, counter, records, runner, shape, nseg, captures>>

-----------------------------------------------------------------------------
(* _wrap_per_shape around capture_one_shape(value)                         *)

(* _window_key of a segment.                                               *)
SegmentKey(tokens, idx) == <<"breakable", "num_tokens", tokens, idx>>

(* _extract_graph_slots, before _trace_len is called: the registry's       *)
(* buffers ptrs, once per window.                                          *)
WithSlots(ptrs, key) ==
    LET new(p) == [ptr |-> p, key |-> key,
                   born |-> (CHOOSE b \in heap : p \in BlockRange(b)).born]
    IN  slots \cup {new(p) : p \in {q \in ptrs : \A s \in slots : <<s.key, s.ptr>> # <<key, q>>}}

EnterShape(value, ptrs, ord) ==
    /\ at = "capture" /\ NotYet(value)
    /\ Cardinality(ptrs) <= MaxSlots
    /\ ptrs \subseteq UNION {BlockRange(b) : b \in Present}
    /\ TraceLen(ord)
    /\ at' = "shape"
    /\ LET axis == AxisOf[runner]
           key  == WindowKey(runner, axis, value)
       IN  /\ shape' = [key |-> key, value |-> value, begin |-> ord,
                        tokens |-> IF axis = "num_tokens" THEN value ELSE None]
           /\ slots' = WithSlots(ptrs, key)
    /\ nseg' = 0
    /\ UNCHANGED <<recording, heap, past, windows, segments, bridges, pending,
                   runner, captures, artifact>>

(* The finally clause runs on an exception too, so also inside a segment.  *)
ExitShape(ord) ==
    /\ at \in {"shape", "segment"}
    /\ TraceLen(ord)
    /\ at' = "capture"
    /\ windows' = Append(windows, [key |-> shape.key, begin |-> shape.begin, end |-> ord,
                                   tokens |-> shape.tokens])
    /\ shape' = NoShape
    /\ UNCHANGED <<recording, heap, past, segments, bridges, slots, pending,
                   runner, nseg, captures, artifact>>

-----------------------------------------------------------------------------
(* _wrap_segment_begin and _wrap_segment_end, inside a breakable capture   *)

(* The index of the segment that was begun last, of n segments.            *)
SegmentIdx(n) == n - 1

BeginSegment(ord) ==
    /\ at = "shape" /\ nseg < MaxSegments
    /\ TraceLen(ord)
    /\ at' = "segment" /\ nseg' = nseg + 1
    /\ pending' = Append(pending, [idx |-> SegmentIdx(nseg'), begin |-> ord, tokens |-> shape.tokens])
    /\ UNCHANGED <<recording, heap, past, windows, segments, bridges, slots,
                   runner, shape, captures, artifact>>

(* Which pending record an ending segment closes: _pending_segments.pop().  *)
Oldest(p)  == [head |-> Head(p), rest |-> Tail(p)]
Newest(p)  == [head |-> Last(p), rest |-> Front(p)]

EndSegment(ord) ==
    /\ at = "segment"
    /\ TraceLen(ord)
    /\ at' = "shape"
    /\ LET p == Newest(pending).head IN
       segments' = Append(segments, [key |-> SegmentKey(p.tokens, p.idx), tokens |-> p.tokens,
                                     begin |-> p.begin, end |-> ord])
    /\ pending' = Newest(pending).rest
    /\ UNCHANGED <<recording, heap, past, windows, bridges, slots,
                   runner, shape, nseg, captures, artifact>>

(* _wrap_weak_ref: a tensor stored at ptr in block b is weakly referenced. *)
Bridge(b, ptr, ord) ==
    /\ at \in {"shape", "segment"} /\ Len(bridges) < MaxBridges
    /\ b \in Present
    /\ TraceLen(ord)
    /\ bridges' = Append(bridges, [ptr |-> ptr, ord |-> ord, tokens |-> shape.tokens,
                                   born |-> b.born])
    /\ UNCHANGED <<recording, heap, past, windows, segments, slots, pending, program>>

Next ==
    \/ \E a \in Addrs, s \in Sizes : Alloc(a, s)
    \/ \E b \in heap : Free(b)
    \/ \E r \in Runners : EnterCapture(r)
    \/ Snapshot
    \/ \E v \in Values, ptrs \in SUBSET Addrs, ord \in Ordinals : EnterShape(v, ptrs, ord)
    \/ \E ord \in Ordinals : ExitShape(ord)
    \/ \E ord \in Ordinals : BeginSegment(ord)
    \/ \E ord \in Ordinals : EndSegment(ord)
    \/ \E b \in heap, ord \in Ordinals : \E ptr \in BlockRange(b) : Bridge(b, ptr, ord)
    \/ ExitCapture

Spec == Init /\ [][Next]_vars
-----------------------------------------------------------------------------
Events == [act : {"alloc", "free_requested", "free_completed", "snapshot"},
           addr : Addrs \cup {-1}, size : Nat]
Blocks == {b \in [addr : Addrs, size : Sizes, born : Old .. MaxTrace] : BlockRange(b) \subseteq Addrs}
Keys   == Runners \X {"bs", "num_tokens"} \X Values
Tokens == Values \cup {None}

WindowRecords  == [key : Keys, begin : Ordinals, end : Ordinals, tokens : Tokens]
SegmentRecords ==
    [key : {"breakable"} \X {"num_tokens"} \X Tokens \X (0 .. MaxSegments - 1),
     tokens : Tokens, begin : Ordinals, end : Ordinals]
BridgeRecords  == [ptr : Addrs, ord : Ordinals, tokens : Tokens, born : Old .. MaxTrace]
SlotRecords    == [ptr : Addrs, key : Keys, born : Old .. MaxTrace]
PastBlocks     == [addr : Addrs, size : Sizes, alloc : 0 .. MaxTrace, free : 0 .. MaxTrace]
PendingRecords == [idx : 0 .. MaxSegments - 1, begin : Ordinals, tokens : Tokens]

TypeOK ==
    /\ recording \in BOOLEAN
    /\ trace \in Seq(Events)
    /\ heap \subseteq Blocks
    /\ past \subseteq PastBlocks
    /\ slack \in Nat \cup {None} /\ marked \in Nat \cup {None} /\ fails \in 0 .. MaxFails
    /\ windows \in Seq(WindowRecords) /\ segments \in Seq(SegmentRecords)
    /\ bridges \in Seq(BridgeRecords) /\ slots \subseteq SlotRecords
    /\ pending \in Seq(PendingRecords)
    /\ at \in {"out", "capture", "shape", "segment"}
    /\ runner \in Runners \cup {None} /\ (at # "out" => runner \in Runners)
    /\ at \in {"shape", "segment"} =>
          shape \in [key : Keys, begin : Ordinals, tokens : Tokens, value : Values]
    /\ at = "segment" => pending # <<>>
    /\ nseg \in 0 .. MaxSegments /\ captures \in 0 .. MaxCaptures
=============================================================================
