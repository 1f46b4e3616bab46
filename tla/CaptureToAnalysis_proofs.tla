---------------------- MODULE CaptureToAnalysis_proofs ----------------------
(***************************************************************************)
(* Proofs about the records of a capture, for any pool, shapes, runners    *)
(* and ring, and however reads fail and captures raise: the windows of a   *)
(* dump are in order, its segments lie in the windows of their shapes, a   *)
(* trace that lost events is reported, and from a whole one the analyzer   *)
(* rebuilds the blocks that lived and attributes bridges and slots to them. *)
(***************************************************************************)
EXTENDS CaptureToAnalysis, TraceAnalysis_proofs, SequenceTheorems, TLAPS

USE PoolAssumption, RingAssumption, NoneAssumption, AxisAssumption, BoundsAssumption

(* The slack that a call may settle is a number of events.                 *)
LEMMA SlacksTyped ==
    ASSUME TypeOK, marked # None
    PROVE  Slacks \subseteq Nat
<1>1. trace \in Seq(Events) /\ marked \in Nat
  BY DEF TypeOK
<1>2. Overwritten(marked) \in Nat /\ Len(trace) \in Nat
  BY <1>1 DEF Overwritten
<1>. QED  BY <1>1, <1>2 DEF Slacks

(* The slack is settled once, and an answer is the length less the slack.  *)
LEMMA TraceLenSettles ==
    ASSUME TypeOK, NEW ord \in Ordinals, TraceLen(ord)
    PROVE  /\ trace' = trace /\ slack' \in Nat \cup {None} /\ marked' \in Nat \cup {None} /\ fails' \in 0 .. MaxFails
           /\ slack # None => slack' = slack
           /\ ord >= 0 => slack' \in Nat /\ slack' # None /\ ord + slack' = Len(trace)
<1>t. /\ trace \in Seq(Events) /\ Len(trace) \in Nat
      /\ slack \in Nat \cup {None} /\ fails \in 0 .. MaxFails /\ ord \in Int
  <2>1. trace \in Seq(Events)
    BY DEF TypeOK
  <2>2. ord \in Int
    BY DEF Ordinals
  <2>. QED  BY <2>1, <2>2 DEF TypeOK
<1>1. slack' \in Nat \cup {None} /\ (slack # None => slack' = slack)
  BY <1>t, SlacksTyped DEF TraceLen
<1>2. fails' \in 0 .. MaxFails
  BY <1>t DEF TraceLen
<1>3. trace' = trace /\ marked' = None
  BY DEF TraceLen
<1>4. ASSUME ord >= 0
      PROVE  slack' \in Nat /\ slack' # None /\ ord + slack' = Len(trace)
  <2>1. slack' # None /\ ord = Len(trace) - slack'
    BY <1>4 DEF TraceLen
  <2>. QED  BY <1>t, <1>1, <2>1
<1>. QED  BY <1>1, <1>2, <1>3, <1>4

(* What one call of _trace_len does to the ordinals.                       *)
LEMMA TraceLenOrders ==
    ASSUME TypeOK, NEW ord \in Ordinals, TraceLen(ord)
    PROVE  /\ trace' \in Seq(Events) /\ slack' \in Nat \cup {None} /\ marked' \in Nat \cup {None} /\ fails' \in 0 .. MaxFails
           /\ WasRead(ord)'
           /\ \A o \in Int : WasRead(o) => WasRead(o)' /\ (o >= 0 /\ ord >= 0 => o <= ord)
<1>t. trace \in Seq(Events) /\ Len(trace) \in Nat /\ slack \in Nat \cup {None} /\ ord \in Int
  <2>1. trace \in Seq(Events)
    BY DEF TypeOK
  <2>2. ord \in Int
    BY DEF Ordinals
  <2>. QED  BY <2>1, <2>2 DEF TypeOK
<1>1. /\ trace' = trace /\ slack' \in Nat \cup {None} /\ marked' \in Nat \cup {None} /\ fails' \in 0 .. MaxFails
      /\ slack # None => slack' = slack
      /\ ord >= 0 => slack' \in Nat /\ slack' # None /\ ord + slack' = Len(trace)
  BY TraceLenSettles
<1>2. WasRead(ord)'
  BY <1>t, <1>1 DEF WasRead
<1>3. ASSUME NEW o \in Int, WasRead(o)
      PROVE  WasRead(o)' /\ (o >= 0 /\ ord >= 0 => o <= ord)
  <2>1. CASE o < 0
    BY <2>1 DEF WasRead
  <2>2. ASSUME o >= 0
        PROVE  slack \in Nat /\ slack' = slack /\ slack # None /\ o <= Len(trace) - slack
    BY <1>t, <1>1, <1>3, <2>2 DEF WasRead
  <2>3. CASE o >= 0
    BY <1>t, <1>1, <2>2, <2>3 DEF WasRead
  <2>. QED  BY <2>1, <2>3
<1>. QED  BY <1>t, <1>1, <1>2, <1>3

(* A step that leaves the slack and only lengthens the trace.              *)
LEMMA ReadsKept ==
    ASSUME Len(trace) \in Nat, Len(trace') \in Nat, Len(trace) <= Len(trace'), UNCHANGED slack, TypeOK
    PROVE  \A o \in Int : WasRead(o) => WasRead(o)'
BY DEF WasRead, TypeOK

(* The ordinals in the records are integers.                               *)
LEMMA RecordTypes ==
    ASSUME TypeOK
    PROVE  /\ Len(trace) \in Nat
           /\ \A i \in DOMAIN windows : windows[i].begin \in Int /\ windows[i].end \in Int
           /\ \A i \in DOMAIN segments : segments[i].begin \in Int /\ segments[i].end \in Int
           /\ Begun => shape.begin \in Int
<1>1. trace \in Seq(Events) /\ windows \in Seq(WindowRecords) /\ segments \in Seq(SegmentRecords)
  BY DEF TypeOK
<1>2. Ordinals \subseteq Int
  BY DEF Ordinals
<1>3. \A i \in DOMAIN windows : windows[i].begin \in Int /\ windows[i].end \in Int
  <2>1. \A i \in DOMAIN windows : windows[i] \in WindowRecords
    BY <1>1
  <2>. QED  BY <2>1, <1>2 DEF WindowRecords
<1>4. \A i \in DOMAIN segments : segments[i].begin \in Int /\ segments[i].end \in Int
  <2>1. \A i \in DOMAIN segments : segments[i] \in SegmentRecords
    BY <1>1
  <2>. QED  BY <2>1, <1>2 DEF SegmentRecords
<1>5. Begun => shape.begin \in Int
  BY <1>2 DEF TypeOK, Begun
<1>. QED  BY <1>1, <1>3, <1>4, <1>5

(* At the start there is nothing to be out of order.                       *)
LEMMA InitIInv == Init => IInv
<1>. SUFFICES ASSUME Init PROVE IInv
  OBVIOUS
<1>1. recording \in BOOLEAN
  BY DEF Init
<1>2. /\ trace \in Seq(Events) /\ heap \subseteq Blocks
      /\ fails \in 0 .. MaxFails /\ nseg \in 0 .. MaxSegments /\ captures \in 0 .. MaxCaptures
  BY DEF Init
<1>3. TypeOK
  BY <1>1, <1>2 DEF Init, TypeOK
<1>. QED  BY <1>3 DEF Init, IInv, InOrder, ReadsInOrder, SegmentsPlaced, WindowsInOrder, SegmentsNested,
                     Dumped, Begun

-----------------------------------------------------------------------------
(* The allocator's steps: the trace grows, the records stay.               *)
LEMMA AllocatorIInv ==
    ASSUME IInv, TypeOK', Len(trace) <= Len(trace'), UNCHANGED <<slack, records, program>>
    PROVE  IInv'
<1>1. Len(trace) \in Nat /\ Len(trace') \in Nat
  <2>1. trace \in Seq(Events)
    BY DEF IInv, TypeOK
  <2>2. trace' \in Seq(Events)
    BY DEF TypeOK
  <2>. QED  BY <2>1, <2>2
<1>2. \A o \in Int : WasRead(o) => WasRead(o)'
  BY <1>1, ReadsKept DEF IInv
<1>3. /\ \A i \in DOMAIN windows : windows[i].end \in Int
      /\ \A i \in DOMAIN segments : segments[i].end \in Int
      /\ Begun => shape.begin \in Int
  BY RecordTypes DEF IInv
<1>4. InOrder(windows)' /\ ReadsInOrder'
  BY <1>2, <1>3 DEF IInv, InOrder, ReadsInOrder, Begun, records, program
<1>5. SegmentsPlaced'
  BY <1>2, <1>3 DEF IInv, SegmentsPlaced, Begun, Inside, Encloses, records, program
<1>6. WindowsInOrder' /\ SegmentsNested'
  BY DEF IInv, WindowsInOrder, SegmentsNested, Dumped, InOrder, Nested, Encloses, program
<1>. QED  BY <1>4, <1>5, <1>6 DEF IInv

(* An allocation only lengthens the trace.                                 *)
LEMMA AllocIInv ==
    ASSUME IInv, NEW a \in Addrs, NEW z \in Sizes, Alloc(a, z)
    PROVE  IInv'
<1>t. TypeOK
  BY DEF IInv
<1>. DEFINE b == [addr |-> a, size |-> z, born |-> IF recording THEN Len(trace) ELSE Old]
<1>1. Len(trace) \in Nat
  BY <1>t DEF TypeOK
<1>2. b.born \in Old .. MaxTrace
  BY <1>1 DEF Alloc, Old
<1>3. b \in Blocks
  BY <1>2 DEF Alloc, Blocks, BlockRange
<1>4. Event("alloc", b) \in Events
  BY DEF Event, Events
<1>5. trace' \in Seq(Events) /\ Len(trace) <= Len(trace')
  <2>. DEFINE event == Event("alloc", b)
  <2>1. trace \in Seq(Events)
    BY <1>t DEF TypeOK
  <2>2. trace' = trace \/ trace' = Append(trace, event)
    BY DEF Alloc
  <2>. HIDE DEF event
  <2>3. event \in Events
    BY <1>4 DEF event
  <2>4. Append(trace, event) \in Seq(Events) /\ Len(Append(trace, event)) = Len(trace) + 1
    BY <2>1, <2>3, AppendProperties
  <2>5. CASE trace' = trace
    BY <1>1, <2>1, <2>5
  <2>6. CASE trace' = Append(trace, event)
    BY <1>1, <2>4, <2>6
  <2>. QED  BY <2>2, <2>5, <2>6
<1>6. TypeOK'
  <2>1. heap' = heap \cup {b} /\ UNCHANGED <<recording, past, counter, records, program>>
    BY DEF Alloc
  <2>. HIDE DEF b
  <2>2. heap' \subseteq Blocks
    BY <1>t, <1>3, <2>1 DEF TypeOK
  <2>. QED  BY <1>t, <1>5, <2>1, <2>2 DEF TypeOK, counter, records, program
<1>. QED  BY <1>5, <1>6, AllocatorIInv DEF Alloc, counter

(* So does a free.                                                         *)
LEMMA FreeIInv ==
    ASSUME IInv, NEW b \in heap, Free(b)
    PROVE  IInv'
<1>t. TypeOK
  BY DEF IInv
<1>1. Len(trace) \in Nat /\ b \in Blocks
  BY <1>t DEF TypeOK
<1>2. Event("free_requested", b) \in Events /\ Event("free_completed", b) \in Events
  BY <1>1 DEF Event, Events, Blocks
<1>. DEFINE two == <<Event("free_requested", b), Event("free_completed", b)>>
<1>3. two \in Seq(Events) /\ Len(two) = 2
  BY <1>2
<1>4. trace' \in Seq(Events) /\ Len(trace) <= Len(trace')
  <2>1. trace \in Seq(Events)
    BY <1>t DEF TypeOK
  <2>2. CASE trace' = trace
    BY <2>1, <2>2, <1>1
  <2>3. CASE trace' = trace \o two
    <3>. HIDE DEF two
    <3>. QED  BY <2>1, <2>3, <1>1, <1>3, ConcatProperties
  <2>. QED  BY <2>2, <2>3 DEF Free
<1>5. past' \subseteq PastBlocks
  <2>1. past \subseteq PastBlocks
    BY <1>t DEF TypeOK
  <2>2. b.addr \in Addrs /\ b.size \in Sizes /\ b.born \in -1 .. MaxTrace
    BY <1>1 DEF Blocks, Old
  <2>3. CASE recording /\ b.born # Old
    <3>1. Len(trace) \in 0 .. MaxTrace /\ b.born \in 0 .. MaxTrace
      BY <1>1, <2>2, <2>3 DEF Free, Old
    <3>2. past' = past \cup {[addr |-> b.addr, size |-> b.size, alloc |-> b.born, free |-> Len(trace)]}
      BY <2>3 DEF Free
    <3>. QED  BY <2>1, <2>2, <3>1, <3>2 DEF PastBlocks
  <2>4. CASE ~(recording /\ b.born # Old)
    BY <2>1, <2>4 DEF Free
  <2>. QED  BY <2>3, <2>4
<1>6. TypeOK'
  <2>1. heap' = heap \ {b} /\ UNCHANGED <<recording, counter, records, program>>
    BY DEF Free
  <2>2. heap' \subseteq Blocks
    BY <1>t, <2>1 DEF TypeOK
  <2>. QED  BY <1>t, <1>4, <1>5, <2>1, <2>2 DEF TypeOK, counter, records, program
<1>. QED  BY <1>4, <1>6, AllocatorIInv DEF Free, counter

(* The marker of a snapshot is one more entry.                             *)
LEMMA SnapshotIInv ==
    ASSUME IInv, Snapshot
    PROVE  IInv'
<1>t. TypeOK
  BY DEF IInv
<1>1. trace \in Seq(Events) /\ Len(trace) \in Nat
  <2>1. trace \in Seq(Events)
    BY <1>t DEF TypeOK
  <2>. QED  BY <2>1
<1>2. trace' \in Seq(Events) /\ Len(trace) <= Len(trace')
  <2>1. Marker \in Events /\ trace' = Append(trace, Marker)
    BY DEF Marker, Events, Snapshot
  <2>. HIDE DEF Events
  <2>2. Append(trace, Marker) \in Seq(Events) /\ Len(Append(trace, Marker)) = Len(trace) + 1
    BY <1>1, <2>1, AppendProperties
  <2>. QED  BY <1>1, <2>1, <2>2
<1>3. TypeOK'
  <2>1. marked' \in Nat
    BY <1>1 DEF Snapshot
  <2>. QED  BY <1>t, <1>2, <2>1 DEF Snapshot, TypeOK, records, program
<1>. QED  BY <1>2, <1>3, AllocatorIInv DEF Snapshot

-----------------------------------------------------------------------------
(* The outer capture.                                                      *)
LEMMA EnterCaptureIInv ==
    ASSUME IInv, NEW r \in Runners, EnterCapture(r)
    PROVE  IInv'
<1>t. TypeOK
  BY DEF IInv
<1>1. heap' \subseteq Blocks
  <2>1. heap \subseteq Blocks
    BY <1>t DEF TypeOK
  <2>2. ASSUME NEW b \in Blocks
        PROVE  [b EXCEPT !.born = Old] \in Blocks
    <3>1. /\ b \in [addr : Addrs, size : Sizes, born : Old .. MaxTrace]
          /\ b.addr .. b.addr + b.size - 1 \subseteq Addrs
      BY DEF Blocks, BlockRange
    <3>2. Old \in Old .. MaxTrace
      BY DEF Old
    <3>3. [b EXCEPT !.born = Old] = [addr |-> b.addr, size |-> b.size, born |-> Old]
      BY <3>1
    <3>. QED  BY <3>1, <3>2, <3>3 DEF Blocks, BlockRange
  <2>3. heap' = {[b EXCEPT !.born = Old] : b \in heap}
    BY DEF EnterCapture
  <2>. QED  BY <2>1, <2>2, <2>3
<1>2. recording' \in BOOLEAN
  BY DEF EnterCapture
<1>3. captures' \in 0 .. MaxCaptures
  BY <1>t DEF EnterCapture, TypeOK
<1>4. /\ windows' = <<>> /\ segments' = <<>> /\ bridges' = <<>> /\ pending' = <<>>
      /\ slots' = {} /\ trace' = <<>> /\ past' = {} /\ slack' = None /\ marked' = None
      /\ at' = "capture" /\ runner' = r /\ UNCHANGED <<fails, shape, nseg, artifact>>
  BY DEF EnterCapture, Cleared
<1>5. TypeOK'
  BY <1>t, <1>1, <1>2, <1>3, <1>4 DEF TypeOK
<1>6. InOrder(windows)' /\ ReadsInOrder' /\ SegmentsPlaced'
  BY <1>4 DEF InOrder, ReadsInOrder, SegmentsPlaced, Begun
<1>7. WindowsInOrder' /\ SegmentsNested'
  BY <1>4 DEF IInv, WindowsInOrder, SegmentsNested, Dumped, InOrder, Nested, Encloses
<1>. QED  BY <1>5, <1>6, <1>7 DEF IInv

(* No shape is under way, so every closed segment has its window.          *)
LEMMA ExitCaptureIInv ==
    ASSUME IInv, ExitCapture
    PROVE  IInv'
<1>t. TypeOK
  BY DEF IInv
<1>1. recording' \in BOOLEAN
  BY DEF ExitCapture
<1>2. TypeOK'
  BY <1>t, <1>1 DEF ExitCapture, TypeOK, counter, records
<1>3. InOrder(windows)' /\ ReadsInOrder'
  BY DEF IInv, ExitCapture, InOrder, ReadsInOrder, WasRead, Begun, counter, records
<1>4. Nested(segments, windows)
  BY DEF IInv, ExitCapture, SegmentsPlaced, Begun, Nested
<1>5. SegmentsPlaced'
  BY DEF IInv, ExitCapture, SegmentsPlaced, Begun, WasRead, Encloses, counter, records
<1>6. artifact'.windows = windows /\ artifact'.segments = segments
  BY DEF ExitCapture
<1>7. WindowsInOrder' /\ SegmentsNested'
  BY <1>4, <1>6 DEF IInv, WindowsInOrder, SegmentsNested, InOrder, Nested, Encloses
<1>. QED  BY <1>2, <1>3, <1>5, <1>7 DEF IInv

-----------------------------------------------------------------------------
(* The shapes and segments of a capture.                                   *)

(* A dump is only written at the end of a capture.                         *)
LEMMA ArtifactKept ==
    ASSUME IInv, UNCHANGED artifact
    PROVE  WindowsInOrder' /\ SegmentsNested'
BY DEF IInv, WindowsInOrder, SegmentsNested, Dumped, InOrder, Nested, Encloses

(* The slots of a shape keep the type of slots.                            *)
LEMMA SlotsTyped ==
    ASSUME TypeOK, NEW key \in Keys, NEW ptrs \in SUBSET UNION {BlockRange(b) : b \in heap}
    PROVE  WithSlots(ptrs, key) \subseteq SlotRecords
<1>. DEFINE new(p) == [ptr |-> p, key |-> key,
                       born |-> (CHOOSE b \in heap : p \in BlockRange(b)).born]
<1>1. ASSUME NEW p \in ptrs
      PROVE  new(p) \in SlotRecords
  <2>1. PICK b \in heap : p \in BlockRange(b)
    OBVIOUS
  <2>2. heap \subseteq Blocks
    BY DEF TypeOK
  <2>3. p \in Addrs
    BY <2>1, <2>2 DEF Blocks
  <2>4. (CHOOSE c \in heap : p \in BlockRange(c)) \in heap
    BY <2>1
  <2>. QED  BY <2>2, <2>3, <2>4 DEF Blocks, SlotRecords
<1>2. WithSlots(ptrs, key)
        = slots \cup {new(p) : p \in {q \in ptrs : \A s \in slots : <<s.key, s.ptr>> # <<key, q>>}}
  BY DEF WithSlots
<1>3. slots \subseteq SlotRecords
  BY DEF TypeOK
<1>. HIDE DEF new
<1>. QED  BY <1>1, <1>2, <1>3

(* A shape begins after the windows that were closed before it.            *)
LEMMA EnterShapeIInv ==
    ASSUME IInv, NEW v \in Values, NEW ptrs \in SUBSET Addrs, NEW ord \in Ordinals,
           EnterShape(v, ptrs, ord)
    PROVE  IInv'
<1>t. TypeOK
  BY DEF IInv
<1>0. TraceLen(ord) /\ at' = "shape"
  BY DEF EnterShape
<1>1. /\ trace' \in Seq(Events) /\ slack' \in Nat \cup {None} /\ marked' \in Nat \cup {None} /\ fails' \in 0 .. MaxFails
      /\ WasRead(ord)'
      /\ \A o \in Int : WasRead(o) => WasRead(o)' /\ (o >= 0 /\ ord >= 0 => o <= ord)
  BY <1>t, <1>0, TraceLenOrders
<1>. DEFINE key == WindowKey(runner, AxisOf[runner], v)
<1>2. runner \in Runners
  BY <1>t DEF EnterShape, TypeOK
<1>3. key \in Keys
  BY <1>2 DEF WindowKey, Keys
<1>4. shape' = [key |-> key, value |-> v, begin |-> ord,
                tokens |-> IF AxisOf[runner] = "num_tokens" THEN v ELSE None]
  BY DEF EnterShape
<1>5. shape' \in [key : Keys, begin : Ordinals, tokens : Tokens, value : Values]
  BY <1>3, <1>4 DEF Tokens
<1>6. slots' \subseteq SlotRecords
  <2>1. ptrs \in SUBSET UNION {BlockRange(b) : b \in heap}
    BY DEF EnterShape, Present
  <2>. QED  BY <1>t, <1>3, <2>1, SlotsTyped DEF EnterShape
<1>7. TypeOK'
  <2>1. trace' \in Seq(Events) /\ slack' \in Nat \cup {None} /\ marked' \in Nat \cup {None} /\ fails' \in 0 .. MaxFails
    BY <1>1
  <2>2. at' = "shape"
    BY <1>0
  <2>. QED  BY <1>t, <1>2, <1>5, <1>6, <2>1, <2>2 DEF EnterShape, TypeOK
<1>8. InOrder(windows)' /\ ReadsInOrder'
  <2>1. \A i \in DOMAIN windows : windows[i].end \in Int /\ WasRead(windows[i].end)
    BY <1>t, RecordTypes DEF IInv, ReadsInOrder
  <2>2. shape'.begin = ord /\ windows' = windows
    BY <1>4 DEF EnterShape
  <2>. QED  BY <1>1, <2>1, <2>2 DEF IInv, InOrder, ReadsInOrder
<1>9. SegmentsPlaced'
  <2>1. \A i \in DOMAIN segments : segments[i].end \in Int
    BY <1>t, RecordTypes
  <2>2. /\ \A i \in DOMAIN segments : /\ WasRead(segments[i].end)
                                     /\ \E j \in DOMAIN windows : Encloses(windows[j], segments[i])
        /\ segments' = segments /\ windows' = windows
    BY DEF IInv, SegmentsPlaced, Begun, EnterShape
  <2>. QED  BY <1>0, <1>1, <2>1, <2>2 DEF SegmentsPlaced, Encloses
<1>10. WindowsInOrder' /\ SegmentsNested'
  BY ArtifactKept DEF EnterShape
<1>. QED  BY <1>7, <1>8, <1>9, <1>10 DEF IInv

(* What a step does that reads one ordinal and leaves the windows alone.   *)
LEMMA ReadInShape ==
    ASSUME IInv, NEW ord \in Ordinals, TraceLen(ord), Begun, Begun',
           UNCHANGED <<windows, shape, artifact>>
    PROVE  /\ trace' \in Seq(Events) /\ slack' \in Nat \cup {None} /\ marked' \in Nat \cup {None} /\ fails' \in 0 .. MaxFails
           /\ shape.begin \in Int /\ (shape.begin >= 0 /\ ord >= 0 => shape.begin <= ord)
           /\ WasRead(ord)'
           /\ \A o \in Int : WasRead(o) => WasRead(o)'
           /\ InOrder(windows)' /\ ReadsInOrder'
           /\ WindowsInOrder' /\ SegmentsNested'
<1>t. TypeOK
  BY DEF IInv
<1>1. /\ trace' \in Seq(Events) /\ slack' \in Nat \cup {None} /\ marked' \in Nat \cup {None} /\ fails' \in 0 .. MaxFails
      /\ WasRead(ord)'
      /\ \A o \in Int : WasRead(o) => WasRead(o)' /\ (o >= 0 /\ ord >= 0 => o <= ord)
  BY <1>t, TraceLenOrders
<1>2. shape.begin \in Int /\ WasRead(shape.begin)
  BY <1>t, RecordTypes DEF IInv, ReadsInOrder
<1>3. \A i \in DOMAIN windows : windows[i].end \in Int /\ WasRead(windows[i].end)
  BY <1>t, RecordTypes DEF IInv, ReadsInOrder
<1>4. InOrder(windows)' /\ ReadsInOrder'
  BY <1>1, <1>2, <1>3 DEF IInv, InOrder, ReadsInOrder
<1>5. WindowsInOrder' /\ SegmentsNested'
  BY ArtifactKept
<1>. QED  BY <1>1, <1>2, <1>4, <1>5

(* A segment begins within its shape.                                      *)
LEMMA BeginSegmentIInv ==
    ASSUME IInv, NEW ord \in Ordinals, BeginSegment(ord)
    PROVE  IInv'
<1>t. TypeOK
  BY DEF IInv
<1>0. TraceLen(ord) /\ Begun /\ Begun' /\ UNCHANGED <<windows, shape, artifact>>
  BY DEF BeginSegment, Begun
<1>1. /\ trace' \in Seq(Events) /\ slack' \in Nat \cup {None} /\ marked' \in Nat \cup {None} /\ fails' \in 0 .. MaxFails
      /\ shape.begin \in Int /\ (shape.begin >= 0 /\ ord >= 0 => shape.begin <= ord)
      /\ \A o \in Int : WasRead(o) => WasRead(o)'
      /\ InOrder(windows)' /\ ReadsInOrder'
      /\ WindowsInOrder' /\ SegmentsNested'
  BY <1>0, ReadInShape
<1>. DEFINE rec == [idx |-> SegmentIdx(nseg'), begin |-> ord, tokens |-> shape.tokens]
<1>2. nseg' \in 1 .. MaxSegments
  BY <1>t DEF BeginSegment, TypeOK
<1>3. rec \in PendingRecords
  BY <1>t, <1>2 DEF BeginSegment, TypeOK, SegmentIdx, PendingRecords
<1>4. /\ pending' \in Seq(PendingRecords) /\ pending' # <<>>
      /\ pending'[Len(pending')] = rec
  <2>1. pending \in Seq(PendingRecords) /\ pending' = Append(pending, rec)
    BY <1>t DEF BeginSegment, TypeOK
  <2>. HIDE DEF rec
  <2>. QED  BY <2>1, <1>3, AppendProperties
<1>5. TypeOK'
  <2>1. nseg' \in 0 .. MaxSegments /\ pending' \in Seq(PendingRecords) /\ pending' # <<>>
    BY <1>2, <1>4
  <2>. HIDE DEF rec
  <2>. QED  BY <1>t, <1>1, <2>1 DEF BeginSegment, TypeOK
<1>6. SegmentsPlaced'
  <2>1. (Inside(pending[Len(pending)]))'
    BY <1>0, <1>1, <1>4 DEF Inside
  <2>2. \A i \in DOMAIN segments : segments[i].end \in Int
    BY <1>t, RecordTypes
  <2>3. segments' = segments
    BY DEF BeginSegment
  <2>. QED  BY <1>0, <1>1, <2>1, <2>2, <2>3 DEF IInv, SegmentsPlaced, Inside, Encloses
<1>. QED  BY <1>1, <1>5, <1>6 DEF IInv

(* It ends there too; its record may be one that a shape which raised      *)
(* left.                                                                   *)
LEMMA EndSegmentIInv ==
    ASSUME IInv, NEW ord \in Ordinals, EndSegment(ord)
    PROVE  IInv'
<1>t. TypeOK
  BY DEF IInv
<1>0. TraceLen(ord) /\ Begun /\ Begun' /\ UNCHANGED <<windows, shape, artifact>>
  BY DEF EndSegment, Begun
<1>1. /\ trace' \in Seq(Events) /\ slack' \in Nat \cup {None} /\ marked' \in Nat \cup {None} /\ fails' \in 0 .. MaxFails
      /\ WasRead(ord)'
      /\ \A o \in Int : WasRead(o) => WasRead(o)'
      /\ InOrder(windows)' /\ ReadsInOrder'
      /\ WindowsInOrder' /\ SegmentsNested'
  BY <1>0, ReadInShape
<1>. DEFINE p   == pending[Len(pending)]
            rec == [key |-> SegmentKey(p.tokens, p.idx), tokens |-> p.tokens,
                    begin |-> p.begin, end |-> ord]
<1>2. pending \in Seq(PendingRecords) /\ pending # <<>>
  BY <1>t DEF EndSegment, TypeOK
<1>3. p \in PendingRecords
  BY <1>2
<1>4. rec \in SegmentRecords
  BY <1>3 DEF SegmentKey, PendingRecords, SegmentRecords
<1>5. pending' \in Seq(PendingRecords)
  <2>1. pending' = SubSeq(pending, 1, Len(pending) - 1)
    BY DEF EndSegment, Newest, Front
  <2>2. SubSeq(pending, 1, Len(pending) - 1) \in Seq(PendingRecords)
    BY <1>2, SubSeqProperties
  <2>. QED  BY <2>1, <2>2
<1>6. segments' = Append(segments, rec)
  BY DEF EndSegment, Newest, Last
<1>7. /\ segments \in Seq(SegmentRecords) /\ segments' \in Seq(SegmentRecords)
      /\ DOMAIN segments' = DOMAIN segments \cup {Len(segments) + 1}
      /\ segments'[Len(segments) + 1] = rec
      /\ \A i \in DOMAIN segments : segments'[i] = segments[i]
  <2>1. segments \in Seq(SegmentRecords)
    BY <1>t DEF TypeOK
  <2>. HIDE DEF rec
  <2>. QED  BY <2>1, <1>4, <1>6, AppendProperties
<1>8. TypeOK'
  BY <1>t, <1>1, <1>5, <1>7 DEF EndSegment, TypeOK
<1>9. SegmentsPlaced'
  <2>1. Inside(p) /\ rec.tokens = p.tokens /\ rec.begin = p.begin /\ rec.end = ord
    BY DEF IInv, SegmentsPlaced, EndSegment
  <2>2. /\ rec.tokens = shape'.tokens
        /\ shape'.begin >= 0 /\ rec.begin >= 0 => shape'.begin <= rec.begin
    BY <1>0, <2>1 DEF Inside
  <2>3. \A i \in DOMAIN segments : segments[i].end \in Int
    BY <1>t, RecordTypes
  <2>4. \A i \in DOMAIN segments :
           /\ WasRead(segments[i].end)
           /\ \/ Begun /\ Inside(segments[i])
              \/ \E j \in DOMAIN windows : Encloses(windows[j], segments[i])
    BY DEF IInv, SegmentsPlaced
  <2>5. at' = "shape"
    BY DEF EndSegment
  <2>. HIDE DEF p, rec
  <2>6. ASSUME NEW i \in DOMAIN segments'
        PROVE  /\ WasRead(segments[i].end)'
               /\ \/ Begun' /\ Inside(segments[i])'
                  \/ \E j \in DOMAIN windows' : Encloses(windows[j], segments[i])'
    <3>1. CASE i = Len(segments) + 1
      BY <3>1, <1>0, <1>1, <1>7, <2>1, <2>2 DEF Inside, WasRead
    <3>2. CASE i \in DOMAIN segments
      BY <3>2, <1>0, <1>1, <1>7, <2>3, <2>4 DEF Inside, Encloses
    <3>. QED  BY <1>7, <3>1, <3>2
  <2>. QED  BY <2>5, <2>6 DEF SegmentsPlaced
<1>. QED  BY <1>1, <1>8, <1>9 DEF IInv

(* A bridge changes none of the records of windows and segments.           *)
LEMMA BridgeIInv ==
    ASSUME IInv, NEW b \in heap, NEW ord \in Ordinals, NEW ptr \in BlockRange(b), Bridge(b, ptr, ord)
    PROVE  IInv'
<1>t. TypeOK
  BY DEF IInv
<1>0. TraceLen(ord) /\ Begun /\ Begun' /\ UNCHANGED <<windows, shape, artifact>>
  BY DEF Bridge, Begun, program
<1>1. /\ trace' \in Seq(Events) /\ slack' \in Nat \cup {None} /\ marked' \in Nat \cup {None} /\ fails' \in 0 .. MaxFails
      /\ \A o \in Int : WasRead(o) => WasRead(o)'
      /\ InOrder(windows)' /\ ReadsInOrder'
      /\ WindowsInOrder' /\ SegmentsNested'
  BY <1>0, ReadInShape
<1>. DEFINE rec == [ptr |-> ptr, ord |-> ord, tokens |-> shape.tokens, born |-> b.born]
            Rec == BridgeRecords
<1>2. b \in Blocks /\ shape.tokens \in Tokens
  BY <1>t, <1>0 DEF TypeOK, Begun
<1>3. rec \in Rec
  BY <1>2 DEF BridgeRecords, Blocks
<1>4. bridges' \in Seq(Rec)
  <2>1. bridges \in Seq(Rec) /\ bridges' = Append(bridges, rec)
    BY <1>t DEF Bridge, TypeOK
  <2>. HIDE DEF rec, Rec
  <2>. QED  BY <2>1, <1>3
<1>5. TypeOK'
  BY <1>t, <1>1, <1>4 DEF Bridge, TypeOK, program
<1>6. SegmentsPlaced'
  <2>1. \A i \in DOMAIN segments : segments[i].end \in Int
    BY <1>t, RecordTypes
  <2>2. UNCHANGED <<segments, pending, at>>
    BY DEF Bridge, program
  <2>. QED  BY <1>0, <1>1, <2>1, <2>2 DEF IInv, SegmentsPlaced, Begun, Inside, Encloses
<1>. QED  BY <1>1, <1>5, <1>6 DEF IInv

(* A shape that ends, in a segment or not, has the last window, and every  *)
(* segment that belongs to it lies in that.                                *)
LEMMA ExitShapeIInv ==
    ASSUME IInv, NEW ord \in Ordinals, ExitShape(ord)
    PROVE  IInv'
<1>t. TypeOK
  BY DEF IInv
<1>0. TraceLen(ord) /\ Begun /\ at' = "capture" /\ UNCHANGED <<segments, artifact>>
  BY DEF ExitShape, Begun
<1>1. /\ trace' \in Seq(Events) /\ slack' \in Nat \cup {None} /\ marked' \in Nat \cup {None} /\ fails' \in 0 .. MaxFails
      /\ WasRead(ord)'
      /\ \A o \in Int : WasRead(o) => WasRead(o)' /\ (o >= 0 /\ ord >= 0 => o <= ord)
  BY <1>t, <1>0, TraceLenOrders
<1>. DEFINE w == [key |-> shape.key, begin |-> shape.begin, end |-> ord, tokens |-> shape.tokens]
<1>2. w \in WindowRecords
  BY <1>t, <1>0 DEF TypeOK, Begun, WindowRecords
<1>3. /\ windows \in Seq(WindowRecords) /\ windows' \in Seq(WindowRecords)
      /\ Len(windows) \in Nat /\ DOMAIN windows = 1 .. Len(windows)
      /\ DOMAIN windows' = 1 .. Len(windows) + 1
      /\ windows'[Len(windows) + 1] = w
      /\ \A i \in DOMAIN windows : windows'[i] = windows[i]
  <2>1. windows \in Seq(WindowRecords) /\ windows' = Append(windows, w)
    BY <1>t DEF ExitShape, TypeOK
  <2>. HIDE DEF w
  <2>. QED  BY <2>1, <1>2, AppendProperties
<1>4. TypeOK'
  <2>. HIDE DEF w
  <2>. QED  BY <1>t, <1>0, <1>1, <1>3 DEF ExitShape, TypeOK
<1>5. /\ shape.begin \in Int /\ WasRead(shape.begin)
      /\ \A i \in DOMAIN windows :
            /\ windows[i].end \in Int /\ WasRead(windows[i].end)
            /\ windows[i].end >= 0 /\ shape.begin >= 0 => windows[i].end <= shape.begin
  BY <1>t, <1>0, RecordTypes DEF IInv, ReadsInOrder
<1>6. InOrder(windows)'
  <2>1. SUFFICES ASSUME NEW i \in DOMAIN windows'
        PROVE  /\ windows'[i].begin >= 0 /\ windows'[i].end >= 0 => windows'[i].begin <= windows'[i].end
               /\ \A j \in DOMAIN windows' :
                     i < j /\ windows'[i].end >= 0 /\ windows'[j].begin >= 0
                        => windows'[i].end <= windows'[j].begin
    BY DEF InOrder
  <2>2. CASE i = Len(windows) + 1
    BY <2>2, <1>1, <1>3, <1>5
  <2>3. CASE i \in DOMAIN windows
    <3>1. windows'[i] = windows[i]
      BY <2>3, <1>3
    <3>2. ASSUME NEW j \in DOMAIN windows', i < j
          PROVE  windows'[i].end >= 0 /\ windows'[j].begin >= 0 => windows'[i].end <= windows'[j].begin
      <4>1. CASE j = Len(windows) + 1
        BY <4>1, <2>3, <3>1, <1>3, <1>5
      <4>2. CASE j \in DOMAIN windows
        BY <4>2, <2>3, <3>1, <3>2, <1>3 DEF IInv, InOrder
      <4>. QED  BY <4>1, <4>2, <1>3
    <3>. QED  BY <2>3, <3>1, <3>2 DEF IInv, InOrder
  <2>. QED  BY <2>2, <2>3, <1>3
<1>7. ReadsInOrder'
  <2>1. ASSUME NEW i \in DOMAIN windows' PROVE WasRead(windows[i].end)'
    <3>1. CASE i = Len(windows) + 1
      BY <3>1, <1>1, <1>3 DEF WasRead
    <3>2. CASE i \in DOMAIN windows
      BY <3>2, <1>1, <1>3, <1>5 DEF WasRead
    <3>. QED  BY <3>1, <3>2, <1>3
  <2>. QED  BY <1>0, <2>1 DEF ReadsInOrder, Begun
<1>8. SegmentsPlaced'
  <2>1. ASSUME NEW i \in DOMAIN segments
        PROVE  /\ WasRead(segments[i].end)'
               /\ \E j \in DOMAIN windows' : Encloses(windows'[j], segments[i])
    <3>1. segments[i].end \in Int /\ WasRead(segments[i].end)
      BY <1>t, RecordTypes DEF IInv, SegmentsPlaced
    <3>2. WasRead(segments[i].end)'
      BY <1>0, <1>1, <3>1 DEF WasRead
    <3>3. CASE Inside(segments[i])
      <4>1. Encloses(w, segments[i])
        BY <3>1, <3>3, <1>1 DEF Inside, Encloses
      <4>. HIDE DEF w
      <4>. QED  BY <3>2, <4>1, <1>3
    <3>4. CASE \E j \in DOMAIN windows : Encloses(windows[j], segments[i])
      BY <3>2, <3>4, <1>3
    <3>. QED  BY <3>3, <3>4 DEF IInv, SegmentsPlaced
  <2>. QED  BY <1>0, <2>1 DEF SegmentsPlaced, Begun, Encloses
<1>9. WindowsInOrder' /\ SegmentsNested'
  BY <1>0, ArtifactKept
<1>. QED  BY <1>4, <1>6, <1>7, <1>8, <1>9 DEF IInv

(* Every step of the specification preserves the invariant.                *)
LEMMA NextIInv == IInv /\ [Next]_vars => IInv'
<1>. SUFFICES ASSUME IInv, [Next]_vars
              PROVE  IInv'
  OBVIOUS
<1>1. CASE \E a \in Addrs, z \in Sizes : Alloc(a, z)
  BY <1>1, AllocIInv
<1>2. CASE \E b \in heap : Free(b)
  BY <1>2, FreeIInv
<1>3. CASE \E r \in Runners : EnterCapture(r)
  BY <1>3, EnterCaptureIInv
<1>4. CASE \E v \in Values, ptrs \in SUBSET Addrs, ord \in Ordinals : EnterShape(v, ptrs, ord)
  BY <1>4, EnterShapeIInv
<1>5. CASE \E ord \in Ordinals : ExitShape(ord)
  BY <1>5, ExitShapeIInv
<1>6. CASE \E ord \in Ordinals : BeginSegment(ord)
  BY <1>6, BeginSegmentIInv
<1>7. CASE \E ord \in Ordinals : EndSegment(ord)
  BY <1>7, EndSegmentIInv
<1>8. CASE \E b \in heap, ord \in Ordinals : \E ptr \in BlockRange(b) : Bridge(b, ptr, ord)
  BY <1>8, BridgeIInv
<1>9. CASE ExitCapture
  BY <1>9, ExitCaptureIInv
<1>10. CASE UNCHANGED vars
  <2>1. TypeOK'
    BY <1>10 DEF IInv, TypeOK, vars, allocator, counter, records, program
  <2>2. UNCHANGED trace /\ UNCHANGED <<counter, records, program>>
    BY <1>10 DEF vars, allocator
  <2>3. Len(trace) <= Len(trace')
    BY <2>2, RecordTypes DEF IInv
  <2>. QED  BY <2>1, <2>2, <2>3, AllocatorIInv DEF counter
<1>11. CASE Snapshot
  BY <1>11, SnapshotIInv
<1>. QED  BY <1>1, <1>2, <1>3, <1>4, <1>5, <1>6, <1>7, <1>8, <1>9, <1>10, <1>11 DEF Next

(* In every state the records are typed, the reads in order and the        *)
(* segments nested.                                                        *)
THEOREM Invariance == Spec => []IInv
BY InitIInv, NextIInv, PTL DEF Spec

-----------------------------------------------------------------------------
(* The records of a capture keep their types: ordinals are -1 or within    *)
(* the trace, blocks lie in the pool, and a segment that ends has a pending *)
(* record to take.                                                         *)
THEOREM TypeCorrect == Spec => []TypeOK
<1>1. IInv => TypeOK
  BY DEF IInv
<1>. QED  BY <1>1, Invariance, PTL

(* The windows of a dump are in the order of the shapes, and none ends      *)
(* before it begins or after the next one begins, whatever the allocator   *)
(* does and whichever reads fail (shim.py, _wrap_per_shape).               *)
THEOREM WindowsAreInOrder == Spec => []WindowsInOrder
<1>1. IInv => WindowsInOrder
  BY DEF IInv
<1>. QED  BY <1>1, Invariance, PTL

(* The segments of a dump lie in the windows of their shapes, also when    *)
(* shapes raised in a segment and left its record pending (shim.py,        *)
(* _wrap_segment_end).                                                     *)
THEOREM SegmentsAreNested == Spec => []SegmentsNested
<1>1. IInv => SegmentsNested
  BY DEF IInv
<1>. QED  BY <1>1, Invariance, PTL

-----------------------------------------------------------------------------
(* A trace and the same trace with one more event.                         *)
Extends(tr, new, ev) ==
    /\ Len(tr) \in Nat /\ DOMAIN tr = 1 .. Len(tr)
    /\ Len(new) = Len(tr) + 1 /\ DOMAIN new = 1 .. Len(tr) + 1
    /\ \A k \in DOMAIN tr : new[k] = tr[k]
    /\ new[Len(tr) + 1] = ev

(* Appending an event extends the trace.                                   *)
LEMMA AppendExtends ==
    ASSUME NEW tr \in Seq(Events), NEW ev \in Events
    PROVE  Append(tr, ev) \in Seq(Events) /\ Extends(tr, Append(tr, ev), ev)
<1>. HIDE DEF Events
<1>1. /\ Append(tr, ev) \in Seq(Events) /\ Len(Append(tr, ev)) = Len(tr) + 1
      /\ Append(tr, ev)[Len(tr) + 1] = ev
      /\ \A k \in 1 .. Len(tr) : Append(tr, ev)[k] = tr[k]
  BY AppendProperties
<1>2. Len(tr) \in Nat /\ DOMAIN tr = 1 .. Len(tr) /\ DOMAIN Append(tr, ev) = 1 .. Len(tr) + 1
  BY <1>1
<1>. QED  BY <1>1, <1>2 DEF Extends

(* Addresses, sizes and ordinals are integers.                             *)
LEMMA FieldsTyped ==
    /\ \A b \in Blocks : b.born \in Int /\ b.born >= -1 /\ b.addr \in Nat /\ b.size \in Nat \ {0}
    /\ \A r \in PastBlocks : /\ r.alloc \in Nat /\ r.free \in Nat
                             /\ r.addr \in Nat /\ r.size \in Nat \ {0}
    /\ \A ev \in Events : ev.addr \in Int /\ ev.size \in Int
<1>0. (\A a \in Addrs : a \in Nat) /\ \A z \in Sizes : z \in Nat \ {0}
  OBVIOUS
<1>1. ASSUME NEW b \in Blocks
      PROVE  b.born \in Int /\ b.born >= -1 /\ b.addr \in Nat /\ b.size \in Nat \ {0}
  <2>1. b.born \in Old .. MaxTrace /\ b.addr \in Addrs /\ b.size \in Sizes
    BY DEF Blocks
  <2>2. b.born \in Int /\ b.born >= -1
    BY <2>1 DEF Old
  <2>. QED  BY <2>1, <2>2, <1>0
<1>2. ASSUME NEW r \in PastBlocks
      PROVE  r.alloc \in Nat /\ r.free \in Nat /\ r.addr \in Nat /\ r.size \in Nat \ {0}
  <2>1. r.alloc \in 0 .. MaxTrace /\ r.free \in 0 .. MaxTrace /\ r.addr \in Addrs /\ r.size \in Sizes
    BY DEF PastBlocks
  <2>2. r.alloc \in Nat /\ r.free \in Nat
    BY <2>1
  <2>. QED  BY <2>1, <2>2, <1>0
<1>3. ASSUME NEW ev \in Events
      PROVE  ev.addr \in Int /\ ev.size \in Int
  <2>1. ev.addr \in Addrs \cup {-1} /\ ev.size \in Nat
    BY DEF Events
  <2>2. ev.addr \in Nat \/ ev.addr = -1
    BY <2>1, <1>0
  <2>. QED  BY <2>1, <2>2
<1>. QED  BY <1>1, <1>2, <1>3

(* A block has the address it is known by.                                 *)
LEMMA BlockStarts == \A b \in Blocks : b.addr \in BlockRange(b)
<1>1. ASSUME NEW b \in Blocks
      PROVE  b.addr \in Nat /\ b.size \in Nat \ {0}
  BY DEF Blocks
<1>. QED  BY <1>1 DEF BlockRange

(* A place before the end of a trace has an event.                         *)
LEMMA InTrace ==
    ASSUME NEW tr, Len(tr) \in Nat, DOMAIN tr = 1 .. Len(tr), NEW i \in Nat, i < Len(tr)
    PROVE  i + 1 \in DOMAIN tr
OBVIOUS

(* The blocks that were gone stay as they were.                            *)
LEMMA DeathsStay ==
    ASSUME NEW tr, NEW new, NEW ev, Extends(tr, new, ev),
           NEW ps \in SUBSET PastBlocks, DeathsTraced(tr, ps)
    PROVE  DeathsTraced(new, ps)
<1>1. /\ Len(tr) \in Nat /\ DOMAIN tr = 1 .. Len(tr)
      /\ Len(new) = Len(tr) + 1 /\ DOMAIN new = 1 .. Len(tr) + 1
  BY DEF Extends
<1>2. \A k \in DOMAIN tr : new[k] = tr[k]
  BY DEF Extends
<1>3. SUFFICES ASSUME NEW r \in ps
               PROVE  /\ r.alloc < r.free /\ r.free < Len(new)
                      /\ new[r.alloc + 1] = Event("alloc", r)
                      /\ new[r.free + 1] = Event("free_requested", r)
                      /\ \A k \in DOMAIN new : r.alloc + 1 < k /\ k <= r.free => new[k].addr # r.addr
  BY DEF DeathsTraced
<1>4. /\ r.alloc < r.free /\ r.free < Len(tr)
      /\ tr[r.alloc + 1] = Event("alloc", r) /\ tr[r.free + 1] = Event("free_requested", r)
  BY DEF DeathsTraced
<1>5. \A k \in DOMAIN tr : r.alloc + 1 < k /\ k <= r.free => tr[k].addr # r.addr
  BY DEF DeathsTraced
<1>6. r.alloc \in Nat /\ r.free \in Nat
  BY FieldsTyped
<1>7. r.alloc < Len(tr) /\ r.free < Len(new)
  BY <1>1, <1>4, <1>6
<1>8. r.alloc + 1 \in DOMAIN tr /\ r.free + 1 \in DOMAIN tr
  BY <1>1, <1>4, <1>6, <1>7, InTrace
<1>9. \A k \in DOMAIN new : k <= r.free => k \in DOMAIN tr
  <2>1. r.free <= Len(tr)
    BY <1>1, <1>4, <1>6
  <2>. QED  BY <1>1, <1>6, <2>1
<1>. QED  BY <1>2, <1>4, <1>5, <1>7, <1>8, <1>9

(* An event that allocates nothing, at no live address.                    *)
LEMMA TracedGrows ==
    ASSUME NEW tr, NEW new, NEW ev, Extends(tr, new, ev),
           NEW hp \in SUBSET Blocks, NEW ps \in SUBSET PastBlocks, Traced(tr, hp, ps),
           ~IsAlloc(ev), \A b \in hp : ev.addr # b.addr
    PROVE  Traced(new, hp, ps)
<1>1. /\ \A b \in hp : b.born \in Int
      /\ \A r \in ps : r.alloc \in Nat /\ r.free \in Nat
  BY DEF Blocks, PastBlocks, Old
<1>2. BirthsTraced(new, hp)
  <2>1. ASSUME NEW b \in hp, b.born # Old
        PROVE  b.born < Len(new) /\ new[b.born + 1] = Event("alloc", b)
    <3>1. b.born + 1 \in DOMAIN tr
      BY <1>1, <2>1 DEF Extends, Traced, BirthsTraced, Blocks, Old
    <3>. QED  BY <1>1, <2>1, <3>1 DEF Extends, Traced, BirthsTraced
  <2>2. ASSUME NEW b \in hp, NEW k \in DOMAIN new, k > b.born + 1
        PROVE  new[k].addr # b.addr
    <3>1. k \in DOMAIN tr \/ k = Len(tr) + 1
      BY DEF Extends
    <3>. QED  BY <2>2, <3>1 DEF Extends, Traced, BirthsTraced
  <2>. QED  BY <2>1, <2>2 DEF BirthsTraced
<1>3. DeathsTraced(new, ps)
  BY DeathsStay DEF Traced
<1>4. AllocsTraced(new, hp, ps)
  <2>1. ASSUME NEW i \in DOMAIN new, IsAlloc(new[i])
        PROVE  i \in DOMAIN tr /\ IsAlloc(tr[i])
    BY <2>1 DEF Extends
  <2>. QED  BY <2>1 DEF Traced, AllocsTraced
<1>. QED  BY <1>2, <1>3, <1>4 DEF Traced

(* An allocation, of memory that no live block has.                        *)
LEMMA TracedAllocates ==
    ASSUME NEW tr, NEW new, NEW b \in Blocks, b.born = Len(tr), Extends(tr, new, Event("alloc", b)),
           NEW hp \in SUBSET Blocks, NEW ps \in SUBSET PastBlocks, Traced(tr, hp, ps),
           \A c \in hp : BlockRange(c) \cap BlockRange(b) = {}
    PROVE  Traced(new, hp \cup {b}, ps)
<1>. DEFINE ev == Event("alloc", b)
<1>1. /\ \A c \in hp : c.born \in Int
      /\ \A r \in ps : r.alloc \in Nat /\ r.free \in Nat
      /\ Len(tr) \in Nat
  BY DEF Blocks, PastBlocks, Old, Extends
<1>2. \A c \in hp : c.addr # b.addr
  BY BlockStarts
<1>3. ev.addr = b.addr /\ IsAlloc(ev)
  BY DEF Event, IsAlloc
<1>. HIDE DEF ev
<1>0. Extends(tr, new, ev)
  BY DEF ev
<1>4. Disjoint(hp \cup {b})
  BY DEF Traced, Disjoint
<1>5. BirthsTraced(new, hp \cup {b})
  <2>1. ASSUME NEW c \in hp, c.born # Old
        PROVE  c.born < Len(new) /\ new[c.born + 1] = Event("alloc", c)
    <3>1. c.born + 1 \in DOMAIN tr
      BY <1>1, <2>1 DEF Extends, Traced, BirthsTraced, Blocks, Old
    <3>. QED  BY <1>1, <2>1, <3>1 DEF Extends, Traced, BirthsTraced
  <2>2. ASSUME NEW c \in hp, NEW k \in DOMAIN new, k > c.born + 1
        PROVE  new[k].addr # c.addr
    <3>1. k \in DOMAIN tr \/ k = Len(tr) + 1
      BY DEF Extends
    <3>2. CASE k \in DOMAIN tr
      BY <2>2, <3>2 DEF Extends, Traced, BirthsTraced
    <3>3. CASE k = Len(tr) + 1
      BY <1>0, <1>2, <1>3, <3>3 DEF Extends
    <3>. QED  BY <3>1, <3>2, <3>3
  <2>3. b.born < Len(new) /\ new[b.born + 1] = Event("alloc", b)
    BY <1>1 DEF Extends
  <2>4. ~ \E k \in DOMAIN new : k > b.born + 1
    BY <1>1 DEF Extends
  <2>. QED  BY <2>1, <2>2, <2>3, <2>4 DEF BirthsTraced
<1>6. DeathsTraced(new, ps)
  BY DeathsStay DEF Traced
<1>7. AllocsTraced(new, hp \cup {b}, ps)
  <2>1. ASSUME NEW i \in DOMAIN new, IsAlloc(new[i])
        PROVE  i - 1 = b.born \/ (i \in DOMAIN tr /\ IsAlloc(tr[i]))
    BY <1>1, <2>1 DEF Extends
  <2>. QED  BY <2>1 DEF Traced, AllocsTraced
<1>8. Successions(hp \cup {b}, ps)
  <2>1. \A r \in ps : r.free <= b.born
    BY <1>1 DEF Traced, DeathsTraced
  <2>. QED  BY <2>1 DEF Traced, Successions
<1>. QED  BY <1>4, <1>5, <1>6, <1>7, <1>8 DEF Traced

(* The request of a free: the block moves from the live to the gone.       *)
Gone(b, n) == [addr |-> b.addr, size |-> b.size, alloc |-> b.born, free |-> n]

(* The block that is freed was alive: its lifetime is closed at the end of *)
(* the trace, and if it was older than the recording none is kept.         *)
LEMMA TracedFrees ==
    ASSUME NEW tr, NEW new, NEW b, Extends(tr, new, Event("free_requested", b)),
           NEW hp \in SUBSET Blocks, b \in hp, NEW ps \in SUBSET PastBlocks, Traced(tr, hp, ps),
           NEW qs, qs = IF b.born = Old THEN ps ELSE ps \cup {Gone(b, Len(tr))}
    PROVE  Traced(new, hp \ {b}, qs)
<1>. DEFINE ev == Event("free_requested", b)
            g  == Gone(b, Len(tr))
<1>1. /\ \A c \in hp : c.born \in Int
      /\ \A r \in ps : r.alloc \in Nat /\ r.free \in Nat
      /\ Len(tr) \in Nat
  BY DEF Blocks, PastBlocks, Old, Extends
<1>2. \A c \in hp : c # b => c.addr # b.addr
  BY BlockStarts DEF Traced, Disjoint
<1>3. ev.addr = b.addr /\ ~IsAlloc(ev)
  BY DEF Event, IsAlloc
<1>4. g.addr = b.addr /\ g.size = b.size /\ g.alloc = b.born /\ g.free = Len(tr)
  BY DEF Gone
<1>5. Event("alloc", g) = Event("alloc", b) /\ Event("free_requested", g) = ev /\ BlockRange(g) = BlockRange(b)
  BY <1>4 DEF Event, BlockRange
<1>. HIDE DEF ev, g
<1>0. Extends(tr, new, ev)
  BY DEF ev
<1>6. Disjoint(hp \ {b})
  BY DEF Traced, Disjoint
<1>7. BirthsTraced(new, hp \ {b})
  <2>1. ASSUME NEW c \in hp, c.born # Old
        PROVE  c.born < Len(new) /\ new[c.born + 1] = Event("alloc", c)
    <3>1. c.born + 1 \in DOMAIN tr
      BY <1>1, <2>1 DEF Extends, Traced, BirthsTraced, Blocks, Old
    <3>. QED  BY <1>1, <2>1, <3>1 DEF Extends, Traced, BirthsTraced
  <2>2. ASSUME NEW c \in hp, c # b, NEW k \in DOMAIN new, k > c.born + 1
        PROVE  new[k].addr # c.addr
    <3>1. k \in DOMAIN tr \/ k = Len(tr) + 1
      BY DEF Extends
    <3>2. CASE k \in DOMAIN tr
      BY <2>2, <3>2 DEF Extends, Traced, BirthsTraced
    <3>3. CASE k = Len(tr) + 1
      BY <1>0, <1>2, <1>3, <2>2, <3>3 DEF Extends
    <3>. QED  BY <3>1, <3>2, <3>3
  <2>. QED  BY <2>1, <2>2 DEF BirthsTraced
<1>8. DeathsTraced(new, ps)
  BY DeathsStay DEF Traced
<1>9. CASE b.born # Old
  <2>0. qs = ps \cup {g}
    BY <1>9 DEF g
  <2>1. /\ g.alloc < g.free /\ g.free < Len(new)
        /\ new[g.alloc + 1] = Event("alloc", g) /\ new[g.free + 1] = Event("free_requested", g)
    <3>1. b.born + 1 \in DOMAIN tr /\ b.born < Len(tr) /\ tr[b.born + 1] = Event("alloc", b)
      BY <1>1, <1>9 DEF Extends, Traced, BirthsTraced, Blocks, Old
    <3>. QED  BY <1>0, <1>1, <1>4, <1>5, <3>1 DEF Extends
  <2>2. \A k \in DOMAIN new : g.alloc + 1 < k /\ k <= g.free => new[k].addr # g.addr
    <3>1. \A k \in DOMAIN new : k <= Len(tr) => k \in DOMAIN tr /\ new[k] = tr[k]
      BY DEF Extends
    <3>. QED  BY <1>1, <1>4, <3>1 DEF Traced, BirthsTraced
  <2>3. DeathsTraced(new, qs)
    BY <1>8, <2>0, <2>1, <2>2 DEF DeathsTraced
  <2>4. AllocsTraced(new, hp \ {b}, qs)
    <3>1. ASSUME NEW i \in DOMAIN new, IsAlloc(new[i])
          PROVE  i \in DOMAIN tr /\ IsAlloc(tr[i])
      BY <1>0, <1>3, <3>1 DEF Extends
    <3>. QED  BY <1>4, <2>0, <3>1 DEF Traced, AllocsTraced
  <2>5. Successions(hp \ {b}, qs)
    <3>1. \A c \in hp : c # b => BlockRange(c) \cap BlockRange(g) = {}
      BY <1>5 DEF Traced, Disjoint
    <3>. QED  BY <2>0, <3>1 DEF Traced, Successions
  <2>. QED  BY <1>6, <1>7, <2>3, <2>4, <2>5 DEF Traced
<1>10. CASE b.born = Old
  <2>0. qs = ps
    BY <1>10
  <2>3. DeathsTraced(new, qs)
    BY <1>8, <2>0 DEF DeathsTraced
  <2>4. AllocsTraced(new, hp \ {b}, qs)
    <3>1. ASSUME NEW i \in DOMAIN new, IsAlloc(new[i])
          PROVE  i \in DOMAIN tr /\ IsAlloc(tr[i]) /\ i - 1 # b.born
      BY <1>0, <1>3, <1>10, <3>1 DEF Extends, Old
    <3>. QED  BY <2>0, <3>1 DEF Traced, AllocsTraced
  <2>5. Successions(hp \ {b}, qs)
    BY <2>0 DEF Traced, Successions
  <2>. QED  BY <1>6, <1>7, <2>3, <2>4, <2>5 DEF Traced
<1>. QED  BY <1>9, <1>10

(* A place between two others, counted as the positions of events are.     *)
LEMMA Between ==
    ASSUME NEW i \in Nat, NEW k \in Nat, NEW j \in Nat, i < k, k < j
    PROVE  k + 1 \in (i + 1) + 1 .. (j + 1) - 1
OBVIOUS

(* Between an event and a position before another there are only events.   *)
LEMMA OnTheWay ==
    ASSUME NEW tr, Len(tr) \in Nat, DOMAIN tr = 1 .. Len(tr),
           NEW i \in Nat, NEW f \in Nat, f <= Len(tr), NEW o \in Int, o <= f,
           NEW k \in (i + 1) + 1 .. o
    PROVE  k \in DOMAIN tr /\ i + 1 < k /\ k <= f
OBVIOUS

(* What lies between an allocation and its free lies in the trace.         *)
LEMMA StrictlyBetween ==
    ASSUME NEW tr, Len(tr) \in Nat, DOMAIN tr = 1 .. Len(tr),
           NEW i \in Nat, NEW f \in Nat, f < Len(tr),
           NEW k \in (i + 1) + 1 .. (f + 1) - 1
    PROVE  k \in DOMAIN tr /\ i + 1 < k /\ k <= f
OBVIOUS

(* The event behind a position is counted from one.                        *)
LEMMA BackAgain ==
    ASSUME NEW n \in Int
    PROVE  (n + 1) - 1 = n
OBVIOUS

(* A row holds what lies in the range of its block.                        *)
LEMMA HoldsRange ==
    ASSUME NEW a, a.addr \in Nat, a.size \in Nat, NEW c, c.addr = a.addr, c.size = a.size,
           NEW ptr \in Nat
    PROVE  Holds(a, ptr) <=> ptr \in BlockRange(c)
BY DEF Holds, BlockRange

(* What the analyzer rebuilds from a trace is what became of its blocks.   *)
LEMMA ExtractIsHistory ==
    ASSUME NEW tr \in Seq(Events), NEW hp \in SUBSET Blocks, NEW ps \in SUBSET PastBlocks,
           Traced(tr, hp, ps)
    PROVE  Extract(tr) = ps \cup {Gone(b, Len(tr)) : b \in {h \in hp : h.born # Old}}
<1>1. /\ \A b \in hp : b.born \in Int /\ b.born >= -1 /\ b.addr \in Nat /\ b.size \in Nat \ {0}
      /\ \A r \in ps : r.alloc \in Nat /\ r.free \in Nat /\ r.addr \in Nat /\ r.size \in Nat \ {0}
      /\ Len(tr) \in Nat /\ DOMAIN tr = 1 .. Len(tr)
  BY FieldsTyped
<1>2. \A b \in hp : b.born # Old =>
        /\ b.born + 1 \in Births(tr) /\ tr[b.born + 1].addr = b.addr /\ tr[b.born + 1].size = b.size
        /\ Untouched(tr, b.born + 1, Len(tr))
  <2>1. SUFFICES ASSUME NEW b \in hp, b.born # Old
                 PROVE  /\ b.born + 1 \in Births(tr) /\ tr[b.born + 1].addr = b.addr
                        /\ tr[b.born + 1].size = b.size
                        /\ Untouched(tr, b.born + 1, Len(tr))
    OBVIOUS
  <2>2. b.born + 1 \in DOMAIN tr /\ tr[b.born + 1] = Event("alloc", b)
    BY <1>1, <2>1 DEF Traced, BirthsTraced, Old
  <2>3. b.born + 1 \in Births(tr) /\ tr[b.born + 1].addr = b.addr /\ tr[b.born + 1].size = b.size
    BY <1>1, <2>2 DEF Births, IsAlloc, Event
  <2>4. \A k \in (b.born + 1) + 1 .. Len(tr) : k \in DOMAIN tr /\ k > b.born + 1
    BY <1>1
  <2>. QED  BY <2>3, <2>4 DEF Traced, BirthsTraced, Untouched, FreesAt
<1>3. \A r \in ps :
        /\ r.alloc + 1 \in Births(tr) /\ tr[r.alloc + 1].addr = r.addr /\ tr[r.alloc + 1].size = r.size
        /\ r.free + 1 \in DOMAIN tr /\ FreedBy(tr, r.alloc + 1, r.free + 1)
  <2>1. SUFFICES ASSUME NEW r \in ps
                 PROVE  /\ r.alloc + 1 \in Births(tr) /\ tr[r.alloc + 1].addr = r.addr
                        /\ tr[r.alloc + 1].size = r.size
                        /\ r.free + 1 \in DOMAIN tr /\ FreedBy(tr, r.alloc + 1, r.free + 1)
    OBVIOUS
  <2>0. r.alloc \in Nat /\ r.free \in Nat /\ r.addr \in Nat /\ r.size \in Nat \ {0}
    BY FieldsTyped
  <2>2. /\ r.alloc < r.free /\ r.free < Len(tr)
        /\ tr[r.alloc + 1] = Event("alloc", r) /\ tr[r.free + 1] = Event("free_requested", r)
    BY DEF Traced, DeathsTraced
  <2>c. \A k \in DOMAIN tr : r.alloc + 1 < k /\ k <= r.free => tr[k].addr # r.addr
    BY DEF Traced, DeathsTraced
  <2>l. Len(tr) \in Nat /\ DOMAIN tr = 1 .. Len(tr)
    BY <1>1
  <2>n. r.alloc \in Nat /\ r.free \in Nat /\ r.alloc < Len(tr) /\ r.free < Len(tr) /\ r.alloc < r.free
    BY <2>0, <2>2, <2>l
  <2>3. r.alloc + 1 \in DOMAIN tr /\ r.free + 1 \in DOMAIN tr
    BY <2>n, <2>l, InTrace
  <2>4. r.alloc + 1 \in Births(tr) /\ tr[r.alloc + 1].addr = r.addr /\ tr[r.alloc + 1].size = r.size
    <3>1. /\ tr[r.alloc + 1].act = "alloc" /\ tr[r.alloc + 1].addr = r.addr
          /\ tr[r.alloc + 1].size = r.size
      BY <2>2 DEF Event
    <3>2. IsAlloc(tr[r.alloc + 1])
      BY <3>1 DEF IsAlloc
    <3>3. r.addr >= 0 /\ r.size > 0
      BY <2>0
    <3>4. tr[r.alloc + 1].addr >= 0 /\ tr[r.alloc + 1].size > 0
      BY <3>1, <3>3
    <3>. QED  BY <2>3, <3>1, <3>2, <3>4 DEF Births
  <2>5. FreesAt(tr[r.free + 1], r.addr)
    BY <2>2 DEF FreesAt, IsFree, Event
  <2>6. \A k \in (r.alloc + 1) + 1 .. (r.free + 1) - 1 : k \in DOMAIN tr /\ r.alloc + 1 < k /\ k <= r.free
    BY <2>n, <2>l, StrictlyBetween
  <2>7. Untouched(tr, r.alloc + 1, (r.free + 1) - 1)
    BY <2>4, <2>6, <2>c DEF Untouched, FreesAt
  <2>8. r.free + 1 > r.alloc + 1
    BY <2>0, <2>2
  <2>. QED  BY <2>3, <2>4, <2>5, <2>7, <2>8 DEF FreedBy
<1>4. ASSUME NEW i \in Births(tr)
      PROVE  (\E b \in hp : b.born # Old /\ b.born + 1 = i) \/ (\E r \in ps : r.alloc + 1 = i)
  <2>1. i \in DOMAIN tr /\ IsAlloc(tr[i])
    BY DEF Births
  <2>2. CASE \E b \in hp : b.born = i - 1
    BY <1>1, <2>1, <2>2 DEF Old
  <2>3. CASE \E r \in ps : r.alloc = i - 1
    BY <1>1, <2>1, <2>3
  <2>. QED  BY <2>1, <2>2, <2>3 DEF Traced, AllocsTraced
<1>5. Readable(tr)
  <2>1. \A i \in DOMAIN tr : tr[i] \in Events
    BY <1>1
  <2>. QED  BY <1>1, <2>1, FieldsTyped DEF Readable
<1>6. FreedBetween(tr)
  <2>1. SUFFICES ASSUME NEW i \in Births(tr), NEW j \in Births(tr), i < j, tr[i].addr = tr[j].addr
                 PROVE  \E k \in i + 1 .. j - 1 : FreesAt(tr[k], tr[i].addr)
    BY DEF FreedBetween
  <2>2. i \in DOMAIN tr /\ j \in DOMAIN tr /\ i \in Nat /\ j \in Nat /\ IsAlloc(tr[j])
    BY <1>1 DEF Births
  <2>3. CASE \E b \in hp : b.born # Old /\ b.born + 1 = i
    BY <1>2, <2>1, <2>2, <2>3 DEF Traced, BirthsTraced
  <2>4. ASSUME NEW r \in ps, r.alloc + 1 = i
        PROVE  \E k \in i + 1 .. j - 1 : FreesAt(tr[k], tr[i].addr)
    <3>1. FreesAt(tr[r.free + 1], tr[i].addr) /\ r.free + 1 > i /\ tr[i].addr = r.addr
      BY <1>3, <2>4 DEF FreedBy
    <3>2. ~ j <= r.free
      <4>1. \A k \in DOMAIN tr : r.alloc + 1 < k /\ k <= r.free => tr[k].addr # r.addr
        BY DEF Traced, DeathsTraced
      <4>. QED  BY <2>1, <2>2, <2>4, <3>1, <4>1
    <3>i. r.free \in Nat /\ i \in Int /\ j \in Int
      BY <1>1, <2>2
    <3>3. j # r.free + 1
      BY <2>2, <3>1 DEF FreesAt, IsFree, IsAlloc
    <3>4. r.free + 1 \in i + 1 .. j - 1
      <4>1. r.free + 1 > i
        BY <3>1
      <4>. QED  BY <3>i, <3>2, <3>3, <4>1
    <3>. QED  BY <3>1, <3>4
  <2>. QED  BY <1>4, <2>3, <2>4
<1>. DEFINE Ends(i, f) == \/ Untouched(tr, i, Len(tr)) /\ f = Len(tr)
                          \/ f + 1 \in DOMAIN tr /\ FreedBy(tr, i, f + 1)
            Row(i, f) == [addr |-> tr[i].addr, size |-> tr[i].size, alloc |-> i - 1, free |-> f]
<1>7. \A a : a \in Extract(tr) <=> \E i \in Births(tr), f \in Nat : a = Row(i, f) /\ Ends(i, f)
  BY <1>5, <1>6, ExtractPairsFrees
<1>8. ASSUME NEW b \in hp, b.born # Old, NEW f \in Nat
      PROVE  Ends(b.born + 1, f) <=> f = Len(tr)
  <2>1. f + 1 \in DOMAIN tr /\ f + 1 > b.born + 1 => f + 1 \in (b.born + 1) + 1 .. Len(tr)
    BY <1>1
  <2>. QED  BY <1>2, <1>8, <2>1 DEF FreedBy, Untouched
<1>9. ASSUME NEW r \in ps, NEW f \in Nat
      PROVE  Ends(r.alloc + 1, f) <=> f = r.free
  <2>0. r.alloc \in Nat /\ r.free \in Nat /\ Len(tr) \in Nat /\ DOMAIN tr = 1 .. Len(tr)
    BY <1>1
  <2>n. r.alloc \in Nat /\ r.free \in Nat
    BY <2>0
  <2>1. r.free + 1 \in DOMAIN tr /\ FreedBy(tr, r.alloc + 1, r.free + 1)
    BY <1>3
  <2>4. r.free + 1 > r.alloc + 1
    BY <2>1 DEF FreedBy
  <2>2. ~Untouched(tr, r.alloc + 1, Len(tr))
    <3>1. r.free + 1 \in (r.alloc + 1) + 1 .. Len(tr)
      BY <2>0, <2>1, <2>4
    <3>. QED  BY <2>1, <3>1 DEF FreedBy, Untouched
  <2>3. ASSUME FreedBy(tr, r.alloc + 1, f + 1), f # r.free
        PROVE  FALSE
    <3>1. f + 1 > r.alloc + 1
      BY <2>3 DEF FreedBy
    <3>2. CASE f < r.free
      <4>1. f + 1 \in (r.alloc + 1) + 1 .. (r.free + 1) - 1
        <5>1. r.alloc < f
          BY <2>n, <3>1
        <5>. QED  BY <2>n, <3>2, <5>1, Between
      <4>. QED  BY <2>1, <2>3, <4>1 DEF FreedBy, Untouched
    <3>3. CASE r.free < f
      <4>1. r.free + 1 \in (r.alloc + 1) + 1 .. (f + 1) - 1
        <5>1. r.alloc < r.free
          BY <2>n, <2>4
        <5>. QED  BY <2>n, <3>3, <5>1, Between
      <4>. QED  BY <2>1, <2>3, <4>1 DEF FreedBy, Untouched
    <3>4. f < r.free \/ r.free < f
      BY <2>n, <2>3
    <3>. QED  BY <3>2, <3>3, <3>4
  <2>. QED  BY <2>1, <2>2, <2>3
<1>. HIDE DEF Ends
<1>10. \A b \in hp : b.born # Old => Row(b.born + 1, Len(tr)) = Gone(b, Len(tr))
  <2>1. SUFFICES ASSUME NEW b \in hp, b.born # Old
                 PROVE  Row(b.born + 1, Len(tr)) = Gone(b, Len(tr))
    OBVIOUS
  <2>2. (b.born + 1) - 1 = b.born
    BY <1>1, BackAgain
  <2>. QED  BY <1>2, <2>1, <2>2 DEF Gone
<1>11. \A r \in ps : Row(r.alloc + 1, r.free) = r
  <2>1. SUFFICES ASSUME NEW r \in ps PROVE Row(r.alloc + 1, r.free) = r
    OBVIOUS
  <2>2. r = [addr |-> r.addr, size |-> r.size, alloc |-> r.alloc, free |-> r.free]
    BY DEF PastBlocks
  <2>3. (r.alloc + 1) - 1 = r.alloc
    BY <1>1
  <2>. QED  BY <1>3, <2>2, <2>3
<1>. HIDE DEF Row
<1>12. ASSUME NEW a \in Extract(tr)
       PROVE  a \in ps \cup {Gone(b, Len(tr)) : b \in {h \in hp : h.born # Old}}
  <2>1. PICK i \in Births(tr), f \in Nat : a = Row(i, f) /\ Ends(i, f)
    BY <1>7
  <2>. QED  BY <1>4, <1>8, <1>9, <1>10, <1>11, <2>1
<1>13. ASSUME NEW b \in hp, b.born # Old
       PROVE  Gone(b, Len(tr)) \in Extract(tr)
  BY <1>1, <1>2, <1>7, <1>8, <1>10, <1>13
<1>14. ASSUME NEW r \in ps
       PROVE  r \in Extract(tr)
  BY <1>1, <1>3, <1>7, <1>9, <1>11
<1>. QED  BY <1>12, <1>13, <1>14

-----------------------------------------------------------------------------
(* The bridges of a trace that grows.                                      *)
LEMMA BridgeGrows ==
    ASSUME NEW tr, NEW new, NEW ev, Extends(tr, new, ev), NEW hp, NEW hq, NEW e \in Nat,
           NEW b \in BridgeRecords, BridgeTraced(tr, hp, b, e),
           IsAlloc(ev) => \A h \in hp : BlockRange(h) \cap BlockRange(ev) = {}
    PROVE  BridgeTraced(new, hq, b, e)
<1>. DEFINE t == b.ord + e
<1>1. t \in Int /\ b.born \in Int /\ b.born >= -1 /\ Len(tr) \in Nat /\ t <= Len(tr)
  <2>1. b.ord \in -1 .. MaxTrace /\ b.born \in -1 .. MaxTrace
    BY DEF BridgeRecords, Ordinals, Old
  <2>2. Len(tr) \in Nat /\ b.ord + e <= Len(tr)
    BY DEF Extends, BridgeTraced
  <2>. QED  BY <2>1, <2>2
<1>2. t <= Len(new) /\ t # Len(new)
  <2>1. Len(new) = Len(tr) + 1
    BY DEF Extends
  <2>. HIDE DEF t
  <2>. QED  BY <1>1, <2>1
<1>5. /\ b.born # Old =>
           /\ b.born < t /\ IsAlloc(tr[b.born + 1]) /\ b.ptr \in BlockRange(tr[b.born + 1])
           /\ \A k \in DOMAIN tr : b.born + 1 < k /\ k <= t => tr[k].addr # tr[b.born + 1].addr
      /\ \A i \in DOMAIN tr :
           IsAlloc(tr[i]) /\ i <= t + 1 /\ b.ptr \in BlockRange(tr[i]) /\ i # b.born + 1 =>
             \E k \in i + 1 .. b.born + 1 : tr[k].act = "free_requested" /\ tr[k].addr = tr[i].addr
      /\ t = Len(tr) => \E h \in hp : h.born = b.born /\ b.ptr \in BlockRange(h)
  BY DEF BridgeTraced
<1>6. SUFFICES
        /\ b.born # Old =>
             /\ b.born < t /\ IsAlloc(new[b.born + 1]) /\ b.ptr \in BlockRange(new[b.born + 1])
             /\ \A k \in DOMAIN new : b.born + 1 < k /\ k <= t => new[k].addr # new[b.born + 1].addr
        /\ \A i \in DOMAIN new :
             IsAlloc(new[i]) /\ i <= t + 1 /\ b.ptr \in BlockRange(new[i]) /\ i # b.born + 1 =>
               \E k \in i + 1 .. b.born + 1 : new[k].act = "free_requested" /\ new[k].addr = new[i].addr
  BY <1>2 DEF BridgeTraced
<1>. HIDE DEF t
<1>3. ASSUME b.born # Old
      PROVE  /\ b.born < t /\ IsAlloc(new[b.born + 1]) /\ b.ptr \in BlockRange(new[b.born + 1])
             /\ \A k \in DOMAIN new : b.born + 1 < k /\ k <= t => new[k].addr # new[b.born + 1].addr
  <2>1. b.born < t
    BY <1>3, <1>5
  <2>2. b.born + 1 \in DOMAIN tr
    BY <1>1, <1>3, <2>1 DEF Extends, Old
  <2>3. \A k \in DOMAIN new : k <= t => k \in DOMAIN tr
    BY <1>1 DEF Extends
  <2>. QED  BY <1>3, <1>5, <2>1, <2>2, <2>3 DEF Extends
<1>4. ASSUME NEW i \in DOMAIN new,
             IsAlloc(new[i]), i <= t + 1, b.ptr \in BlockRange(new[i]), i # b.born + 1
      PROVE  \E k \in i + 1 .. b.born + 1 : new[k].act = "free_requested" /\ new[k].addr = new[i].addr
  <2>1. CASE i \in DOMAIN tr
    <3>1. PICK k \in i + 1 .. b.born + 1 : tr[k].act = "free_requested" /\ tr[k].addr = tr[i].addr
      BY <1>4, <1>5, <2>1 DEF Extends
    <3>2. k \in DOMAIN tr
      <4>1. i \in Nat /\ i >= 1 /\ DOMAIN tr = 1 .. Len(tr)
        BY <2>1 DEF Extends
      <4>2. b.born # Old
        BY <1>1, <3>1, <4>1 DEF Old
      <4>3. b.born < t
        BY <1>5, <4>2
      <4>. QED  BY <1>1, <3>1, <4>1, <4>3
    <3>. QED  BY <2>1, <3>1, <3>2 DEF Extends
  <2>2. CASE i = Len(tr) + 1
    <3>1. t = Len(tr)
      BY <1>1, <1>4, <2>2
    <3>2. PICK h \in hp : b.ptr \in BlockRange(h)
      BY <1>5, <3>1
    <3>3. IsAlloc(ev) /\ b.ptr \in BlockRange(ev)
      BY <1>4, <2>2 DEF Extends
    <3>. QED  BY <3>2, <3>3
  <2>. QED  BY <2>1, <2>2 DEF Extends
<1>. QED  BY <1>3, <1>4

(* All the bridges of a trace that grows.                                  *)
LEMMA BridgesGrow ==
    ASSUME NEW tr, NEW new, NEW ev, Extends(tr, new, ev), NEW hp, NEW hq, NEW e \in Nat \cup {None},
           NEW bs \in Seq(BridgeRecords), BridgesTraced(tr, hp, bs, e),
           IsAlloc(ev) => \A h \in hp : BlockRange(h) \cap BlockRange(ev) = {}
    PROVE  BridgesTraced(new, hq, bs, e)
<1>1. \A i \in DOMAIN bs : bs[i] \in BridgeRecords
  OBVIOUS
<1>2. CASE e = None
  BY <1>2 DEF BridgesTraced
<1>3. CASE e \in Nat
  BY <1>1, <1>3, BridgeGrows DEF BridgesTraced
<1>. QED  BY <1>2, <1>3

(* A bridge that is taken now of a live block.                             *)
LEMMA BridgeTaken ==
    ASSUME NEW tr \in Seq(Events), NEW hp \in SUBSET Blocks, NEW ps \in SUBSET PastBlocks,
           Traced(tr, hp, ps), NEW h \in hp, NEW e,
           NEW b, b.ptr \in BlockRange(h), b.ord + e = Len(tr), b.born = h.born
    PROVE  BridgeTraced(tr, hp, b, e)
<1>1. /\ \A c \in hp : c.born \in Int /\ c.born >= -1
      /\ \A r \in ps : r.alloc \in Nat /\ r.free \in Nat
      /\ Len(tr) \in Nat /\ DOMAIN tr = 1 .. Len(tr)
  BY DEF Blocks, PastBlocks, Old
<1>2. \A c : /\ IsAlloc(Event("alloc", c)) /\ BlockRange(Event("alloc", c)) = BlockRange(c)
             /\ \A act : Event(act, c).addr = c.addr /\ Event(act, c).act = act
  BY DEF Event, IsAlloc, BlockRange
<1>3. ASSUME b.born # Old
      PROVE  /\ b.born < Len(tr) /\ IsAlloc(tr[b.born + 1]) /\ b.ptr \in BlockRange(tr[b.born + 1])
             /\ \A k \in DOMAIN tr : b.born + 1 < k => tr[k].addr # tr[b.born + 1].addr
  <2>1. h.born < Len(tr) /\ tr[h.born + 1] = Event("alloc", h)
    BY <1>3 DEF Traced, BirthsTraced
  <2>2. \A k \in DOMAIN tr : k > h.born + 1 => tr[k].addr # h.addr
    BY DEF Traced, BirthsTraced
  <2>. QED  BY <1>1, <1>2, <2>1, <2>2
<1>4. ASSUME NEW i \in DOMAIN tr, IsAlloc(tr[i]), b.ptr \in BlockRange(tr[i]), i # b.born + 1
      PROVE  \E k \in i + 1 .. b.born + 1 : tr[k].act = "free_requested" /\ tr[k].addr = tr[i].addr
  <2>1. ASSUME NEW c \in hp, c.born = i - 1
        PROVE  FALSE
    <3>1. c.born # Old /\ c.born + 1 = i
      BY <1>1, <2>1 DEF Old
    <3>2. tr[i] = Event("alloc", c)
      BY <3>1 DEF Traced, BirthsTraced
    <3>3. c = h
      BY <1>2, <1>4, <3>2 DEF Traced, Disjoint
    <3>. QED  BY <1>4, <3>1, <3>3
  <2>2. ASSUME NEW r \in ps, r.alloc = i - 1
        PROVE  \E k \in i + 1 .. b.born + 1 : tr[k].act = "free_requested" /\ tr[k].addr = tr[i].addr
    <3>1. r.alloc + 1 = i
      BY <1>1, <2>2
    <3>2. /\ r.alloc < r.free /\ r.free < Len(tr)
          /\ tr[i] = Event("alloc", r) /\ tr[r.free + 1] = Event("free_requested", r)
      BY <3>1 DEF Traced, DeathsTraced
    <3>3. r.free <= b.born
      <4>1. b.ptr \in BlockRange(r)
        BY <1>2, <1>4, <3>2
      <4>. QED  BY <4>1 DEF Traced, Successions
    <3>4. r.free + 1 \in i + 1 .. b.born + 1
      <4>1. b.born \in Int /\ r.alloc \in Nat /\ r.free \in Nat
        BY <1>1
      <4>. QED  BY <3>1, <3>2, <3>3, <4>1
    <3>5. /\ tr[i].addr = r.addr /\ tr[r.free + 1].addr = r.addr
          /\ tr[r.free + 1].act = "free_requested"
      BY <3>2 DEF Event
    <3>. QED  BY <3>4, <3>5
  <2>. QED  BY <1>4, <2>1, <2>2 DEF Traced, AllocsTraced
<1>5. Len(tr) <= Len(tr)
  BY <1>1
<1>. QED  BY <1>3, <1>4, <1>5 DEF BridgeTraced

-----------------------------------------------------------------------------
(* Every block born in the recording has its row.                          *)
LEMMA BlocksHaveRows ==
    ASSUME NEW tr \in Seq(Events), NEW hp \in SUBSET Blocks, NEW ps \in SUBSET PastBlocks,
           Traced(tr, hp, ps)
    PROVE  /\ \A b \in hp : b.born # Old => Gone(b, Len(tr)) \in Extract(tr)
           /\ \A r \in ps : r \in Extract(tr)
<1>1. Extract(tr) = ps \cup {Gone(b, Len(tr)) : b \in {h \in hp : h.born # Old}}
  BY ExtractIsHistory
<1>. QED  BY <1>1

(* A rebuilt lifetime, event by event.                                     *)
LEMMA RowsTraced ==
    ASSUME NEW tr \in Seq(Events), NEW hp \in SUBSET Blocks, NEW ps \in SUBSET PastBlocks,
           Traced(tr, hp, ps), NEW a \in Extract(tr)
    PROVE  /\ a.alloc \in Nat /\ a.free \in Nat /\ a.addr \in Nat /\ a.size \in Nat \ {0}
           /\ a.alloc < a.free /\ a.free <= Len(tr)
           /\ tr[a.alloc + 1] = Event("alloc", a)
           /\ a.free < Len(tr) => tr[a.free + 1].addr = a.addr
           /\ \A k \in DOMAIN tr : a.alloc + 1 < k /\ k <= a.free => tr[k].addr # a.addr
<1>0. Len(tr) \in Nat
  OBVIOUS
<1>1. a \in ps \/ \E b \in hp : b.born # Old /\ a = Gone(b, Len(tr))
  BY ExtractIsHistory
<1>2. CASE a \in ps
  <2>1. /\ a.alloc < a.free /\ a.free < Len(tr)
        /\ tr[a.alloc + 1] = Event("alloc", a) /\ tr[a.free + 1] = Event("free_requested", a)
        /\ \A k \in DOMAIN tr : a.alloc + 1 < k /\ k <= a.free => tr[k].addr # a.addr
    BY <1>2 DEF Traced, DeathsTraced
  <2>2. tr[a.free + 1].addr = a.addr
    BY <2>1 DEF Event
  <2>3. a.alloc \in Nat /\ a.free \in Nat /\ a.addr \in Nat /\ a.size \in Nat \ {0}
    BY <1>2, FieldsTyped
  <2>. HIDE DEF Event
  <2>. QED  BY <1>0, <2>1, <2>2, <2>3
<1>3. ASSUME NEW b \in hp, b.born # Old, a = Gone(b, Len(tr))
      PROVE  /\ a.alloc \in Nat /\ a.free \in Nat /\ a.addr \in Nat /\ a.size \in Nat \ {0}
             /\ a.alloc < a.free /\ a.free <= Len(tr)
             /\ tr[a.alloc + 1] = Event("alloc", a)
             /\ a.free < Len(tr) => tr[a.free + 1].addr = a.addr
             /\ \A k \in DOMAIN tr : a.alloc + 1 < k /\ k <= a.free => tr[k].addr # a.addr
  <2>1. a.addr = b.addr /\ a.size = b.size /\ a.alloc = b.born /\ a.free = Len(tr)
    BY <1>3 DEF Gone
  <2>2. b.born \in Nat /\ b.addr \in Nat /\ b.size \in Nat \ {0}
    BY <1>3, FieldsTyped DEF Old
  <2>3. Event("alloc", a) = Event("alloc", b)
    BY <2>1 DEF Event
  <2>4. /\ b.born < Len(tr) /\ tr[b.born + 1] = Event("alloc", b)
        /\ \A k \in DOMAIN tr : k > b.born + 1 => tr[k].addr # b.addr
    BY <1>3 DEF Traced, BirthsTraced
  <2>. HIDE DEF Event
  <2>. QED  BY <1>0, <2>1, <2>2, <2>3, <2>4
<1>. QED  BY <1>1, <1>2, <1>3

(* The first of allocations that all have one ordinal.                     *)
LEMMA FirstOfOne ==
    ASSUME NEW S, NEW o \in Int, \A a \in S : a.alloc = o, NEW x \in S
    PROVE  FirstByAlloc(S) = o
<1>1. x \in S /\ \A b \in S : x.alloc <= b.alloc
  OBVIOUS
<1>2. (CHOOSE a \in S : \A b \in S : a.alloc <= b.alloc) \in S
  BY <1>1
<1>. QED  BY <1>2 DEF FirstByAlloc

(* A bridge finds its own block, unless the next event freed it, or it was  *)
(* born after the ordinal of the bridge.                                   *)
LEMMA BridgeMatched ==
    ASSUME NEW tr \in Seq(Events), NEW hp \in SUBSET Blocks, NEW ps \in SUBSET PastBlocks,
           Traced(tr, hp, ps), NEW b \in BridgeRecords, b.ord >= 0,
           NEW e \in Nat, BridgeTraced(tr, hp, b, e)
    PROVE  \/ BridgeMatch(Extract(tr), b) = b.born
           \/ /\ BridgeMatch(Extract(tr), b) = NoMatch
              /\ \E a \in Extract(tr) : a.alloc = b.born /\ a.free = b.ord
           \/ b.ord < b.born /\ b.born < b.ord + e
<1>. DEFINE allocs == Extract(tr)
            exact  == {a \in allocs : a.addr = b.ptr /\ LiveAt(a, b.ord)}
            wider  == {a \in allocs : Holds(a, b.ptr) /\ LiveAt(a, b.ord)}
<1>0. /\ Len(tr) \in Nat /\ DOMAIN tr = 1 .. Len(tr)
      /\ b.ord \in Int /\ b.born \in Int /\ b.ptr \in Nat
  <2>1. b.ord \in -1 .. MaxTrace /\ b.born \in Old .. MaxTrace /\ b.ptr \in Addrs
    BY DEF BridgeRecords, Ordinals
  <2>2. b.ptr \in Nat
    BY <2>1
  <2>. QED  BY <2>1, <2>2 DEF Old
<1>t. /\ b.ord + e \in Int /\ b.ord <= b.ord + e /\ b.ord + e <= Len(tr)
      /\ b.born # Old => b.born < b.ord + e
  BY <1>0 DEF BridgeTraced
<1>b. SUFFICES ASSUME b.born <= b.ord
               PROVE  \/ BridgeMatch(Extract(tr), b) = b.born
                      \/ /\ BridgeMatch(Extract(tr), b) = NoMatch
                         /\ \E a \in Extract(tr) : a.alloc = b.born /\ a.free = b.ord
  BY <1>0, <1>t DEF Old
<1>1. BridgeMatch(allocs, b) = IF exact # {} THEN FirstByAlloc(exact) ELSE FirstByAlloc(wider)
  BY DEF BridgeMatch
<1>2. ASSUME NEW a \in allocs
      PROVE  /\ a.alloc \in Nat /\ a.free \in Nat /\ a.addr \in Nat /\ a.size \in Nat \ {0}
             /\ a.alloc < a.free /\ a.free <= Len(tr)
             /\ IsAlloc(tr[a.alloc + 1]) /\ tr[a.alloc + 1].addr = a.addr
             /\ a.alloc + 1 \in DOMAIN tr
             /\ Holds(a, b.ptr) <=> b.ptr \in BlockRange(tr[a.alloc + 1])
             /\ a.free < Len(tr) => tr[a.free + 1].addr = a.addr
             /\ \A k \in DOMAIN tr : a.alloc + 1 < k /\ k <= a.free => tr[k].addr # a.addr
  <2>1. /\ a.alloc \in Nat /\ a.free \in Nat /\ a.addr \in Nat /\ a.size \in Nat \ {0}
        /\ a.alloc < a.free /\ a.free <= Len(tr)
        /\ tr[a.alloc + 1] = Event("alloc", a)
        /\ a.free < Len(tr) => tr[a.free + 1].addr = a.addr
        /\ \A k \in DOMAIN tr : a.alloc + 1 < k /\ k <= a.free => tr[k].addr # a.addr
    BY RowsTraced
  <2>2. IsAlloc(tr[a.alloc + 1]) /\ tr[a.alloc + 1].addr = a.addr /\ tr[a.alloc + 1].size = a.size
    BY <2>1 DEF Event, IsAlloc
  <2>0. Len(tr) \in Nat /\ DOMAIN tr = 1 .. Len(tr) /\ b.ptr \in Nat
    BY <1>0
  <2>3. a.alloc + 1 \in DOMAIN tr
    <3>1. a.alloc < Len(tr)
      BY <2>0, <2>1
    <3>. QED  BY <2>0, <2>1, <3>1, InTrace
  <2>4. Holds(a, b.ptr) <=> b.ptr \in BlockRange(tr[a.alloc + 1])
    BY <2>0, <2>1, <2>2, HoldsRange
  <2>. QED  BY <2>1, <2>2, <2>3, <2>4
<1>. HIDE DEF allocs
<1>3. ASSUME NEW a \in allocs, Holds(a, b.ptr), LiveAt(a, b.ord)
      PROVE  a.alloc = b.born
  <2>1. SUFFICES ASSUME a.alloc + 1 # b.born + 1
                 PROVE  FALSE
    BY <1>0, <1>2
  <2>2. a.alloc <= b.ord /\ b.ord < a.free
    BY <1>3 DEF LiveAt
  <2>3. a.alloc + 1 <= b.ord + 1
    BY <1>0, <1>2, <2>2
  <2>4. PICK k \in (a.alloc + 1) + 1 .. b.born + 1 :
               tr[k].act = "free_requested" /\ tr[k].addr = tr[a.alloc + 1].addr
    <3>. DEFINE i == a.alloc + 1
    <3>0. i <= (b.ord + e) + 1
      <4>1. a.alloc \in Nat /\ b.ord \in Int
        BY <1>0, <1>2
      <4>2. b.ord + e \in Int /\ b.ord <= b.ord + e
        BY <1>t
      <4>. QED  BY ONLY <2>3, <4>1, <4>2
    <3>1. i \in DOMAIN tr /\ IsAlloc(tr[i]) /\ b.ptr \in BlockRange(tr[i]) /\ i # b.born + 1
      BY <1>2, <1>3, <2>1
    <3>. HIDE DEF i
    <3>2. \E k \in i + 1 .. b.born + 1 : tr[k].act = "free_requested" /\ tr[k].addr = tr[i].addr
      BY <3>0, <3>1 DEF BridgeTraced
    <3>. QED  BY <3>2 DEF i
  <2>5. k \in DOMAIN tr /\ a.alloc + 1 < k /\ k <= a.free
    <3>1. a.alloc \in Nat /\ a.free \in Nat /\ a.free <= Len(tr)
      BY <1>2
    <3>2. k \in (a.alloc + 1) + 1 .. b.born + 1 /\ b.born + 1 <= a.free
      <4>1. b.born \in Int /\ b.ord \in Int /\ a.free \in Int
        BY <1>0, <3>1
      <4>2. b.born <= b.ord /\ b.ord < a.free
        BY <1>b, <2>2
      <4>3. b.born + 1 <= a.free
        BY ONLY <4>1, <4>2
      <4>. QED  BY <2>4, <4>3
    <3>3. b.born + 1 \in Int /\ Len(tr) \in Nat /\ DOMAIN tr = 1 .. Len(tr)
      BY <1>0
    <3>. QED  BY <3>1, <3>2, <3>3, OnTheWay
  <2>. QED  BY <1>2, <2>4, <2>5
<1>4. \A a \in exact : a \in wider
  BY <1>0, <1>2 DEF Holds
<1>5. \A a \in wider : a.alloc = b.born
  BY <1>3
<1>6. ASSUME NEW x \in wider
      PROVE  BridgeMatch(allocs, b) = b.born
  <2>. HIDE DEF wider, exact
  <2>1. CASE exact # {}
    <3>1. PICK y : y \in exact
      BY <2>1
    <3>2. FirstByAlloc(exact) = b.born
      BY <1>0, <1>4, <1>5, <3>1, FirstOfOne
    <3>. QED  BY <1>1, <2>1, <3>2
  <2>2. CASE exact = {}
    <3>1. FirstByAlloc(wider) = b.born
      BY <1>0, <1>5, FirstOfOne
    <3>. QED  BY <1>1, <2>2, <3>1
  <2>. QED  BY <2>1, <2>2
<1>7. CASE wider = {}
  <2>1. exact = {}
    BY <1>4, <1>7
  <2>. HIDE DEF exact, wider
  <2>2. BridgeMatch(allocs, b) = NoMatch
    BY <1>1, <1>7, <2>1 DEF FirstByAlloc
  <2>3. CASE b.born = Old
    BY <2>2, <2>3 DEF NoMatch, Old, allocs
  <2>4. CASE b.born # Old
    <3>0. /\ b.born < b.ord + e /\ IsAlloc(tr[b.born + 1]) /\ b.ptr \in BlockRange(tr[b.born + 1])
          /\ \A k \in DOMAIN tr : b.born + 1 < k /\ k <= b.ord + e => tr[k].addr # tr[b.born + 1].addr
      BY <2>4 DEF BridgeTraced
    <3>n. \A k \in DOMAIN tr : k \in Int /\ (k <= b.ord => k <= b.ord + e)
      BY <1>0, <1>t
    <3>1. /\ b.born < Len(tr) /\ IsAlloc(tr[b.born + 1]) /\ b.ptr \in BlockRange(tr[b.born + 1])
          /\ b.ord <= Len(tr)
          /\ \A k \in DOMAIN tr : b.born + 1 < k /\ k <= b.ord => tr[k].addr # tr[b.born + 1].addr
      BY <1>0, <1>t, <3>0, <3>n
    <3>2. b.born \in Nat /\ b.born + 1 \in DOMAIN tr
      <4>1. b.born \in Nat
        BY <2>4 DEF BridgeRecords, Old
      <4>. QED  BY <1>0, <3>1, <4>1
    <3>3. PICK a \in allocs : a.alloc = b.born
      <4>0. (b.born + 1) - 1 = b.born
        BY <3>2
      <4>1. CASE \E h \in hp : h.born = (b.born + 1) - 1
        <5>1. PICK h \in hp : h.born = b.born
          BY <4>0, <4>1
        <5>2. Gone(h, Len(tr)) \in allocs
          BY <2>4, <5>1, BlocksHaveRows DEF allocs
        <5>. QED  BY <5>1, <5>2 DEF Gone
      <4>2. CASE \E r \in ps : r.alloc = (b.born + 1) - 1
        <5>1. PICK r \in ps : r.alloc = b.born
          BY <4>0, <4>2
        <5>2. r \in allocs
          BY BlocksHaveRows DEF allocs
        <5>. QED  BY <5>1, <5>2
      <4>. QED  BY <3>1, <3>2, <4>1, <4>2 DEF Traced, AllocsTraced
    <3>4. Holds(a, b.ptr)
      BY <1>2, <3>1, <3>3
    <3>5. ~LiveAt(a, b.ord)
      BY <1>7, <3>4 DEF wider
    <3>6. ~ b.ord < a.free
      BY <1>0, <1>2, <1>b, <3>3, <3>5 DEF LiveAt
    <3>7. ~ a.free < b.ord
      <4>1. SUFFICES ASSUME a.free < b.ord
                     PROVE  FALSE
        OBVIOUS
      <4>2. a.alloc \in Nat /\ a.free \in Nat /\ a.alloc < a.free
        BY <1>2
      <4>0. b.ord \in Int /\ b.ord <= Len(tr) /\ Len(tr) \in Nat /\ DOMAIN tr = 1 .. Len(tr)
        BY <1>0, <3>1
      <4>3. a.free < Len(tr) /\ a.free + 1 \in DOMAIN tr
        <5>1. a.free < Len(tr)
          BY <4>0, <4>1, <4>2
        <5>. QED  BY <4>0, <4>2, <5>1, InTrace
      <4>5. b.born + 1 < a.free + 1 /\ a.free + 1 <= b.ord
        BY <3>3, <4>0, <4>1, <4>2
      <4>4. tr[a.free + 1].addr = tr[b.born + 1].addr
        BY <1>2, <3>3, <4>3
      <4>. QED  BY <3>1, <4>3, <4>4, <4>5
    <3>8. a.free = b.ord
      BY <1>0, <1>2, <3>6, <3>7
    <3>. QED  BY <2>2, <3>3, <3>8 DEF allocs
  <2>. QED  BY <2>3, <2>4
<1>. QED  BY <1>6, <1>7 DEF allocs

(* A slot of a block that stays finds that block.                          *)
LEMMA SlotMatched ==
    ASSUME NEW tr \in Seq(Events), NEW hp \in SUBSET Blocks, NEW ps \in SUBSET PastBlocks,
           Traced(tr, hp, ps), NEW ws \in SUBSET WindowRecords, NEW s \in SlotRecords,
           NEW e \in Nat \cup {None}, \A w \in ws : BornBefore(s, w, e) /\ w.end <= Len(tr),
           NEW w \in ws, s.key = w.key, Usable(w),
           NEW h \in hp, h.born = s.born, s.ptr \in BlockRange(h)
    PROVE  \/ SlotMatch(Extract(tr), ws, s) = s.born
           \/ w.begin >= w.end /\ SlotMatch(Extract(tr), ws, s) = NoMatch
           \/ \E v \in ws : v.key = s.key /\ Usable(v) /\ v.begin < s.born /\ s.born < v.begin + e
<1>. DEFINE allocs == Extract(tr)
            ranges == {v \in ws : v.key = s.key /\ Usable(v)}
            cands  == {a \in allocs : /\ Holds(a, s.ptr)
                                      /\ ranges = {} \/ \E v \in ranges : Overlaps(a, v)}
            lowest == {a \in cands : \A b \in cands : a.addr <= b.addr}
            g      == Gone(h, Len(tr))
<1>0. /\ Len(tr) \in Nat /\ s.born \in Int /\ s.ptr \in Nat
      /\ h.born \in Int /\ h.addr \in Nat /\ h.size \in Nat \ {0}
      /\ \A v \in ws : v.begin \in Int /\ v.end \in Int
  <2>1. s.born \in Old .. MaxTrace /\ s.ptr \in Addrs
    BY DEF SlotRecords
  <2>2. s.born \in Int
    BY <2>1 DEF Old
  <2>4. s.ptr \in Nat
    BY <2>1
  <2>3. \A v \in ws : v.begin \in Int /\ v.end \in Int
    BY DEF WindowRecords, Ordinals
  <2>. QED  BY <2>2, <2>3, <2>4, FieldsTyped
<1>1. SlotMatch(allocs, ws, s) = FirstByAlloc(lowest)
  BY DEF SlotMatch
<1>2. g.alloc = h.born /\ g.addr = h.addr /\ g.size = h.size /\ g.free = Len(tr)
  BY DEF Gone
<1>3. w \in ranges
  OBVIOUS
<1>b. \A v \in ranges : s.born < v.begin + e
  BY DEF BornBefore, Usable
<1>c. SUFFICES ASSUME \A v \in ranges : ~ v.begin < s.born
               PROVE  \/ SlotMatch(Extract(tr), ws, s) = s.born
                      \/ w.begin >= w.end /\ SlotMatch(Extract(tr), ws, s) = NoMatch
  BY <1>b
<1>4. \A v \in ranges : s.born <= v.begin
  <2>1. \A v \in ranges : v.begin \in Int
    BY <1>0
  <2>. HIDE DEF ranges
  <2>. QED  BY <1>0, <1>c, <2>1
<1>. HIDE DEF ranges, g
<1>5. ASSUME NEW a \in cands
      PROVE  a = g /\ h.born # Old
  <2>1. a \in Extract(tr) /\ Holds(a, s.ptr)
    OBVIOUS
  <2>2. PICK v \in ranges : Overlaps(a, v)
    BY <1>3
  <2>. HIDE DEF cands, lowest, allocs
  <2>3. s.ptr \in BlockRange(a)
    <3>1. a.addr \in Nat /\ a.size \in Nat
      BY <2>1, RowsTraced
    <3>2. s.ptr \in Nat
      BY <1>0
    <3>. QED  BY <2>1, <3>1, <3>2, HoldsRange
  <2>4. a \in ps \/ \E b \in hp : b.born # Old /\ a = Gone(b, Len(tr))
    BY <2>1, ExtractIsHistory
  <2>5. a \notin ps
    <3>1. SUFFICES ASSUME a \in ps
                   PROVE  FALSE
      OBVIOUS
    <3>2. a.free <= s.born
      BY <2>3, <3>1 DEF Traced, Successions
    <3>3. a.free \in Nat /\ v.begin \in Int
      BY <1>0, <2>2, <3>1, FieldsTyped DEF ranges
    <3>4. v.begin < a.free
      BY <2>2 DEF Overlaps
    <3>. QED  BY <1>0, <1>4, <2>2, <3>2, <3>3, <3>4
  <2>6. PICK b \in hp : b.born # Old /\ a = Gone(b, Len(tr))
    BY <2>4, <2>5
  <2>7. BlockRange(a) = BlockRange(b)
    BY <2>6 DEF Gone, BlockRange
  <2>8. b = h
    BY <2>3, <2>7 DEF Traced, Disjoint
  <2>. QED  BY <2>6, <2>8 DEF g
<1>6. CASE cands = {}
  <2>1. SlotMatch(allocs, ws, s) = NoMatch
    <3>1. lowest = {}
      BY <1>6
    <3>. HIDE DEF lowest
    <3>. QED  BY <1>1, <3>1 DEF FirstByAlloc
  <2>2. CASE h.born = Old
    BY <2>1, <2>2 DEF NoMatch, Old
  <2>3. CASE h.born # Old
    <3>0. w.begin \in Int /\ w.end \in Int
      BY <1>0
    <3>1. SUFFICES ASSUME w.begin < w.end
                   PROVE  FALSE
      BY <2>1, <3>0
    <3>2. g \in allocs
      BY <2>3, BlocksHaveRows DEF g
    <3>3. Holds(g, s.ptr)
      BY <1>0, <1>2 DEF Holds, BlockRange
    <3>4. s.born <= w.begin /\ w.end <= Len(tr) /\ w.begin \in Int /\ w.end \in Int
      BY <1>0, <1>3, <1>4
    <3>5. Overlaps(g, w)
      BY <1>0, <1>2, <3>1, <3>4 DEF Overlaps
    <3>6. g \in cands
      BY <1>3, <3>2, <3>3, <3>5
    <3>. QED  BY <1>6, <3>6
  <2>. QED  BY <2>2, <2>3
<1>7. ASSUME NEW x \in cands
      PROVE  SlotMatch(allocs, ws, s) = s.born
  <2>. HIDE DEF cands
  <2>1. g \in cands /\ \A a \in cands : a = g
    BY <1>5, <1>7
  <2>2. g \in lowest /\ \A a \in lowest : a.alloc = s.born
    BY <1>0, <1>2, <2>1
  <2>. HIDE DEF lowest
  <2>3. FirstByAlloc(lowest) = s.born
    BY <1>0, <2>2, FirstOfOne
  <2>. QED  BY <1>1, <2>3
<1>. HIDE DEF cands
<1>. QED  BY <1>6, <1>7

-----------------------------------------------------------------------------
(* The capture, action by action.                                          *)

(* A dump that was written stays what it is.                               *)
LEMMA ArtifactStays ==
    ASSUME ArtifactTraced, UNCHANGED artifact
    PROVE  ArtifactTraced'
BY DEF ArtifactTraced, Dumped

(* A read of the ordinal: its answer and the slack make up the length, and  *)
(* records that were true of the old slack are true of the new.            *)
LEMMA TraceLenTraced ==
    ASSUME TypeOK, recording, RecordingTraced, NEW ord \in Ordinals, TraceLen(ord)
    PROVE  /\ trace' = trace /\ slack' \in Nat \cup {None}
           /\ Traced(trace', heap, past)
           /\ BridgesTraced(trace', heap, bridges, slack') /\ SlotsTraced(slots, windows, slack')
           /\ Begun => \A s \in slots : BornBefore(s, shape, slack')
           /\ ord >= 0 => slack' # None /\ ord + slack' = Len(trace)
<1>0. /\ Traced(trace, heap, past)
      /\ BridgesTraced(trace, heap, bridges, slack) /\ SlotsTraced(slots, windows, slack)
      /\ Begun => \A s \in slots : BornBefore(s, shape, slack)
  BY DEF RecordingTraced
<1>1. /\ trace' = trace /\ slack' \in Nat \cup {None}
      /\ slack # None => slack' = slack
      /\ ord >= 0 => slack' # None /\ ord + slack' = Len(trace)
  BY TraceLenSettles
<1>2. CASE slack # None
  BY <1>0, <1>1, <1>2
<1>3. CASE slack = None
  <2>1. BridgesTraced(trace, heap, bridges, slack') /\ SlotsTraced(slots, windows, slack')
    BY <1>0, <1>3 DEF BridgesTraced, SlotsTraced, BornBefore
  <2>2. Begun => \A s \in slots : BornBefore(s, shape, slack')
    BY <1>0, <1>3 DEF BornBefore
  <2>. QED  BY <1>0, <1>1, <2>1, <2>2
<1>. QED  BY <1>2, <1>3

(* What TypeOK says of the parts that the history reads.                   *)
LEMMA StateTyped ==
    ASSUME TypeOK
    PROVE  /\ trace \in Seq(Events) /\ Len(trace) \in Nat
           /\ heap \in SUBSET Blocks /\ past \in SUBSET PastBlocks
           /\ windows \in Seq(WindowRecords) /\ bridges \in Seq(BridgeRecords)
           /\ slots \in SUBSET SlotRecords /\ slack \in Nat \cup {None}
<1>1. trace \in Seq(Events)
  BY DEF TypeOK
<1>2. Len(trace) \in Nat
  BY <1>1
<1>. QED  BY <1>1, <1>2 DEF TypeOK

(* An allocation outside the recording is old; inside it is born by its    *)
(* event.                                                                  *)
LEMMA AllocHistory ==
    ASSUME IInv, TypeOK', HistoryInv, NEW a \in Addrs, NEW z \in Sizes, Alloc(a, z)
    PROVE  HistoryInv'
<1>. DEFINE b == [addr |-> a, size |-> z, born |-> IF recording THEN Len(trace) ELSE Old]
<1>0. /\ trace \in Seq(Events) /\ Len(trace) \in Nat /\ heap \in SUBSET Blocks /\ past \in SUBSET PastBlocks
      /\ slack \in Nat \cup {None} /\ bridges \in Seq(BridgeRecords)
  BY StateTyped DEF IInv
<1>1. heap' = heap \cup {b} /\ UNCHANGED <<recording, past, counter, records, program>>
  BY DEF Alloc
<1>2. b \in Blocks
  <2>1. heap' \subseteq Blocks
    BY DEF TypeOK
  <2>. QED  BY <1>1, <2>1
<1>3. BlockRange(b) = a .. a + z - 1
  BY DEF BlockRange
<1>4. \A c \in heap : BlockRange(c) \cap BlockRange(b) = {}
  BY <1>3 DEF Alloc
<1>5. b.born = IF recording THEN Len(trace) ELSE Old
  OBVIOUS
<1>6. trace' = IF recording THEN Append(trace, Event("alloc", b)) ELSE trace
  BY DEF Alloc
<1>. HIDE DEF b
<1>7. Disjoint(heap)'
  BY <1>1, <1>4 DEF HistoryInv, Disjoint
<1>8. ASSUME recording
      PROVE  RecordingTraced'
  <2>. DEFINE ev == Event("alloc", b)
  <2>1. ev \in Events /\ IsAlloc(ev) /\ BlockRange(ev) = BlockRange(b)
    <3>1. b.addr \in Addrs /\ b.size \in Nat
      BY <1>2, FieldsTyped DEF Blocks
    <3>. QED  BY <3>1 DEF Event, Events, IsAlloc, BlockRange
  <2>. HIDE DEF ev
  <2>2. Extends(trace, trace', ev)
    BY <1>0, <1>6, <1>8, <2>1, AppendExtends DEF ev
  <2>3. /\ Traced(trace, heap, past) /\ SlotsKeyed
        /\ BridgesTraced(trace, heap, bridges, slack) /\ SlotsTraced(slots, windows, slack)
        /\ Begun => \A s \in slots : BornBefore(s, shape, slack)
    BY <1>8 DEF HistoryInv, RecordingTraced
  <2>4. Traced(trace', heap', past')
    BY <1>0, <1>1, <1>2, <1>4, <1>5, <1>8, <2>2, <2>3, TracedAllocates DEF ev
  <2>7. SlotsKeyed'
    BY <1>1, <2>3 DEF SlotsKeyed, Begun, records, program
  <2>8. BridgesTraced(trace', heap', bridges', slack')
    <3>1. slack \in Nat \cup {None} /\ slack' = slack /\ bridges' = bridges
      BY <1>0, <1>1 DEF counter, records
    <3>. QED  BY <1>0, <1>4, <2>1, <2>2, <2>3, <3>1, BridgesGrow
  <2>9. /\ SlotsTraced(slots', windows', slack')
        /\ Begun' => \A s \in slots' : BornBefore(s, shape', slack')
    BY <1>1, <2>3 DEF Begun, counter, records, program
  <2>. QED  BY <2>4, <2>7, <2>8, <2>9 DEF RecordingTraced
<1>9. ArtifactTraced'
  BY <1>1, ArtifactStays DEF HistoryInv, program
<1>10. recording' <=> at' # "out"
  BY <1>1 DEF HistoryInv, program
<1>. QED  BY <1>1, <1>7, <1>8, <1>9, <1>10 DEF HistoryInv, RecordingTraced

(* A free ends the life of one block and touches no other.                 *)
LEMMA FreeHistory ==
    ASSUME IInv, TypeOK', HistoryInv, NEW b \in heap, Free(b)
    PROVE  HistoryInv'
<1>0. /\ trace \in Seq(Events) /\ Len(trace) \in Nat /\ heap \in SUBSET Blocks /\ past \in SUBSET PastBlocks
      /\ slack \in Nat \cup {None} /\ bridges \in Seq(BridgeRecords) /\ past' \in SUBSET PastBlocks
  <2>1. past' \in SUBSET PastBlocks
    BY DEF TypeOK
  <2>. QED  BY <2>1, StateTyped DEF IInv
<1>1. heap' = heap \ {b} /\ UNCHANGED <<recording, counter, records, program>>
  BY DEF Free
<1>2. Disjoint(heap)'
  BY <1>1 DEF HistoryInv, Disjoint
<1>3. ASSUME recording
      PROVE  RecordingTraced'
  <2>. DEFINE e1  == Event("free_requested", b)
              e2  == Event("free_completed", b)
              mid == Append(trace, e1)
  <2>1. e1 \in Events /\ e2 \in Events /\ ~IsAlloc(e1) /\ ~IsAlloc(e2) /\ e2.addr = b.addr
    <3>1. b.addr \in Addrs /\ b.size \in Nat
      BY <1>0, FieldsTyped DEF Blocks
    <3>. QED  BY <3>1 DEF Event, Events, IsAlloc
  <2>2. trace' = trace \o <<e1, e2>>
    BY <1>3 DEF Free
  <2>3. past' = IF b.born = Old THEN past ELSE past \cup {Gone(b, Len(trace))}
    BY <1>3 DEF Free, Gone
  <2>. HIDE DEF e1, e2
  <2>4. mid \in Seq(Events) /\ Extends(trace, mid, e1)
    BY <1>0, <2>1, AppendExtends
  <2>5. trace' = Append(mid, e2)
    <3>. HIDE DEF Events
    <3>1. trace \in Seq(Events) /\ e1 \in Events /\ e2 \in Events
      BY <1>0, <2>1
    <3>. QED  BY <2>2, <3>1
  <2>. HIDE DEF mid
  <2>6. trace' \in Seq(Events) /\ Extends(mid, trace', e2)
    BY <2>1, <2>4, <2>5, AppendExtends
  <2>7. /\ Traced(trace, heap, past) /\ SlotsKeyed
        /\ BridgesTraced(trace, heap, bridges, slack) /\ SlotsTraced(slots, windows, slack)
        /\ Begun => \A s \in slots : BornBefore(s, shape, slack)
    BY <1>3 DEF HistoryInv, RecordingTraced
  <2>8. Traced(mid, heap', past')
    BY <1>0, <1>1, <2>3, <2>4, <2>7, TracedFrees DEF e1
  <2>9. \A c \in heap' : e2.addr # c.addr
    BY <1>0, <1>1, <2>1, BlockStarts DEF HistoryInv, Disjoint
  <2>10. Traced(trace', heap', past')
    <3>1. heap' \in SUBSET Blocks
      BY <1>0, <1>1
    <3>. QED  BY <1>0, <2>1, <2>6, <2>8, <2>9, <3>1, TracedGrows
  <2>13. SlotsKeyed'
    BY <1>1, <2>7 DEF SlotsKeyed, Begun, records, program
  <2>14. BridgesTraced(trace', heap', bridges', slack')
    <3>1. slack \in Nat \cup {None} /\ slack' = slack /\ bridges' = bridges
      BY <1>0, <1>1 DEF counter, records
    <3>2. BridgesTraced(mid, heap, bridges, slack)
      BY <1>0, <2>1, <2>4, <2>7, <3>1, BridgesGrow
    <3>. QED  BY <1>0, <2>1, <2>6, <3>1, <3>2, BridgesGrow
  <2>15. /\ SlotsTraced(slots', windows', slack')
         /\ Begun' => \A s \in slots' : BornBefore(s, shape', slack')
    BY <1>1, <2>7 DEF Begun, counter, records, program
  <2>. QED  BY <2>10, <2>13, <2>14, <2>15 DEF RecordingTraced
<1>4. ArtifactTraced'
  BY <1>1, ArtifactStays DEF HistoryInv, program
<1>5. recording' <=> at' # "out"
  BY <1>1 DEF HistoryInv, program
<1>. QED  BY <1>1, <1>2, <1>3, <1>4, <1>5 DEF HistoryInv, RecordingTraced

(* The marker of a snapshot touches no block, and no record is settled yet. *)
LEMMA SnapshotHistory ==
    ASSUME IInv, HistoryInv, Snapshot
    PROVE  HistoryInv'
<1>0. /\ trace \in Seq(Events) /\ heap \in SUBSET Blocks /\ past \in SUBSET PastBlocks
      /\ slack \in Nat \cup {None} /\ bridges \in Seq(BridgeRecords)
  BY StateTyped DEF IInv
<1>1. /\ trace' = Append(trace, Marker)
      /\ UNCHANGED <<recording, heap, past, slack, records, program>>
  BY DEF Snapshot
<1>2. recording /\ RecordingTraced
  BY DEF HistoryInv, Snapshot
<1>3. Marker \in Events /\ ~IsAlloc(Marker) /\ Marker.addr = -1
  BY DEF Marker, Events, IsAlloc
<1>4. trace' \in Seq(Events) /\ Extends(trace, trace', Marker)
  BY <1>0, <1>1, <1>3, AppendExtends
<1>5. \A b \in heap : Marker.addr # b.addr
  BY <1>0, <1>3, FieldsTyped
<1>6. Traced(trace', heap', past')
  BY <1>0, <1>1, <1>2, <1>3, <1>4, <1>5, TracedGrows DEF RecordingTraced
<1>7. BridgesTraced(trace', heap', bridges', slack')
  <2>1. slack' = slack /\ bridges' = bridges /\ heap' = heap
    BY <1>1 DEF records
  <2>2. BridgesTraced(trace, heap, bridges, slack)
    BY <1>2 DEF RecordingTraced
  <2>. QED  BY <1>0, <1>3, <1>4, <2>1, <2>2, BridgesGrow
<1>8. /\ SlotsKeyed' /\ SlotsTraced(slots', windows', slack')
      /\ Begun' => \A s \in slots' : BornBefore(s, shape', slack')
  BY <1>1, <1>2 DEF RecordingTraced, SlotsKeyed, Begun, records, program
<1>9. RecordingTraced'
  BY <1>6, <1>7, <1>8 DEF RecordingTraced
<1>10. ArtifactTraced'
  BY <1>1, ArtifactStays DEF HistoryInv, program
<1>11. Disjoint(heap)' /\ (recording' <=> at' # "out")
  BY <1>1 DEF HistoryInv, program
<1>. QED  BY <1>9, <1>10, <1>11 DEF HistoryInv

(* Enabling the recording makes every block an old one of an empty trace.  *)
LEMMA EnterCaptureHistory ==
    ASSUME IInv, HistoryInv, NEW r \in Runners, EnterCapture(r)
    PROVE  HistoryInv'
<1>1. /\ heap' = {[b EXCEPT !.born = Old] : b \in heap}
      /\ windows' = <<>> /\ bridges' = <<>> /\ slots' = {} /\ trace' = <<>> /\ past' = {} /\ slack' = None
      /\ at' = "capture" /\ recording' = TRUE /\ artifact' = artifact
  BY DEF EnterCapture, Cleared
<1>2. heap \subseteq Blocks
  BY DEF IInv, TypeOK
<1>3. ASSUME NEW b \in Blocks
      PROVE  [b EXCEPT !.born = Old].born = Old /\ BlockRange([b EXCEPT !.born = Old]) = BlockRange(b)
  <2>1. b \in [addr : Addrs, size : Sizes, born : Old .. MaxTrace]
    BY DEF Blocks
  <2>2. [b EXCEPT !.born = Old] = [addr |-> b.addr, size |-> b.size, born |-> Old]
    BY <2>1
  <2>. QED  BY <2>2 DEF BlockRange
<1>4. Disjoint(heap')
  <2>1. SUFFICES ASSUME NEW c \in heap', NEW d \in heap', c # d
                 PROVE  BlockRange(c) \cap BlockRange(d) = {}
    BY DEF Disjoint
  <2>2. PICK b \in heap, e \in heap : c = [b EXCEPT !.born = Old] /\ d = [e EXCEPT !.born = Old]
    BY <1>1
  <2>3. b # e /\ b \in Blocks /\ e \in Blocks
    BY <1>2, <2>1, <2>2
  <2>4. BlockRange(b) \cap BlockRange(e) = {}
    BY <2>3 DEF HistoryInv, Disjoint
  <2>. QED  BY <1>3, <2>2, <2>3, <2>4
<1>5. \A c \in heap' : c.born = Old
  BY <1>1, <1>2, <1>3
<1>6. Traced(trace', heap', past')
  BY <1>1, <1>4, <1>5 DEF Traced, BirthsTraced, DeathsTraced, AllocsTraced, Successions
<1>7. RecordingTraced'
  BY <1>1, <1>6 DEF RecordingTraced, SlotsKeyed, BridgesTraced, SlotsTraced, Begun
<1>8. ArtifactTraced'
  BY <1>1, ArtifactStays DEF HistoryInv
<1>. QED  BY <1>1, <1>4, <1>7, <1>8 DEF HistoryInv

(* The dump: what it holds of the trace and what is true of that.          *)
LEMMA ExitCaptureHistory ==
    ASSUME IInv, HistoryInv, ExitCapture
    PROVE  HistoryInv'
<1>0. /\ trace \in Seq(Events) /\ Len(trace) \in Nat /\ heap \subseteq Blocks /\ past \subseteq PastBlocks
      /\ windows \in Seq(WindowRecords) /\ bridges \in Seq(BridgeRecords) /\ slots \subseteq SlotRecords
      /\ slack \in Nat \cup {None}
  BY StateTyped DEF IInv
<1>1. /\ artifact'.events = Kept(trace) /\ artifact'.evicted = Evicted(trace)
      /\ artifact'.windows = windows /\ artifact'.bridges = bridges /\ artifact'.slots = slots
      /\ artifact'.heap = heap /\ artifact'.past = past /\ artifact'.slack = slack
      /\ heap' = heap /\ recording' = FALSE /\ at' = "out"
  BY DEF ExitCapture
<1>2. recording /\ RecordingTraced
  BY DEF ExitCapture, HistoryInv
<1>3. Evicted(trace) \in Nat /\ Evicted(trace) <= Len(trace)
  BY <1>0 DEF Evicted, Overwritten
<1>4. Kept(trace) \in Seq(Events) /\ Len(Kept(trace)) = Len(trace) - Evicted(trace)
  <2>. HIDE DEF Events
  <2>. DEFINE m == Evicted(trace) + 1
              n == Len(trace)
  <2>1. m \in Int /\ n \in Int /\ m <= n + 1 /\ m >= 1
    BY <1>0, <1>3
  <2>2. \A i \in m .. n : trace[i] \in Events
    BY <1>0, <2>1
  <2>3. SubSeq(trace, m, n) \in Seq(Events) /\ Len(SubSeq(trace, m, n)) = IF m <= n THEN n - m + 1 ELSE 0
    <3>. HIDE DEF m, n
    <3>. QED  BY <2>1, <2>2, SubSeqProperties
  <2>. QED  BY <1>0, <1>3, <2>1, <2>3 DEF Kept
<1>5. ASSUME Evicted(trace) > 0
      PROVE  Len(Kept(trace)) = MaxEntries
  BY <1>0, <1>4, <1>5 DEF Evicted, Overwritten
<1>6. ASSUME Evicted(trace) = 0
      PROVE  /\ Kept(trace) = trace
             /\ Traced(trace, heap, past) /\ BridgesTraced(trace, heap, bridges, slack)
             /\ SlotsTraced(slots, windows, slack) /\ EndsTraced(trace, windows)
  <2>1. Kept(trace) = trace
    BY <1>0, <1>6, SubSeqFull DEF Kept
  <2>2. ASSUME NEW i \in DOMAIN windows
        PROVE  windows[i].end <= Len(trace)
    <3>1. WasRead(windows[i].end) /\ windows[i].end \in Int
      BY RecordTypes DEF IInv, ReadsInOrder
    <3>. QED  BY <1>0, <3>1 DEF WasRead
  <2>. QED  BY <1>2, <1>6, <2>1, <2>2 DEF RecordingTraced, EndsTraced
<1>7. ArtifactTraced'
  BY <1>0, <1>1, <1>3, <1>4, <1>5, <1>6 DEF ArtifactTraced
<1>. QED  BY <1>1, <1>7 DEF HistoryInv, RecordingTraced, Disjoint

(* A new window: its slots were born before it.                            *)
LEMMA EnterShapeHistory ==
    ASSUME IInv, HistoryInv, NEW v \in Values, NEW ptrs \in SUBSET Addrs, NEW ord \in Ordinals,
           EnterShape(v, ptrs, ord)
    PROVE  HistoryInv'
<1>. DEFINE key == WindowKey(runner, AxisOf[runner], v)
            new(p) == [ptr |-> p, key |-> key, born |-> (CHOOSE b \in heap : p \in BlockRange(b)).born]
<1>0. heap \in SUBSET Blocks /\ recording /\ RecordingTraced /\ TypeOK
  BY StateTyped DEF IInv, HistoryInv, EnterShape
<1>1. /\ at = "capture" /\ at' = "shape" /\ TraceLen(ord)
      /\ \A i \in DOMAIN windows : windows[i].key # key
      /\ ptrs \subseteq UNION {BlockRange(b) : b \in Present} /\ Present \subseteq heap
      /\ shape'.key = key /\ shape'.begin = ord
      /\ UNCHANGED <<recording, heap, past, windows, bridges, artifact>>
  BY DEF EnterShape, NotYet, Present
<1>2. \A s \in slots' : s \in slots \/ \E p \in ptrs : s = new(p)
  BY DEF EnterShape, WithSlots
<1>3. \A p : new(p).key = key /\ new(p).born = (CHOOSE b \in heap : p \in BlockRange(b)).born
  OBVIOUS
<1>. HIDE DEF key, new
<1>4. /\ trace' = trace /\ trace \in Seq(Events) /\ Traced(trace', heap, past)
      /\ BridgesTraced(trace', heap, bridges, slack') /\ SlotsTraced(slots, windows, slack')
      /\ ord >= 0 => slack' # None /\ ord + slack' = Len(trace)
  BY <1>0, <1>1, TraceLenTraced, StateTyped
<1>5. \A s \in slots : \E i \in DOMAIN windows : windows[i].key = s.key
  BY <1>0, <1>1 DEF RecordingTraced, SlotsKeyed, Begun
<1>6. \A s \in slots : s.key # key
  BY <1>1, <1>5
<1>7. SlotsKeyed'
  BY <1>1, <1>2, <1>3, <1>5 DEF SlotsKeyed, Begun
<1>8. SlotsTraced(slots', windows', slack')
  <2>1. \A p \in ptrs : \A i \in DOMAIN windows : BornBefore(new(p), windows[i], slack')
    BY <1>1, <1>3 DEF BornBefore
  <2>. QED  BY <1>1, <1>2, <1>4, <2>1 DEF SlotsTraced
<1>9. ASSUME NEW s \in slots'
      PROVE  BornBefore(s, shape', slack')
  <2>1. CASE s \in slots
    BY <1>1, <1>6, <2>1 DEF BornBefore
  <2>2. ASSUME NEW p \in ptrs, s = new(p), ord >= 0
        PROVE  slack' # None /\ s.born < ord + slack'
    <3>1. (CHOOSE b \in heap : p \in BlockRange(b)) \in heap
      BY <1>1
    <3>2. PICK c \in heap : s.born = c.born
      BY <1>3, <2>2, <3>1
    <3>3. c.born \in Int /\ (c.born = Old \/ c.born < Len(trace'))
      BY <1>0, <1>4, FieldsTyped DEF Traced, BirthsTraced
    <3>4. Len(trace) \in Nat
      BY <1>4
    <3>. QED  BY <1>4, <2>2, <3>2, <3>3, <3>4 DEF Old
  <2>. QED  BY <1>1, <1>2, <2>1, <2>2 DEF BornBefore
<1>10. RecordingTraced'
  BY <1>1, <1>4, <1>7, <1>8, <1>9 DEF RecordingTraced
<1>11. ArtifactTraced'
  BY <1>1, ArtifactStays DEF HistoryInv
<1>12. Disjoint(heap)' /\ recording'
  BY <1>0, <1>1 DEF HistoryInv
<1>. QED  BY <1>1, <1>10, <1>11, <1>12 DEF HistoryInv

(* The window that closes has the key and the beginning of the shape.      *)
LEMMA ExitShapeHistory ==
    ASSUME IInv, HistoryInv, NEW ord \in Ordinals, ExitShape(ord)
    PROVE  HistoryInv'
<1>. DEFINE w == [key |-> shape.key, begin |-> shape.begin, end |-> ord, tokens |-> shape.tokens]
<1>0. heap \in SUBSET Blocks /\ recording /\ RecordingTraced /\ TypeOK /\ windows \in Seq(WindowRecords)
  BY StateTyped DEF IInv, HistoryInv, ExitShape
<1>1. /\ Begun /\ at' = "capture" /\ TraceLen(ord)
      /\ windows' = Append(windows, w)
      /\ UNCHANGED <<recording, heap, past, slots, bridges, artifact>>
  BY DEF ExitShape, Begun
<1>2. w.key = shape.key /\ w.begin = shape.begin
  OBVIOUS
<1>3. w \in WindowRecords
  BY <1>0, <1>1 DEF TypeOK, Begun, WindowRecords
<1>. HIDE DEF w
<1>4. /\ Len(windows) \in Nat /\ DOMAIN windows = 1 .. Len(windows)
      /\ DOMAIN windows' = 1 .. Len(windows) + 1
      /\ \A i \in DOMAIN windows : windows'[i] = windows[i]
      /\ windows'[Len(windows) + 1] = w
  <2>1. /\ windows' \in Seq(WindowRecords) /\ Len(windows') = Len(windows) + 1
        /\ \A i \in 1 .. Len(windows) : windows'[i] = windows[i]
        /\ windows'[Len(windows) + 1] = w
    BY <1>0, <1>1, <1>3, AppendProperties
  <2>. QED  BY <1>0, <2>1
<1>5. \A i \in DOMAIN windows' : i \in DOMAIN windows \/ i = Len(windows) + 1
  BY <1>4
<1>6. /\ Traced(trace', heap, past)
      /\ BridgesTraced(trace', heap, bridges, slack') /\ SlotsTraced(slots, windows, slack')
      /\ \A s \in slots : BornBefore(s, shape, slack')
  BY <1>0, <1>1, TraceLenTraced
<1>7. SlotsKeyed'
  <2>1. \A i \in DOMAIN windows : i \in DOMAIN windows'
    BY <1>4
  <2>2. Len(windows) + 1 \in DOMAIN windows'
    BY <1>4
  <2>. QED  BY <1>0, <1>1, <1>2, <1>4, <2>1, <2>2 DEF RecordingTraced, SlotsKeyed
<1>8. SlotsTraced(slots', windows', slack')
  <2>1. \A s : BornBefore(s, shape, slack') => BornBefore(s, w, slack')
    BY <1>2 DEF BornBefore
  <2>. QED  BY <1>1, <1>4, <1>5, <1>6, <2>1 DEF SlotsTraced
<1>9. RecordingTraced'
  BY <1>1, <1>6, <1>7, <1>8 DEF RecordingTraced, Begun
<1>10. ArtifactTraced'
  BY <1>1, ArtifactStays DEF HistoryInv
<1>11. Disjoint(heap)' /\ recording'
  BY <1>0, <1>1 DEF HistoryInv
<1>. QED  BY <1>1, <1>9, <1>10, <1>11 DEF HistoryInv

(* A read inside a shape that records neither a window nor a slot.         *)
LEMMA ReadHistory ==
    ASSUME IInv, HistoryInv, NEW ord \in Ordinals, TraceLen(ord), Begun, Begun',
           UNCHANGED <<recording, heap, past, windows, slots, shape, artifact>>,
           /\ BridgesTraced(trace', heap, bridges, slack')
           /\ ord >= 0 => slack' # None /\ ord + slack' = Len(trace)
           => BridgesTraced(trace', heap, bridges', slack')
    PROVE  HistoryInv'
<1>0. recording /\ RecordingTraced /\ TypeOK
  BY DEF IInv, HistoryInv, Begun
<1>1. /\ Traced(trace', heap, past)
      /\ BridgesTraced(trace', heap, bridges, slack') /\ SlotsTraced(slots, windows, slack')
      /\ \A s \in slots : BornBefore(s, shape, slack')
      /\ ord >= 0 => slack' # None /\ ord + slack' = Len(trace)
  BY <1>0, TraceLenTraced
<1>2. SlotsKeyed'
  BY <1>0 DEF RecordingTraced, SlotsKeyed
<1>4. RecordingTraced'
  BY <1>1, <1>2 DEF RecordingTraced
<1>5. ArtifactTraced'
  BY ArtifactStays DEF HistoryInv
<1>6. Disjoint(heap)' /\ recording' /\ at' # "out"
  BY <1>0 DEF HistoryInv, Begun
<1>. QED  BY <1>4, <1>5, <1>6 DEF HistoryInv

(* A bridge names the block its address lies in now.                       *)
LEMMA BridgeHistory ==
    ASSUME IInv, HistoryInv, NEW b \in heap, NEW ord \in Ordinals, NEW ptr \in BlockRange(b),
           Bridge(b, ptr, ord)
    PROVE  HistoryInv'
<1>. DEFINE rec == [ptr |-> ptr, ord |-> ord, tokens |-> shape.tokens, born |-> b.born]
<1>0. /\ heap \in SUBSET Blocks /\ past \in SUBSET PastBlocks /\ recording /\ RecordingTraced /\ TypeOK
      /\ bridges \in Seq(BridgeRecords)
  BY StateTyped DEF IInv, HistoryInv, Bridge
<1>1. /\ TraceLen(ord) /\ Begun /\ Begun'
      /\ bridges' = Append(bridges, rec)
      /\ UNCHANGED <<recording, heap, past, windows, slots, shape, artifact>>
  BY DEF Bridge, Begun, program
<1>2. trace' = trace /\ trace \in Seq(Events) /\ Traced(trace', heap, past)
  BY <1>0, <1>1, TraceLenTraced, StateTyped
<1>3. rec \in BridgeRecords
  <2>1. b \in Blocks /\ shape.tokens \in Tokens
    BY <1>0, <1>1 DEF TypeOK, Begun
  <2>2. ptr \in Addrs /\ b.born \in Old .. MaxTrace
    BY <2>1 DEF Blocks
  <2>. QED  BY <2>1, <2>2 DEF BridgeRecords
<1>4. rec.ptr = ptr /\ rec.ord = ord /\ rec.born = b.born
  OBVIOUS
<1>. HIDE DEF rec
<1>5. \A i \in DOMAIN bridges' : (i \in DOMAIN bridges /\ bridges'[i] = bridges[i]) \/ bridges'[i] = rec
  <2>1. /\ bridges' \in Seq(BridgeRecords) /\ Len(bridges') = Len(bridges) + 1
        /\ \A i \in 1 .. Len(bridges) : bridges'[i] = bridges[i]
        /\ bridges'[Len(bridges) + 1] = rec
    BY <1>0, <1>1, <1>3, AppendProperties
  <2>2. DOMAIN bridges' = 1 .. Len(bridges) + 1 /\ DOMAIN bridges = 1 .. Len(bridges) /\ Len(bridges) \in Nat
    BY <1>0, <2>1
  <2>. QED  BY <2>1, <2>2
<1>6. ASSUME BridgesTraced(trace', heap, bridges, slack'),
             ord >= 0 => slack' # None /\ ord + slack' = Len(trace)
      PROVE  BridgesTraced(trace', heap, bridges', slack')
  <2>1. rec.ord >= 0 => slack' # None /\ BridgeTraced(trace', heap, rec, slack')
    BY <1>0, <1>2, <1>4, <1>6, BridgeTaken
  <2>. QED  BY <1>5, <1>6, <2>1 DEF BridgesTraced
<1>. QED  BY <1>1, <1>6, ReadHistory

(* A segment records neither a window nor a slot.                          *)
LEMMA SegmentHistory ==
    ASSUME IInv, HistoryInv, NEW ord \in Ordinals, BeginSegment(ord) \/ EndSegment(ord)
    PROVE  HistoryInv'
<1>1. /\ TraceLen(ord) /\ Begun /\ Begun'
      /\ UNCHANGED <<recording, heap, past, windows, slots, shape, artifact, bridges>>
  BY DEF BeginSegment, EndSegment, Begun
<1>. QED  BY <1>1, ReadHistory

(* Before the first capture nothing was recorded and nothing dumped.       *)
LEMMA InitHistory == Init => HistoryInv
BY DEF Init, HistoryInv, Disjoint, RecordingTraced, ArtifactTraced, Dumped

(* Every step keeps the history true.                                      *)
LEMMA NextHistory == IInv /\ IInv' /\ HistoryInv /\ [Next]_vars => HistoryInv'
<1>. SUFFICES ASSUME IInv, IInv', HistoryInv, [Next]_vars
              PROVE  HistoryInv'
  OBVIOUS
<1>t. TypeOK'
  BY DEF IInv
<1>1. CASE \E a \in Addrs, z \in Sizes : Alloc(a, z)
  BY <1>t, <1>1, AllocHistory
<1>2. CASE \E b \in heap : Free(b)
  BY <1>t, <1>2, FreeHistory
<1>3. CASE \E r \in Runners : EnterCapture(r)
  BY <1>3, EnterCaptureHistory
<1>4. CASE \E v \in Values, ptrs \in SUBSET Addrs, ord \in Ordinals : EnterShape(v, ptrs, ord)
  BY <1>4, EnterShapeHistory
<1>5. CASE \E ord \in Ordinals : ExitShape(ord)
  BY <1>5, ExitShapeHistory
<1>6. CASE \E ord \in Ordinals : BeginSegment(ord)
  BY <1>6, SegmentHistory
<1>7. CASE \E ord \in Ordinals : EndSegment(ord)
  BY <1>7, SegmentHistory
<1>8. CASE \E b \in heap, ord \in Ordinals : \E ptr \in BlockRange(b) : Bridge(b, ptr, ord)
  BY <1>8, BridgeHistory
<1>9. CASE ExitCapture
  BY <1>9, ExitCaptureHistory
<1>10. CASE UNCHANGED vars
  BY <1>10 DEF vars, allocator, counter, records, program, HistoryInv, RecordingTraced, SlotsKeyed, Begun,
               ArtifactTraced, Dumped
<1>11. CASE Snapshot
  BY <1>11, SnapshotHistory
<1>. QED  BY <1>1, <1>2, <1>3, <1>4, <1>5, <1>6, <1>7, <1>8, <1>9, <1>10, <1>11 DEF Next

(* In every state the trace tells the history of the blocks of the         *)
(* recording, and the records agree with it.                               *)
THEOREM HistoryInvariance == Spec => []HistoryInv
<1>1. IInv /\ IInv' /\ HistoryInv /\ [Next]_vars => HistoryInv'
  BY NextHistory
<1>. QED  BY <1>1, InitHistory, Invariance, PTL DEF Spec

-----------------------------------------------------------------------------
(* A trace that lost events is as long as the ring, which is what analyze   *)
(* takes for truncated (analyzer.py, the history-ring check).              *)
THEOREM OverflowReported == Spec => []OverflowIsReported
<1>1. HistoryInv => OverflowIsReported
  <2>1. ASSUME HistoryInv, Dumped, artifact.evicted > 0
        PROVE  Truncated(artifact.events, MaxEntries)
    BY <2>1 DEF HistoryInv, ArtifactTraced, Truncated
  <2>. QED  BY <2>1 DEF OverflowIsReported
<1>. QED  BY <1>1, HistoryInvariance, PTL

(* In a whole trace _extract_allocations finds the blocks of the recording, *)
(* each with the event that freed it, and no others.                       *)
THEOREM LifetimesAreRebuilt == Spec => []LifetimesRebuilt
<1>1. HistoryInv => LifetimesRebuilt
  <2>1. ASSUME HistoryInv, Whole
        PROVE  Allocs = artifact.past \cup
                        {Gone(b, Len(artifact.events)) : b \in {h \in artifact.heap : h.born # Old}}
    BY <2>1, ExtractIsHistory DEF HistoryInv, ArtifactTraced, Whole, Allocs
  <2>. QED  BY <2>1 DEF LifetimesRebuilt, Gone
<1>. QED  BY <1>1, HistoryInvariance, PTL

(* _apply_bridges attributes a bridge to the block it was taken of or, if   *)
(* the next event freed that block or there is none, to no block; only one  *)
(* of a block younger than the slack of the ordinals can go astray.        *)
THEOREM BridgesAreAttributed == Spec => []BridgesAttributed
<1>1. HistoryInv => BridgesAttributed
  <2>1. SUFFICES ASSUME HistoryInv, Whole, NEW b \in ToSet(artifact.bridges), b.ord >= 0
                 PROVE  \/ BridgeMatch(Allocs, b) = b.born
                        \/ /\ BridgeMatch(Allocs, b) = NoMatch
                           /\ \E a \in Allocs : a.alloc = b.born /\ a.free = b.ord
                        \/ BornWithin(b.born, b.ord)
    BY DEF BridgesAttributed
  <2>2. /\ artifact.events \in Seq(Events) /\ artifact.heap \in SUBSET Blocks /\ artifact.past \in SUBSET PastBlocks
        /\ artifact.bridges \in Seq(BridgeRecords)
        /\ Traced(artifact.events, artifact.heap, artifact.past)
        /\ BridgesTraced(artifact.events, artifact.heap, artifact.bridges, artifact.slack)
        /\ artifact.slack \in Nat \cup {None}
    BY <2>1 DEF HistoryInv, ArtifactTraced, Whole
  <2>3. PICK i \in DOMAIN artifact.bridges : b = artifact.bridges[i]
    BY <2>1 DEF ToSet
  <2>4. b \in BridgeRecords /\ artifact.slack \in Nat /\ BridgeTraced(artifact.events, artifact.heap, b, artifact.slack)
    BY <2>1, <2>2, <2>3 DEF BridgesTraced
  <2>. QED  BY <2>1, <2>2, <2>4, BridgeMatched DEF Allocs, BornWithin
<1>. QED  BY <1>1, HistoryInvariance, PTL

(* _apply_graph_slots puts the name of a buffer that stays allocated on     *)
(* that buffer, however its address was used before, unless it is younger  *)
(* than the slack at the beginning of its window.                          *)
THEOREM StaticSlotsAreLabelled == Spec => []StaticSlotsLabelled
<1>1. HistoryInv => StaticSlotsLabelled
  <2>1. SUFFICES ASSUME HistoryInv, Whole, NEW s \in artifact.slots, NEW w \in Windows,
                        s.key = w.key, Usable(w),
                        NEW h \in artifact.heap, h.born = s.born, s.ptr \in BlockRange(h)
                 PROVE  \/ SlotMatch(Allocs, Windows, s) = s.born
                        \/ w.begin >= w.end /\ SlotMatch(Allocs, Windows, s) = NoMatch
                        \/ \E v \in Windows : v.key = s.key /\ Usable(v) /\ BornWithin(s.born, v.begin)
    BY DEF StaticSlotsLabelled
  <2>2. /\ artifact.events \in Seq(Events) /\ artifact.heap \in SUBSET Blocks /\ artifact.past \in SUBSET PastBlocks
        /\ artifact.windows \in Seq(WindowRecords) /\ artifact.slots \in SUBSET SlotRecords
        /\ Traced(artifact.events, artifact.heap, artifact.past)
        /\ SlotsTraced(artifact.slots, artifact.windows, artifact.slack)
        /\ artifact.slack \in Nat \cup {None}
        /\ EndsTraced(artifact.events, artifact.windows)
    BY <2>1 DEF HistoryInv, ArtifactTraced, Whole
  <2>3. \A v \in Windows : \E i \in DOMAIN artifact.windows : v = artifact.windows[i]
    BY DEF Windows, ToSet
  <2>4. \A v \in Windows : BornBefore(s, v, artifact.slack) /\ v.end <= Len(artifact.events)
    BY <2>1, <2>2, <2>3 DEF SlotsTraced, EndsTraced
  <2>5. Windows \in SUBSET WindowRecords /\ s \in SlotRecords
    BY <2>2, <2>3
  <2>. DEFINE tr == artifact.events
              hp == artifact.heap
              ps == artifact.past
              ws == Windows
              e  == artifact.slack
  <2>6. /\ tr \in Seq(Events) /\ hp \in SUBSET Blocks /\ ps \in SUBSET PastBlocks /\ e \in Nat \cup {None}
        /\ Traced(tr, hp, ps)
        /\ ws \in SUBSET WindowRecords /\ \A v \in ws : BornBefore(s, v, e) /\ v.end <= Len(tr)
        /\ w \in ws /\ s.key = w.key /\ Usable(w) /\ h \in hp /\ h.born = s.born /\ s.ptr \in BlockRange(h)
    BY <2>1, <2>2, <2>4, <2>5
  <2>. HIDE DEF tr, hp, ps, ws, e
  <2>7. \/ SlotMatch(Extract(tr), ws, s) = s.born
        \/ w.begin >= w.end /\ SlotMatch(Extract(tr), ws, s) = NoMatch
        \/ \E v \in ws : v.key = s.key /\ Usable(v) /\ v.begin < s.born /\ s.born < v.begin + e
    BY <2>5, <2>6, SlotMatched
  <2>. QED  BY <2>7 DEF Allocs, BornWithin, tr, ws, e
<1>. QED  BY <1>1, HistoryInvariance, PTL
=============================================================================
