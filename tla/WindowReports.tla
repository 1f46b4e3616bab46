---------------------------- MODULE WindowReports ---------------------------
(***************************************************************************)
(* The per-window reports of analyzer.py (_build_reports, _window_metrics, *)
(* _segment_fill_at_peak): each window of a sidecar is validated, put under *)
(* its runner or among the omitted ones, and measured: how many bytes were *)
(* live at once in it, and how the graph pool's segments were filled then. *)
(*                                                                         *)
(* In a window None stands for a missing ordinal and -1 for a count the     *)
(* shim could not take.  Allocations are those TraceAnalysis extracts, a    *)
(* finding is [of, det].  Labels, flags and the cap on the number of       *)
(* allocations listed are left out.                                        *)
(***************************************************************************)
EXTENDS TraceAnalysis, FiniteSets, FiniteSetsExt

CONSTANTS
    Inputs,        \* what is analysed: [allocs, captures, segments, findings], sets
                   \* of allocations and of findings, lists of windows
    Detectors,     \* the detectors of findings
    GraphSegments, \* the graph pool's segments, [addr, size]
    End,           \* number of events; the free of what is never freed
    None           \* Python's None

Within(a, seg) == seg.addr <= a.addr /\ a.addr < seg.addr + seg.size

(* A window of a sidecar.                                                  *)
Windows == [runner : STRING, key : STRING, begin : Int \cup {None}, end : Int \cup {None}]

(* Why a window is left out.                                               *)
Reasons == {"missing", "negative", "inverted", "unknown runner"}

ASSUME NoneAssumption == None \notin Int \cup Reasons
ASSUME SegmentsAssumption ==
    /\ IsFiniteSet(GraphSegments) /\ GraphSegments \subseteq [addr : Nat, size : Nat \ {0}]
    /\ \A s, t \in GraphSegments :
          s # t => s.addr + s.size <= t.addr \/ t.addr + t.size <= s.addr
(* An event begins or ends one lifetime, and what is found is of the graph  *)
(* pool.                                                                   *)
ASSUME InputsAssumption ==
    /\ End \in Nat
    /\ \A i \in Inputs :
          /\ i.captures \in Seq(Windows) /\ i.segments \in Seq(Windows)
          /\ IsFiniteSet(i.allocs)
          /\ i.allocs \subseteq [addr : Nat, size : Nat \ {0}, alloc : Nat, free : Nat]
          /\ \A a \in i.allocs : a.alloc < a.free /\ a.free <= End
          /\ \A a, b \in i.allocs : a # b => {a.alloc, a.free} \cap {b.alloc, b.free} \subseteq {End}
          /\ IsFiniteSet(i.findings)
          /\ \A f \in i.findings : /\ f.of \in i.allocs /\ f.det \in Detectors
                                   /\ \E s \in GraphSegments : Within(f.of, s)

(* _ALL_RUNNERS, and the tags the shim gives the runners (_RUNNER_TAGS).   *)
StandardLike == {"standard", "eagle_draft", "eagle_draft_extend", "eagle_ml_draft_extend"}
AllRunners   == StandardLike \cup {"piecewise", "breakable"}
RunnerTags   == {"decode", "prefill", "eagle_draft", "eagle_draft_extend",
                 "eagle_ml_draft_extend", "frozen_kv_mtp"}

VARIABLES
    allocs, captures, segments, findings,  \* the input
    at,        \* windows looked at, of captures and then of segments
    reports,   \* runner -> list of entries
    omitted    \* list of windows with the reason

input == <<allocs, captures, segments, findings>>
vars  == <<input, at, reports, omitted>>

Init ==
    /\ \E i \in Inputs :
          /\ allocs = i.allocs /\ findings = i.findings
          /\ captures = i.captures /\ segments = i.segments
    /\ at = 0
    /\ reports = [r \in AllRunners |-> <<>>] /\ omitted = <<>>

-----------------------------------------------------------------------------
(* _window_metrics                                                         *)

Graph == {a \in allocs : \E s \in GraphSegments : Within(a, s)}

(* The part of a lifetime that lies in a window.                           *)
Unclipped(a, w) == [from |-> a.alloc, to |-> a.free]
Clipped(a, w) ==
    [from |-> Max({a.alloc, w.begin}), to |-> Min({a.free, w.end})]

(* The ends of the clipped lifetimes, starts before ends of the same        *)
(* ordinal, larger sizes first, and then as they were allocated.           *)
Begins(a, w) == [ord |-> Clipped(a, w).from, by |-> a.size, of |-> a]
Ends(a, w)   == [ord |-> Clipped(a, w).to, by |-> -a.size, of |-> a]

Deltas(as, w) == {Begins(a, w) : a \in as} \cup {Ends(a, w) : a \in as}

Sooner(d, e) ==
    \/ d.ord < e.ord
    \/ d.ord = e.ord /\ d.by > e.by
    \/ d.ord = e.ord /\ d.by = e.by /\ d.of.alloc < e.of.alloc
InOrder(deltas) == SortedBy(deltas, {p \in deltas \X deltas : Sooner(p[1], p[2])})

(* Sweep over them: the peak and when it is first reached.                 *)
Add(s, d) ==
    LET now == s.live + d.by
    IN  IF now > s.peak THEN [live |-> now, peak |-> now, ord |-> d.ord]
        ELSE [live |-> now, peak |-> s.peak, ord |-> s.ord]
Sweep(as, w) == FoldLeft(Add, [live |-> 0, peak |-> 0, ord |-> 0], InOrder(Deltas(as, w)))

(* _segment_fill_at_peak: a cursor over the live ranges, in address order. *)
(* A segment of the final layout may end before an allocation of an        *)
(* earlier one that began in it does.                                      *)
Lower(a, b) ==
    \/ a.addr < b.addr
    \/ a.addr = b.addr /\ a.size < b.size
    \/ a.addr = b.addr /\ a.size = b.size /\ a.alloc < b.alloc
ByAddress(live) == SortedBy(live, {p \in live \X live : Lower(p[1], p[2])})

Pass1(s, a, seg) ==
    LET hi   == Min({a.addr + a.size, seg.addr + seg.size})
        hole == a.addr - s.cursor
    IN  [cursor  |-> Max({s.cursor, hi}),
         covered |-> s.covered + Max({0, hi - Max({s.cursor, a.addr})}),
         largest |-> Max({s.largest, hole})]
FillOf(live, seg) ==
    LET step(s, a) == Pass1(s, a, seg)
    IN  FoldLeft(step, [cursor |-> seg.addr, covered |-> 0, largest |-> 0], ByAddress(live))

FillToLastBlock(live, seg) ==
    LET f == FillOf(live, seg)
    IN  [active |-> f.covered, free |-> seg.size - f.covered, largest |-> f.largest]

SegmentFill(live, seg) ==
    LET f == FillOf(live, seg)
    IN  [active |-> f.covered, free |-> seg.size - f.covered,
         largest |-> Max({f.largest, seg.addr + seg.size - f.cursor})]

LiveIn(a, w, ord) == Clipped(a, w).from <= ord /\ ord < Clipped(a, w).to

WindowMetrics(w) ==
    LET inwin == {a \in Graph : Overlaps(a, w)}
        peak  == Sweep(inwin, w)
    IN  [peak   |-> peak.peak,
         ord    |-> peak.ord,
         found  |-> [d \in Detectors |-> Cardinality({f \in findings : f.det = d /\ f.of \in inwin})],
         layout |-> [s \in GraphSegments |->
                       SegmentFill({a \in inwin : Within(a, s) /\ LiveIn(a, w, peak.ord)}, s)]]

-----------------------------------------------------------------------------
(* _build_reports                                                          *)

(* _range: why the ordinals of a window cannot be used, None if they can.  *)
Malformed(w) ==
    IF w.begin = None \/ w.end = None THEN "missing"
    ELSE IF w.begin < 0 \/ w.end < 0 THEN "negative"
    ELSE IF w.begin > w.end THEN "inverted" ELSE None

Entry(w) == [window |-> w, metrics |-> WindowMetrics(w)]

Omit(w, reason) ==
    /\ omitted' = Append(omitted, [window |-> w, reason |-> reason])
    /\ UNCHANGED reports

Report(w, runner) ==
    /\ reports' = [reports EXCEPT ![runner] = Append(@, Entry(w))]
    /\ UNCHANGED omitted

(* A valid breakable capture is reported through its segments.             *)
SkipBreakable(w) == w.runner = "breakable"
Superseded(w) == w.runner = "breakable" /\ Malformed(w) = None

LookAtCapture ==
    /\ at < Len(captures)
    /\ at' = at + 1
    /\ LET w == captures[at + 1] IN
       IF Superseded(w) THEN UNCHANGED <<reports, omitted>>
       ELSE IF Malformed(w) # None THEN Omit(w, Malformed(w))
       ELSE IF w.runner \notin AllRunners THEN Omit(w, "unknown runner")
       ELSE Report(w, w.runner)
    /\ UNCHANGED input

LookAtSegment ==
    /\ at >= Len(captures) /\ at < Len(captures) + Len(segments)
    /\ at' = at + 1
    /\ LET w == segments[at - Len(captures) + 1] IN
       IF Malformed(w) # None THEN Omit(w, Malformed(w)) ELSE Report(w, "breakable")
    /\ UNCHANGED input

Next == LookAtCapture \/ LookAtSegment

Spec == Init /\ [][Next]_vars

-----------------------------------------------------------------------------
Done    == at = Len(captures) + Len(segments)
Entries == UNION {ToSet(reports[r]) : r \in AllRunners}

Given == captures \o segments
UsableWindow(w) == w.begin # None /\ w.end # None /\ 0 <= w.begin /\ w.begin <= w.end

(* The places a window has among those looked at, without a usable          *)
(* breakable capture's, in the reports, and among those omitted.           *)
Looked(w) ==
    {i \in 1 .. at : /\ Given[i] = w
                     /\ ~(i <= Len(captures) /\ w.runner = "breakable" /\ UsableWindow(w))}
Reported(w) ==
    UNION {{<<r, i>> : i \in {j \in DOMAIN reports[r] : reports[r][j].window = w}} : r \in AllRunners}
LeftOut(w) == {i \in DOMAIN omitted : omitted[i].window = w}

(* "Malformed windows - including breakable capture windows - are never     *)
(* silently dropped" (analyzer.py, _build_reports): a window is reported or *)
(* omitted as often as it was looked at, whatever its key, reported only if *)
(* its ordinals are usable, and omitted only if they are not or no runner  *)
(* of the reports recorded it.                                             *)
NeverSilentlyDropped ==
    \A w \in ToSet(Given) :
        /\ Cardinality(Looked(w)) = Cardinality(Reported(w)) + Cardinality(LeftOut(w))
        /\ Reported(w) # {} => UsableWindow(w)
        /\ LeftOut(w) # {} /\ UsableWindow(w) => w.runner \notin AllRunners

(* Bytes of the graph pool live at an ordinal, from the lifetimes alone.   *)
LiveBytes(ord) == BytesIn({a \in Graph : a.alloc <= ord /\ ord < a.free})

(* The sweep finds the bytes simultaneously live during a window, and an    *)
(* ordinal inside it at which that many are; a window in which nothing was *)
(* recorded has the bytes that live across it.                             *)
PeakIsReached ==
    \A e \in Entries :
        LET w == e.window IN
        /\ w.begin < w.end =>
             /\ e.metrics.peak = Max({LiveBytes(o) : o \in w.begin .. w.end - 1})
             /\ e.metrics.peak > 0 =>
                  /\ e.metrics.ord \in w.begin .. w.end - 1
                  /\ LiveBytes(e.metrics.ord) = e.metrics.peak
        /\ w.begin = w.end /\ w.begin > 0 =>
             e.metrics.peak = BytesIn({a \in Graph : a.alloc <= w.begin - 1 /\ w.begin < a.free})

Covered(seg, ord) ==
    {x \in seg.addr .. seg.addr + seg.size - 1 :
        \E a \in Graph : Within(a, seg) /\ a.alloc <= ord /\ ord < a.free /\ Holds(a, x)}

Runs(free) == {p \in free \X free : p[1] <= p[2] /\ p[1] .. p[2] \subseteq free}

(* The layout shows each segment as it was at the peak, address by address: *)
(* what is covered by the allocations that begin in it, what is not, and   *)
(* the longest stretch that is not.                                        *)
LayoutAtPeakIsExact ==
    \A e \in Entries, s \in GraphSegments :
        e.metrics.peak > 0 /\ e.window.begin < e.window.end =>
            LET fill == e.metrics.layout[s]
                used == Covered(s, e.metrics.ord)
                free == (s.addr .. s.addr + s.size - 1) \ used
            IN  /\ fill.active = Cardinality(used)
                /\ fill.free = Cardinality(free)
                /\ fill.largest = Max({0} \cup {p[2] - p[1] + 1 : p \in Runs(free)})

-----------------------------------------------------------------------------
(* What the documentation says and the code does not do.                   *)

(* README.md:45: the artifacts are those of the runners standard, breakable *)
(* and piecewise, which analyzer.py:627 groups the windows by.  No window   *)
(* with a tag of the shim is left out as unknown.                          *)
ShimRunnersAreKnown ==
    \A i \in DOMAIN omitted :
        omitted[i].reason = "unknown runner" => omitted[i].window.runner \notin RunnerTags

=============================================================================
