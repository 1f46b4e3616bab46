------------------------------- MODULE Evidence ------------------------------
(***************************************************************************)
(* How analyze (analyzer.py) decides which allocations of a graph pool     *)
(* cannot be reused.  Evidence reaches one list of allocations in several  *)
(* passes that overwrite each other's marks: the heuristic flags, bridges  *)
(* with an event ordinal, bridges without one, windows spanned; then the   *)
(* findings are built from what the passes left, and at the end a summary  *)
(* is made of both.                                                        *)
(*                                                                         *)
(* The input is an analysed trace: allocations as TraceAnalysis extracts   *)
(* them, windows and bridges as the sidecar has them.  Impact, labels and  *)
(* thresholds copied into a finding are left out.                          *)
(***************************************************************************)
EXTENDS TraceAnalysis, FiniteSets, FiniteSetsExt

CONSTANTS
    Heaps,           \* allocation sets to analyse
    CaptureWindows,  \* sets of capture windows [key, begin, end]
    SegmentWindows,  \* sets of segment windows
    BridgeLists,     \* lists of bridges [ptr, ord]; ord is -1 if unknown
    PoolOf,          \* address -> pool, by the final layout of the segments
    Reserved,        \* graph pool -> bytes reserved for it
    End,             \* number of events; the free of what is never freed
    SizePctile,      \* --oversized-size-pctile, in percent
    PoolPercent,     \* --oversized-min-pool-fraction, in percent
    SpanPctile,      \* --long-lived-span-pctile, in percent
    LongLivedMin,    \* --long-lived-min-spanned-windows
    NonReusableMin,  \* --non-reusable-min-spanned-windows
    None             \* Python's None

(* Each event allocates or frees one block, and blocks alive together do    *)
(* not share an address (CaptureToAnalysis, LifetimesRebuilt).             *)
ASSUME HeapsAssumption ==
    \A heap \in Heaps :
        /\ heap \subseteq [addr : Nat, size : Nat \ {0}, alloc : Nat, free : 1 .. End]
        /\ \A a \in heap :
              /\ a.addr \in DOMAIN PoolOf /\ a.alloc < a.free
              /\ \A b \in heap \ {a} :
                    /\ a.alloc # b.alloc
                    /\ \/ a.free <= b.alloc \/ b.free <= a.alloc
                       \/ a.addr + a.size <= b.addr \/ b.addr + b.size <= a.addr

(* Windows of one kind are disjoint (CaptureToAnalysis, WindowsInOrder).    *)
ASSUME WindowsAssumption ==
    \A windows \in CaptureWindows \cup SegmentWindows :
        /\ IsFiniteSet(windows)
        /\ \A w \in windows :
              /\ w.begin \in Int /\ w.end \in Int
              /\ \A v \in windows \ {w} :
                    Usable(v) /\ Usable(w) /\ v.end >= 0 /\ w.end >= 0
                      => v.end <= w.begin \/ w.end <= v.begin

ASSUME BridgesAssumption == \A list \in BridgeLists : list \in Seq([ptr : Nat, ord : Nat \cup {-1}])
ASSUME PoolsAssumption   == DOMAIN Reserved \subseteq {PoolOf[a] : a \in DOMAIN PoolOf}

ASSUME ThresholdsAssumption ==
    /\ {SizePctile, PoolPercent, SpanPctile} \subseteq 0 .. 100
    /\ LongLivedMin \in Nat /\ NonReusableMin \in Nat

Confidences == {"precise", "approximate", "precise-window"}
Summaries   == {"none", "approximate", "non-reusable"}
Kinds       == {"pickle_size_only", "pickle_span_percentile", "window_overlap", "bridge_event_ord"}
ASSUME NoneAssumption == None \notin Confidences \cup Summaries \cup Kinds

VARIABLES
    allocs, capWindows, segWindows, bridges,  \* the input
    phase,     \* the next pass
    next,      \* the next bridge
    flags,     \* Allocation.flags: per allocation, the signatures S1 to S3
    conf,      \* Allocation.bridge_conf
    s3,        \* signatures["S3_non_reusable"] and ["S3_approx"]
    findings,
    cross      \* cross_graph_signature

input == <<allocs, capWindows, segWindows, bridges>>
vars  == <<input, phase, next, flags, conf, s3, findings, cross>>

Init ==
    /\ allocs \in Heaps /\ bridges \in BridgeLists
    /\ capWindows \in CaptureWindows /\ segWindows \in SegmentWindows
    /\ phase = "flag" /\ next = 1
    /\ flags = [a \in allocs |-> {}] /\ conf = [a \in allocs |-> None]
    /\ s3 = [found |-> FALSE, approx |-> TRUE]
    /\ findings = {} /\ cross = None

-----------------------------------------------------------------------------
Graph         == {a \in allocs : PoolOf[a.addr] \in DOMAIN Reserved}
NeverFreed(a) == a.free = End
Span          == [a \in allocs |-> a.free - a.alloc]
Size          == [a \in allocs |-> a.size]
HasOrd(b)     == b.ord >= 0

(* _pct, times 100, of f over a set of allocations: linear interpolation   *)
(* between the two values around the percentile.                           *)
Pct100(f, as, percent) ==
    IF as = {} THEN 0
    ELSE LET s == SetToSortSeq(as, LAMBDA a, b : f[a] < f[b])
             k == (Len(s) - 1) * percent
             i == k \div 100 + 1
         IN  100 * f[s[i]]
             + (f[s[IF i < Len(s) THEN i + 1 ELSE i]] - f[s[i]]) * (k % 100)

AtPct(f, a, as, percent)    == 100 * f[a] >= Pct100(f, as, percent)
AbovePct(f, a, as, percent) == 100 * f[a] > Pct100(f, as, percent)

(* Larger than the rest of the pool's allocations, or a large part of the  *)
(* pool it is in.                                                          *)
Oversized(a) ==
    \/ AtPct(Size, a, Graph, SizePctile) /\ AbovePct(Size, a, Graph, 50)
    \/ LET total == Reserved[PoolOf[a.addr]]
       IN  total > 0 /\ 100 * a.size >= PoolPercent * total

(* The windows of a set that a lifetime overlaps.                          *)
SpannedTouching(a, windows) ==
    {w \in windows : Usable(w) /\ a.alloc <= w.end /\ w.begin <= a.free}
Spanned(a, windows) == {w \in windows : Usable(w) /\ Overlaps(a, w)}

(* Windows spanned that make an allocation count as held across graphs.    *)
MarkFromOne == 1
MarkFrom    == 2

-----------------------------------------------------------------------------
(* _flag_signatures.  S3 is guessed only without bridges with ordinals and *)
(* without windows.                                                        *)
Flag ==
    LET freed  == {a \in Graph : ~NeverFreed(a)}
        guess  == /\ \A i \in DOMAIN bridges : ~HasOrd(bridges[i])
                  /\ \A w \in capWindows : ~Usable(w)
        marks(a) ==
            {f \in {"S1", "S2", "S3_approx"} :
                CASE f = "S1" -> a \in freed /\ AtPct(Span, a, freed, SpanPctile)
                  [] f = "S2" -> Oversized(a)
                  [] f = "S3_approx" -> guess /\ NeverFreed(a)}
    IN  /\ phase = "flag" /\ phase' = "ordinal"
        /\ flags' = [a \in allocs |-> IF a \in Graph THEN marks(a) ELSE {}]
        /\ s3' = [found |-> \E a \in Graph : "S3_approx" \in marks(a), approx |-> TRUE]
        /\ UNCHANGED <<input, next, conf, findings, cross>>

(* _flag_bridge                                                            *)
Claimed(fs) == (fs \ {"S3_approx"}) \cup {"S3"}

(* One bridge with an ordinal: the first one that hits an allocation marks *)
(* it.                                                                     *)
ApplyOrdinal ==
    /\ phase = "ordinal" /\ next \in DOMAIN bridges
    /\ next' = next + 1
    /\ LET b    == bridges[next]
           hits == IF HasOrd(b) THEN {a \in allocs : a.alloc = BridgeMatch(allocs, b)} ELSE {}
       IN  /\ flags' = [a \in allocs |-> IF a \in hits THEN Claimed(flags[a]) ELSE flags[a]]
           /\ conf'  = [a \in allocs |-> IF a \in hits THEN "precise" ELSE conf[a]]
    /\ UNCHANGED <<input, phase, s3, findings, cross>>

(* The allocation that stands for a bridge without ordinal: never freed    *)
(* before longest before largest before oldest.                            *)
Representative(ptr) ==
    LET held  == {a \in allocs : Holds(a, ptr)}
        kept  == {a \in held : NeverFreed(a)}
        first == IF kept # {} THEN kept ELSE held
        long  == {a \in first : \A b \in first : Span[a] >= Span[b]}
        large == {a \in long : \A b \in long : a.size >= b.size}
    IN  {a \in large : \A b \in large : a.alloc <= b.alloc}

MayOverwrite(a) == TRUE
MayMark(a)      == conf[a] # "precise"

ApplyPlain ==
    /\ phase = "ordinal" /\ next \notin DOMAIN bridges
    /\ phase' = "windows"
    /\ LET ptrs == {bridges[i].ptr : i \in {j \in DOMAIN bridges : ~HasOrd(bridges[j])}}
           hits == {a \in UNION {Representative(p) : p \in ptrs} : MayMark(a)}
       IN  /\ flags' = [a \in allocs |-> IF a \in hits THEN Claimed(flags[a]) ELSE flags[a]]
           /\ conf'  = [a \in allocs |-> IF a \in hits THEN "approximate" ELSE conf[a]]
    /\ UNCHANGED <<input, next, s3, findings, cross>>

(* Allocations that overlap several capture windows, then the evidence the *)
(* bars carry: S3 is approximate while one bar's is.                       *)
SpanWindows ==
    LET hits    == {a \in Graph : Cardinality(Spanned(a, capWindows)) >= MarkFrom}
        precise == {a \in Graph : "S3" \in flags'[a] /\ conf'[a] \in {"precise", "precise-window"}}
        approx  == {a \in Graph : "S3_approx" \in flags'[a] \/ conf'[a] = "approximate"}
    IN  /\ phase = "windows" /\ phase' = "findings"
        /\ flags' = [a \in allocs |-> IF a \in hits THEN Claimed(flags[a]) ELSE flags[a]]
        /\ conf'  = [a \in allocs |-> IF a \in hits /\ conf[a] = None
                                      THEN "precise-window" ELSE conf[a]]
        /\ s3' = [found |-> precise # {} \/ approx # {}, approx |-> approx # {}]
        /\ UNCHANGED <<input, next, findings, cross>>

-----------------------------------------------------------------------------
(* _build_findings                                                         *)

HasWindows == \E w \in capWindows \cup segWindows : Usable(w)

LongLived(a) ==
    LET freed == {b \in Graph : ~NeverFreed(b)} IN
    /\ ~NeverFreed(a)
    /\ AtPct(Span, a, freed, SpanPctile)
    /\ IF HasWindows
       THEN LongLivedMin <= Max({Cardinality(Spanned(a, capWindows)),
                                 Cardinality(Spanned(a, segWindows))})
       ELSE Cardinality(freed) >= 2 /\ AbovePct(Span, a, freed, 50)

(* The evidence that an allocation is not reusable, None if there is none. *)
NonReusable(a) ==
    IF \/ Cardinality(Spanned(a, capWindows)) >= NonReusableMin
       \/ Cardinality(Spanned(a, segWindows)) >= NonReusableMin
    THEN "window_overlap"
    ELSE IF conf[a] \in {"precise", "precise-window"} THEN "bridge_event_ord" ELSE None

BuildFindings ==
    /\ phase = "findings" /\ phase' = "summary"
    /\ findings' =
         {[det |-> "oversized", of |-> a, evidence |-> "pickle_size_only"] :
             a \in {g \in Graph : Oversized(g)}}
         \cup {[det |-> "long_lived", of |-> a,
                  evidence |-> IF HasWindows THEN "window_overlap" ELSE "pickle_span_percentile"] :
                 a \in {g \in Graph : LongLived(g)}}
         \cup {[det |-> "non_reusable", of |-> a, evidence |-> NonReusable(a)] :
                 a \in {g \in Graph : NonReusable(g) # None}}
    /\ UNCHANGED <<input, next, flags, conf, s3, cross>>

-----------------------------------------------------------------------------
(* The end of analyze: non-reusable findings decide the summary; the guess *)
(* is told only when there are none.                                       *)
SummaryByFlag == IF s3.approx THEN "approximate" ELSE IF s3.found THEN "non-reusable" ELSE "none"
Summary ==
    IF \E f \in findings : f.det = "non_reusable" THEN "non-reusable"
    ELSE IF s3.approx /\ \E a \in Graph : "S3_approx" \in flags[a] THEN "approximate"
    ELSE "none"

Summarise ==
    /\ phase = "summary" /\ phase' = "done"
    /\ cross' = Summary
    /\ s3' = [s3 EXCEPT !.found = @ \/ Summary = "non-reusable"]
    /\ UNCHANGED <<input, next, flags, conf, findings>>

Next == Flag \/ ApplyOrdinal \/ ApplyPlain \/ SpanWindows \/ BuildFindings \/ Summarise

Spec == Init /\ [][Next]_vars

-----------------------------------------------------------------------------
TypeOK ==
    /\ phase \in {"flag", "ordinal", "windows", "findings", "summary", "done"}
    /\ cross \in Summaries \cup {None}
    /\ next \in 1 .. Len(bridges) + 1
    /\ flags \in [allocs -> SUBSET {"S1", "S2", "S3", "S3_approx"}]
    /\ conf \in [allocs -> Confidences \cup {None}]
    /\ s3 \in [found : BOOLEAN, approx : BOOLEAN]
    /\ findings \subseteq [det : {"oversized", "long_lived", "non_reusable"}, of : Graph,
                           evidence : Kinds]

(* A bridge whose ordinal lies in the lifetime of the allocation it is in.  *)
Bridged(a) ==
    \E i \in DOMAIN bridges :
        LET b == bridges[i] IN
        HasOrd(b) /\ Holds(a, b.ptr) /\ a.alloc <= b.ord /\ b.ord < a.free

(* An allocation matched by a bridge's ordinal keeps that claim through     *)
(* every later pass: a bridge of the same storage without an ordinal, or    *)
(* windows spanned, never weaken it.                                       *)
PreciseNeverDowngraded ==
    [][\A a \in allocs : conf[a] = "precise" => conf'[a] = "precise"]_vars

(* "S3 is precise only if no approximate bar remains" (analyzer.py, analyze):*)
(* once S3 is reported as not approximate, every bar that carries it is in  *)
(* the windows of two graphs or held by a bridge at a known moment.        *)
PreciseOnlyOnEvidence ==
    phase \in {"findings", "summary", "done"} /\ ~s3.approx =>
        \A a \in Graph :
            flags[a] \cap {"S3", "S3_approx"} # {} =>
                Bridged(a) \/ Cardinality(Spanned(a, capWindows)) >= 2

(* "lifetime overlaps >1 capture window, or >1 breakable segment window, or *)
(* a precise weak-ref bridge - only on real evidence, never fabricated"     *)
(* (README.md): a non-reusable finding for every allocation with such       *)
(* evidence, and for no other.                                             *)
NonReusableOnEvidence ==
    phase \in {"summary", "done"} =>
        \A a \in Graph :
            (\E f \in findings : f.det = "non_reusable" /\ f.of = a)
            <=> \/ Bridged(a)
                \/ Cardinality(Spanned(a, capWindows)) >= NonReusableMin
                \/ Cardinality(Spanned(a, segWindows)) >= NonReusableMin

(* "top-percentile freed lifetime that ALSO crosses a window boundary"      *)
(* (analyzer.py, _build_findings): wherever windows are known, one begins   *)
(* strictly inside the lifetime of a long-lived finding, so a lifetime that *)
(* only meets the next window at the ordinal it ends at is none.           *)
LongLivedCrossesWindows ==
    HasWindows => \A f \in findings :
        f.det = "long_lived" =>
            \E w \in capWindows \cup segWindows :
                Usable(w) /\ f.of.alloc < w.begin /\ w.begin < f.of.free

(* What the sidecar could tell of allocations held across graphs.          *)
Evident == (\E i \in DOMAIN bridges : HasOrd(bridges[i])) \/ (\E w \in capWindows : Usable(w))

(* The summary of a pool says "none" of allocations with evidence never,    *)
(* and of those never freed only when windows or bridges could have told,  *)
(* or one without an ordinal claimed them; it says "approximate" only when *)
(* no window or ordinal was there to tell.                                 *)
SummaryIsSupported ==
    phase = "done" =>
        /\ cross = "none" => \A a \in Graph :
              /\ ~Bridged(a) /\ Cardinality(Spanned(a, capWindows)) < NonReusableMin
              /\ NeverFreed(a) => Evident \/ \E i \in DOMAIN bridges : Holds(a, bridges[i].ptr)
        /\ cross = "approximate" => ~Evident /\ \E a \in Graph : NeverFreed(a)
        /\ cross = "non-reusable" => s3.found

-----------------------------------------------------------------------------
(* Why the verdicts are right: what each pass leaves for the next.         *)

(* The bridge with number i hits an allocation.                            *)
HitBy(a, i) ==
    LET b == bridges[i] IN HasOrd(b) /\ Holds(a, b.ptr) /\ a.alloc <= b.ord /\ b.ord < a.free

(* "precise" stands exactly on the allocations hit by the bridges so far,   *)
(* and the other marks on what the pass that makes them looks at.          *)
MarksAreFounded ==
    \A a \in allocs :
        /\ conf[a] = "precise" <=> \E i \in DOMAIN bridges : i < next /\ HitBy(a, i)
        /\ conf[a] = "approximate" => phase \notin {"flag", "ordinal"}
        /\ conf[a] = "precise-window" =>
              phase \notin {"flag", "ordinal", "windows"} /\ Cardinality(Spanned(a, capWindows)) >= 2
        /\ "S3" \in flags[a] => conf[a] # None
        /\ "S3_approx" \in flags[a] => a \in Graph /\ NeverFreed(a) /\ ~Evident

(* Without evidence the guess stays on what is never freed, unless a bridge *)
(* without an ordinal claims it.                                           *)
GuessKept ==
    phase # "flag" /\ ~Evident =>
        \A a \in Graph :
            NeverFreed(a) => \/ "S3_approx" \in flags[a]
                             \/ \E i \in DOMAIN bridges : Holds(a, bridges[i].ptr)

InputsGiven ==
    /\ allocs \in Heaps /\ bridges \in BridgeLists
    /\ capWindows \in CaptureWindows /\ segWindows \in SegmentWindows

Verdicts ==
    /\ phase = "flag" => next = 1 /\ findings = {}
    /\ phase \notin {"flag", "ordinal"} => next = Len(bridges) + 1
    /\ phase \in {"flag", "ordinal", "windows", "findings"} => findings = {} /\ cross = None
    /\ phase = "summary" => cross = None
    /\ phase \in {"findings", "summary", "done"} =>
          s3.approx <=> \E a \in Graph : "S3_approx" \in flags[a] \/ conf[a] = "approximate"
    /\ \A f \in findings : f.det = "long_lived" => LongLived(f.of)
    /\ phase \in {"summary", "done"} =>
          \A a \in Graph : NonReusable(a) # None <=> \E f \in findings : f.det = "non_reusable" /\ f.of = a

IInv == InputsGiven /\ TypeOK /\ MarksAreFounded /\ GuessKept /\ Verdicts /\ SummaryIsSupported

=============================================================================
