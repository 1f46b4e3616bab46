------------------------------ MODULE MemoryMap ------------------------------
(***************************************************************************)
(* The memory map analyzer.py draws of an analysed snapshot                *)
(* (to_memmap_html, _segment_packer, _memory_map_tracks): a rectangle for  *)
(* each allocation, its bytes across and its lifetime down.  The segments  *)
(* are packed side by side, time is the rank among the ordinals at which   *)
(* something begins or ends, and allocations beyond max_rects are only     *)
(* painted gray below the others.                                          *)
(*                                                                         *)
(* A rectangle is [of, x, width, top, bottom] in packed bytes and ranks,   *)
(* without the half pixel it is drawn with at least.  The gray below is in *)
(* pixels, of which a row of a tall page has less than a half.  Labels,    *)
(* ticks, margins, the brackets of buckets, the rounding of floats and the *)
(* script of the page are left out.                                        *)
(***************************************************************************)
EXTENDS WindowReports

CONSTANTS
    OtherSegments, \* the default pool's segments
    PlotWidth,     \* PW, in pixels
    MinHeight,     \* PH, at least
    MaxHeight,     \* PH, at most
    GridPx,        \* _UNDERLAY_GRID_PX
    TimeBands,     \* _FALLBACK_TIME_BANDS
    TopFindings,   \* _MEMMAP_STRONG_FINDINGS
    MaxRects       \* max_rects

ASSUME PageAssumption ==
    /\ IsFiniteSet(OtherSegments) /\ OtherSegments \subseteq [addr : Nat, size : Nat \ {0}]
    /\ {PlotWidth, MinHeight, MaxHeight, GridPx, TimeBands, TopFindings} \subseteq Nat \ {0} /\ MaxRects \in Nat
    /\ \A s \in GraphSegments \cup OtherSegments, t \in OtherSegments :
          s # t => s.addr + s.size <= t.addr \/ t.addr + t.size <= s.addr

VARIABLE page  \* what is drawn, None before

mapVars == <<vars, page>>

-----------------------------------------------------------------------------
(* _memory_map_tracks: the windows reported, or uniform bands.             *)

BandsOf(end, step) ==
    {[begin |-> lo, end |-> Min({lo + step, end})] : lo \in {x \in 0 .. end - 1 : x % step = 0}}

UniformBands(end, bands) ==
    LET nb == Min({bands, end}) IN BandsOf(end, Max({1, (end + nb - 1) \div nb}))

Tracks ==
    IF Entries = {} THEN UniformBands(Max({End, 1}), TimeBands)
    ELSE {[begin |-> e.window.begin, end |-> e.window.end] : e \in Entries}

-----------------------------------------------------------------------------
(* _segment_packer: the segments of the pools shown, one after the other.  *)

PoolOf(addr) ==
    IF \E s \in GraphSegments : s.addr <= addr /\ addr < s.addr + s.size THEN "graph"
    ELSE IF \E s \in OtherSegments : s.addr <= addr /\ addr < s.addr + s.size THEN "default"
    ELSE None

Rendered(bars) ==
    LET all == GraphSegments \cup OtherSegments
        own == {s \in all : PoolOf(s.addr) \in {PoolOf(b.addr) : b \in bars}}
    IN  IF own = {} THEN all ELSE own

Packed(s, segs) == BytesIn({t \in segs : t.addr < s.addr})

Anchored(addr, segs) == \E s \in segs : s.addr <= addr /\ addr < s.addr + s.size
SegmentAt(addr, segs) == CHOOSE s \in segs : s.addr <= addr /\ addr < s.addr + s.size

(* x_of; an address outside every segment is placed as if nothing were     *)
(* packed.                                                                 *)
XOf(addr, segs) ==
    IF Anchored(addr, segs)
    THEN Packed(SegmentAt(addr, segs), segs) + addr - SegmentAt(addr, segs).addr
    ELSE addr - Min({s.addr : s \in segs})

(* run_end_of: where the segments that follow without a gap end.           *)
LastEnd(addr, segs) == Max({s.addr + s.size : s \in segs})
RunEndOf(addr, segs) ==
    Min({s.addr + s.size : s \in {t \in segs : t.addr + t.size > addr
                                               /\ \A u \in segs : u.addr # t.addr + t.size}})

DrawSize(b, segs) ==
    IF Anchored(b.addr, segs)
    THEN Min({b.size, RunEndOf(b.addr, segs) - b.addr})
    ELSE b.size

-----------------------------------------------------------------------------
(* to_memmap_html                                                          *)

Impact(a) == a.size * Max({1, a.free - a.alloc})

(* The impact of the last of the top findings: the lowest drawn in full    *)
(* colour.                                                                 *)
StrongImpact ==
    LET atLeast(v) == Cardinality({f \in findings : Impact(f.of) >= v})
    IN  Max({0} \cup {v \in {Impact(f.of) : f \in findings} :
                        atLeast(v) >= Min({TopFindings, Cardinality(findings)})})

Flagged == {f.of : f \in findings}
Strong ==
    LET lowest == StrongImpact IN {a \in Flagged : Impact(a) >= lowest}

(* Strong ones, then the larger ones, then in the order of allocation.     *)
Larger(a, b) == a.size > b.size \/ (a.size = b.size /\ a.alloc < b.alloc)
BySize(bars) == SortedBy(bars, {p \in bars \X bars : Larger(p[1], p[2])})
Ordered(bars) ==
    LET first == Strong
    IN  SortedBy(bars, {p \in bars \X bars :
                          \/ p[1] \in first /\ p[2] \notin first
                          \/ (p[1] \in first <=> p[2] \in first) /\ Larger(p[1], p[2])})

Breakpoints(bars) ==
    (UNION {{b.alloc, b.free} : b \in bars}) \cup (UNION {{t.begin, t.end} : t \in Tracks})

(* _rank of a breakpoint; between them nothing begins or ends.             *)
Rank(ord, points) == Cardinality({p \in points : p < ord})

Rect(b, points, segs) ==
    [of |-> b, x |-> XOf(b.addr, segs), width |-> DrawSize(b, segs),
     top |-> Rank(b.alloc, points), bottom |-> Rank(b.free, points)]

(* The columns of the grid a rectangle touches, with int() rounding to     *)
(* zero; it is half a pixel wide at least.                                 *)
ToZero(n, d) == IF n < 0 THEN -((-n) \div d) ELSE n \div d
Columns(r, total) ==
    ToZero(r.x * PlotWidth, GridPx * total)
        .. ToZero(2 * r.x * PlotWidth + Max({2 * r.width * PlotWidth, total}), 2 * GridPx * total)

(* PH and sy.  With as many units to half a pixel as the page has rows,    *)
(* every breakpoint is at a whole number of them.                          *)
HalfPixel(points)  == Max({Cardinality(points) - 1, 1})
PlotHeight(points) == Max({MinHeight, Min({(8 * HalfPixel(points)) \div 5, MaxHeight})})
Down(rank, points) == 2 * PlotHeight(points) * rank

(* A rectangle's interval below: half a pixel high at least.               *)
Interval(r, points) ==
    [top    |-> Down(r.top, points),
     bottom |-> Max({Down(r.bottom, points), Down(r.top, points) + HalfPixel(points)})]

(* A column's intervals, merged from top to bottom over what is free for   *)
(* half a pixel or less.                                                   *)
MergedAcrossGaps(ivals, half) ==
    {[top |-> Min({i.top : i \in ToSet(ivals)}), bottom |-> Max({i.bottom : i \in ToSet(ivals)})]}
Join(s, i, half) ==
    IF i.top <= s.cur.bottom + half
    THEN [done |-> s.done, cur |-> [top |-> s.cur.top, bottom |-> Max({s.cur.bottom, i.bottom})]]
    ELSE [done |-> s.done \cup {s.cur}, cur |-> i]
Merge(ivals, half) ==
    LET join(s, i) == Join(s, i, half)
        merged == FoldLeft(join, [done |-> {}, cur |-> Head(ivals)], Tail(ivals))
    IN  merged.done \cup {merged.cur}

Above(i, j) == i.top < j.top \/ (i.top = j.top /\ i.bottom < j.bottom)
FromTop(ivals) == SortedBy(ivals, {p \in ivals \X ivals : Above(p[1], p[2])})

Underlay(rects, total, points) ==
    [c \in UNION {Columns(r, total) : r \in rects} |->
        Merge(FromTop({Interval(r, points) : r \in {q \in rects : c \in Columns(q, total)}}),
              HalfPixel(points))]

Page(all) ==
    LET bars  == IF all THEN allocs ELSE Graph
        segs  == Rendered(bars)
        order == Ordered(bars)
        shown == ToSet(SubSeq(order, 1, Min({MaxRects, Len(order)})))
        points  == Breakpoints(bars)
        rect(b) == Rect(b, points, segs)
    IN  [bars |-> bars, segs |-> segs,
         rects |-> {rect(b) : b \in shown},
         tinted |-> {b \in shown \cap Flagged : Impact(b) < StrongImpact},
         under |-> Underlay({rect(b) : b \in bars \ shown}, Max({1, BytesIn(segs)}), points)]

Draw(all) ==
    /\ Done /\ page = None
    /\ page' = Page(all)
    /\ UNCHANGED vars

MapInit == Init /\ page = None
MapNext ==
    \/ (LookAtCapture \/ LookAtSegment) /\ UNCHANGED page
    \/ \E all \in BOOLEAN : Draw(all)

MapSpec == MapInit /\ [][MapNext]_mapVars

-----------------------------------------------------------------------------
Drawn     == page # None
Points    == Breakpoints(page.bars)
Rows      == 0 .. Cardinality(Points) - 2
BeginOf(row) == CHOOSE p \in Points : Rank(p, Points) = row
LivesIn(b, row) == b.alloc <= BeginOf(row) /\ BeginOf(row) < b.free

(* The addresses with a place on the map, and an allocation's: those of the *)
(* stretch of adjacent segments it begins in.                              *)
Addresses == UNION {s.addr .. s.addr + s.size - 1 : s \in page.segs}
Place(p)  == Cardinality({q \in Addresses : q < p})
OnMap(b)  == {p \in b.addr .. b.addr + b.size - 1 : b.addr .. p \subseteq Addresses}

WithRect    == {r.of : r \in page.rects}
WithoutRect == page.bars \ WithRect

(* Pixels, in units of a byte's share of one.                              *)
ColumnWidth == GridPx * Cardinality(Addresses)

(* "Crossing a real VA gap would bleed into an unrelated segment's packed   *)
(* range" (analyzer.py, _segment_packer): a rectangle covers the place of   *)
(* an address, for the time between two breakpoints, if and only if its    *)
(* allocation has that address and is live then, however allocations lie   *)
(* in or across the segments of the final layout.                          *)
RectsAreTrue ==
    Drawn => \A r \in page.rects : r.of.addr \in Addresses =>
        \A p \in Addresses, row \in Rows :
            (r.x <= Place(p) /\ Place(p) < r.x + r.width /\ r.top <= row /\ row < r.bottom)
                <=> p \in OnMap(r.of) /\ LivesIn(r.of, row)

(* "Dense regions whose allocations lost the cap race would render as FALSE *)
(* free holes" (analyzer.py, to_memmap_html): every byte of an allocation   *)
(* without a rectangle is gray in its whole width, all its life, and a     *)
(* column is gray only where, within half a pixel, it meets such an        *)
(* allocation while that is drawn, or where half a pixel or less is free   *)
(* between two of them: what is free for longer stays visibly free, also   *)
(* on a page whose rows are lower than that.                               *)
GrayAt(c, row) ==
    /\ c \in DOMAIN page.under
    /\ \E i \in page.under[c] : i.top <= Down(row, Points) /\ Down(row + 1, Points) <= i.bottom

NoFalseHoles ==
    \A b \in WithoutRect : \A p \in OnMap(b), row \in Rows :
        LivesIn(b, row) =>
            \A c \in (Place(p) * PlotWidth) \div ColumnWidth
                        .. ((Place(p) + 1) * PlotWidth - 1) \div ColumnWidth : GrayAt(c, row)

Meets(b, c) ==
    b.addr \in Addresses => \E p \in OnMap(b) :
        /\ Place(p) * PlotWidth <= (c + 1) * ColumnWidth
        /\ 2 * c * ColumnWidth <= 2 * (Place(p) + 1) * PlotWidth + Cardinality(Addresses)

BeginsAt(b) == Down(Rank(b.alloc, Points), Points)
EndsAt(b)   == Max({Down(Rank(b.free, Points), Points), BeginsAt(b) + HalfPixel(Points)})

NoHiddenHoles ==
    \A c \in DOMAIN page.under : \A i \in page.under[c] : \A y \in i.top .. i.bottom :
        \E a, b \in {d \in WithoutRect : Meets(d, c)} :
            /\ BeginsAt(a) <= y
            /\ \/ y <= EndsAt(a)
               \/ y <= BeginsAt(b) /\ BeginsAt(b) <= EndsAt(a) + HalfPixel(Points)

UnderlayIsTrue == Drawn => NoFalseHoles /\ NoHiddenHoles

(* "The top-K-impact findings always survive" the cap (analyzer.py,         *)
(* to_memmap_html), when no more than the cap have or share that impact,   *)
(* and they alone are drawn in full colour.                                *)
TopFindingsStandOut ==
    Drawn =>
        LET higher(f) == {g \in findings : Impact(g.of) > Impact(f.of)}
            top == {f.of : f \in {g \in findings : Cardinality(higher(g)) < TopFindings}}
        IN  /\ Cardinality(top) <= MaxRects => top \subseteq WithRect
            /\ page.tinted = WithRect \cap (Flagged \ top)

=============================================================================
