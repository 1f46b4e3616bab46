----------------------------- MODULE SnapshotGate ---------------------------
(***************************************************************************)
(* What may be reported of a snapshot.  Versions of torch leave out fields *)
(* of the snapshots they dump.  schema.py normalizes a snapshot and says   *)
(* which fields are there, validator.py probes the installed torch and     *)
(* writes a capability manifest, and analyze (analyzer.py) reports only    *)
(* what both allow, degrades to aggregates or refuses.                     *)
(*                                                                         *)
(* A snapshot is taken of what the allocators really did (history) and of  *)
(* the segments they really have; a loss says which field is left out, at  *)
(* one place or, at 0, everywhere.  The events of all devices are numbered *)
(* by one ordinal.  Frames, requested sizes, streams and fingerprints are  *)
(* left out; the sidecar is reduced to whether it can be read.             *)
(***************************************************************************)
EXTENDS TraceAnalysis, FiniteSets, FiniteSetsExt

CONSTANTS
    Histories,  \* events of all devices, [dev, act, addr, size, time], as they happened
    Segments,   \* the segments, in the order the snapshot lists them, [addr, size, graph]
    Devices,    \* number of devices
    Losses,     \* what a version of torch leaves out, [fields, at]
    Probe,      \* the history of the validator's two captures
    Unreadable, \* a file that is no JSON
    None        \* Python's None

Fields == {"required", "traces", "action", "addr", "size", "time", "address"}

(* What happens at an allocator, told as it happened.                      *)
Happenings == [dev : 1 .. Devices, act : STRING, addr : Nat, size : Nat, time : Nat]

(* What a capability manifest says of the fields it is asked for.          *)
Manifests ==
    [block_explicit_address : BOOLEAN, device_traces_present : BOOLEAN, device_traces_action : BOOLEAN,
     device_traces_addr : BOOLEAN, device_traces_size : BOOLEAN]

(* Why an analysis is refused.                                             *)
Reasons == {"schema", "sidecar", "layout"}

ASSUME NoneAssumption ==
    /\ None \notin Losses /\ None \notin Int /\ None \notin STRING /\ None \notin Reasons
    /\ {None, Unreadable} \cap Manifests = {}
ASSUME LossesAssumption ==
    /\ Losses \subseteq [fields : SUBSET Fields, at : Nat]
    /\ \A loss \in Losses : loss.at = 0 \/ loss.fields \cap {"required", "traces"} = {}
ASSUME SegmentsAssumption ==
    /\ Segments \in Seq([addr : Nat, size : Nat \ {0}, graph : BOOLEAN]) /\ Segments # <<>>
    /\ \A i, j \in DOMAIN Segments :
          i # j => \/ Segments[i].addr + Segments[i].size <= Segments[j].addr
                   \/ Segments[j].addr + Segments[j].size <= Segments[i].addr
ASSUME HistoriesAssumption ==
    /\ Devices \in Nat /\ Histories \cup {Probe} \subseteq Seq(Happenings)
    /\ \A h \in Histories \cup {Probe} : \A i, j \in DOMAIN h : i < j =>
          /\ h[i].time <= h[j].time
          /\ h[i].addr = h[j].addr => h[i].dev = h[j].dev
          /\ IsAlloc(h[i]) /\ IsAlloc(h[j]) /\ h[i].addr = h[j].addr
               => \E k \in i + 1 .. j - 1 : IsFree(h[k]) /\ h[k].addr = h[i].addr
    /\ \A h \in Histories \cup {Probe} : \A i \in DOMAIN h : IsAlloc(h[i]) => h[i].size > 0

VARIABLES
    manifest,  \* capability_manifest.json: None, Unreadable, or what it holds
    validated, \* the validator's exit code, None if it has not run
    raw,       \* the pickled snapshot, None before the capture
    at,        \* the step of _analyze_pickle
    snap,      \* the normalized snapshot
    refused,   \* why the analysis was refused, None if it was not
    result     \* what is reported

VARIABLES      \* auxiliary: what the files were made of
    history,   \* what happened in the capture
    lost,      \* what its torch leaves out
    probeLost  \* what the validator's left out

files == <<manifest, validated, probeLost, raw, history, lost>>
vars  == <<files, at, snap, refused, result>>

Init ==
    /\ manifest \in {None, Unreadable} /\ validated = None /\ probeLost = None
    /\ raw = None /\ history = <<>> /\ lost = None
    /\ at = "capture" /\ snap = None /\ refused = None /\ result = None

-----------------------------------------------------------------------------
Ascending(S) == SortedBy(S, {p \in S \X S : p[1] < p[2]})

(* The allocator's snapshot (external)                                     *)

(* The lifetimes in a history, by the places of their events; freed is     *)
(* None if it never is.                                                    *)
LivesOf(h) ==
    LET frees(i) == {j \in DOMAIN h : i < j /\ IsFree(h[j]) /\ h[j].addr = h[i].addr}
    IN  {[addr |-> h[i].addr, size |-> h[i].size, born |-> i,
          freed |-> IF frees(i) = {} THEN None ELSE Min(frees(i))] :
            i \in {j \in DOMAIN h : IsAlloc(h[j])}}

Left(loss, field, i, value) ==
    IF field \in loss.fields /\ loss.at \in {0, i} THEN None ELSE value

(* The blocks of a segment cover it from end to end.                       *)
BlocksOf(seg, h) ==
    LET live   == {a \in LivesOf(h) : a.freed = None /\ seg.addr <= a.addr /\ a.addr < seg.addr + seg.size}
        starts == {seg.addr} \cup {a.addr : a \in live} \cup
                  ({a.addr + a.size : a \in live} \ {seg.addr + seg.size})
        next(x) == Min({y \in starts : y > x} \cup {seg.addr + seg.size})
        block(x) == [addr |-> x, size |-> next(x) - x, active |-> \E a \in live : a.addr = x]
        order == Ascending(starts)
    IN  [k \in DOMAIN order |-> block(order[k])]

(* The validator holds several allocations, in segments, some in one.      *)
ASSUME ProbeAssumption ==
    /\ Len(Probe) > 1 /\ \E i \in DOMAIN Segments : 2 \in DOMAIN BlocksOf(Segments[i], Probe)
    /\ \A a \in LivesOf(Probe) : a.freed = None =>
          \E i \in DOMAIN Segments : Segments[i].addr <= a.addr /\ a.addr < Segments[i].addr + Segments[i].size

(* id, the place in the history, is auxiliary.                             *)
SnapshotOf(h, loss) ==
    LET event(i) == [id   |-> i, dev |-> h[i].dev,
                     act  |-> Left(loss, "action", i, h[i].act),
                     addr |-> Left(loss, "addr", i, h[i].addr),
                     size |-> Left(loss, "size", i, h[i].size),
                     time |-> Left(loss, "time", i, h[i].time)]
        kept(d)  == IF "traces" \in loss.fields THEN {} ELSE {i \in DOMAIN h : h[i].dev = d}
        block(b, k) == [b EXCEPT !.addr = Left(loss, "address", k, @)]
    IN  [complete |-> "required" \notin loss.fields,
         segments |-> [i \in DOMAIN Segments |->
                         LET bs == BlocksOf(Segments[i], h)
                         IN  [addr  |-> Segments[i].addr, size |-> Segments[i].size,
                              graph |-> Segments[i].graph,
                              blocks |-> [k \in DOMAIN bs |-> block(bs[k], k)]]],
         traces   |-> [d \in 1 .. Devices |->
                         LET ids == Ascending(kept(d)) IN [k \in DOMAIN ids |-> event(ids[k])]]]

-----------------------------------------------------------------------------
(* schema.py: normalize                                                    *)

(* An event of the file: a device and a place in its trace.                *)
Places(s)     == UNION {{d} \X DOMAIN s.traces[d] : d \in DOMAIN s.traces}
At(s, p)      == s.traces[p[1]][p[2]]
Earlier(p, q) == p[1] < q[1] \/ (p[1] = q[1] /\ p[2] < q[2])

InFile(s) == {pq \in Places(s) \X Places(s) : Earlier(pq[1], pq[2])}
InTime(s) ==
    {pq \in Places(s) \X Places(s) :
        \/ At(s, pq[1]).time < At(s, pq[2]).time
        \/ At(s, pq[1]).time = At(s, pq[2]).time /\ Earlier(pq[1], pq[2])}

Timed(s)   == \A p \in Places(s) : At(s, p).time # None
List(s, R) == LET order == SortedBy(Places(s), R) IN [k \in DOMAIN order |-> At(s, order[k])]
Flat(s)    == List(s, InFile(s))

(* By time if every event has one, in the order of the file otherwise.     *)
FileOrder(s) == Flat(s)
Merged(s)    == List(s, IF Timed(s) THEN InTime(s) ELSE InFile(s))

(* Missing values become "?", -1 and 0.                                    *)
Normal(e) == [id |-> e.id, act |-> IF e.act = None THEN "?" ELSE e.act,
              addr |-> IF e.addr = None THEN -1 ELSE e.addr,
              size |-> IF e.size = None THEN 0 ELSE e.size]

Used(flat)   == {e \in ToSet(flat) : e.act # None /\ (IsAlloc(e) \/ IsFree(e))}
Allocs(flat) == {e \in ToSet(flat) : e.act # None /\ IsAlloc(e)}
Blocks(s)    == UNION {ToSet(seg.blocks) : seg \in ToSet(s.segments)}

BlockAddressOfAny(s) == \E b \in Blocks(s) : b.addr # None
BlockAddress(s) == s.segments # <<>> /\ \A b \in Blocks(s) : b.addr # None

TraceAddrOfAny(s) == \E e \in Used(Flat(s)) : e.addr # None
TraceAddr(s) == Used(Flat(s)) # {} /\ \A e \in Used(Flat(s)) : e.addr # None

TraceAction(s) == Flat(s) # <<>> /\ \A e \in ToSet(Flat(s)) : e.act # None
TraceSize(s)   == Allocs(Flat(s)) # {} /\ \A e \in Allocs(Flat(s)) : e.size # None

(* _require: every key the analysis needs, in the snapshot and its parts.  *)
Complete(s) == s.complete

Normalize(s) ==
    [events   |-> LET merged == Merged(s) IN [i \in DOMAIN merged |-> Normal(merged[i])],
     segments |-> s.segments,
     layout   |-> BlockAddress(s),
     history  |-> Flat(s) # <<>> /\ TraceAction(s) /\ TraceAddr(s) /\ TraceSize(s)]

-----------------------------------------------------------------------------
(* validator.py: build_manifest, of a snapshot taken after two captures    *)
(* whose allocations are still held.                                       *)

(* _segment_block_addresses: the block's address, or else the segment's    *)
(* and the sizes of the blocks before it.                                  *)
DerivedAtBase(seg, k) == IF seg.blocks[k].addr # None THEN seg.blocks[k].addr ELSE seg.addr
Derived(seg, k) ==
    IF seg.blocks[k].addr # None THEN seg.blocks[k].addr
    ELSE seg.addr + SumFunctionOnSet([j \in DOMAIN seg.blocks |-> seg.blocks[j].size], 1 .. k - 1)

ProbeTraces(s) == ToSet(Flat(s))

Located(s, ptr) ==
    \/ \E e \in ProbeTraces(s) : e.addr = ptr
    \/ \E seg \in ToSet(s.segments) : \E k \in DOMAIN seg.blocks : Derived(seg, k) = ptr

(* What the probe proves: that some record has the field.                  *)
Capabilities(s) ==
    [block_explicit_address |-> \E b \in Blocks(s) : b.addr # None,
     device_traces_present  |-> ProbeTraces(s) # {},
     device_traces_action   |-> \E e \in ProbeTraces(s) : e.act # None,
     device_traces_addr     |-> \E e \in ProbeTraces(s) : e.addr # None,
     device_traces_size     |-> \E e \in ProbeTraces(s) : e.size # None]

Known == {a.addr : a \in {b \in LivesOf(Probe) : b.freed = None}}

(* main: the manifest is written also when the self-check fails.  Nothing   *)
(* reads it before the analysis, so the validator runs before the capture. *)
Validate(loss) ==
    /\ at = "capture" /\ validated = None
    /\ LET s == SnapshotOf(Probe, loss) IN
       /\ manifest'  = Capabilities(s)
       /\ validated' = IF \A p \in Known : Located(s, p) THEN 0 ELSE 1
    /\ probeLost' = loss
    /\ UNCHANGED <<raw, history, lost, at, snap, refused, result>>

(* The capture, with the wrappers' dump.                                   *)
Capture(h, loss) ==
    /\ at = "capture"
    /\ at' = "load"
    /\ raw' = SnapshotOf(h, loss) /\ history' = h /\ lost' = loss
    /\ UNCHANGED <<manifest, validated, probeLost, snap, refused, result>>

-----------------------------------------------------------------------------
(* analyzer.py: _analyze_pickle                                            *)

(* The analysis goes on with the next step, or is refused.                 *)
Go(step, why) ==
    IF why = None THEN at' = step /\ UNCHANGED refused ELSE at' = "done" /\ refused' = why

Load ==
    /\ at = "load"
    /\ Go("sidecar", IF Complete(raw) THEN None ELSE "schema")
    /\ snap' = IF Complete(raw) THEN Normalize(raw) ELSE None
    /\ UNCHANGED <<files, result>>

(* A sidecar that was asked for must be there and readable.                *)
FindSidecar(asked, readable) ==
    /\ at = "sidecar"
    /\ Go("analyze", IF asked /\ ~readable THEN "sidecar" ELSE None)
    /\ UNCHANGED <<files, snap, result>>

(* _resolve_availability: manifest and snapshot, or the snapshot alone if  *)
(* there is no manifest that can be read.                                  *)
Supplied == manifest \notin {None, Unreadable}

LayoutDenied == Supplied /\ ~manifest.block_explicit_address
HistoryDenied ==
    Supplied /\ ~(/\ manifest.device_traces_present /\ manifest.device_traces_action
                  /\ manifest.device_traces_addr /\ manifest.device_traces_size)

LayoutAvailable  == snap.layout /\ ~LayoutDenied

HistoryBySnapshot == snap.history
HistoryAvailable  == snap.history /\ ~HistoryDenied

(* The snapshot has no addresses and nothing says that it need not.        *)
FailsClosedUnvouched == ~snap.layout /\ ~Supplied
FailsClosed       == ~snap.layout /\ ~LayoutDenied

(* _extract_allocations and pool_of; the graph pool's are shown.           *)
InGraph(addr) ==
    \E i \in DOMAIN Segments :
        /\ Segments[i].graph
        /\ Segments[i].addr <= addr /\ addr < Segments[i].addr + Segments[i].size

Bars == {a \in Extract(snap.events) : InGraph(a.addr)}

LiveBytes(bars, ord) == BytesIn({a \in bars : a.alloc <= ord /\ ord < a.free})

(* The peak of _peak_live_bytes: of simultaneously live bytes.             *)
PeakOf(bars) == Max({0} \cup {LiveBytes(bars, a.alloc) : a \in bars})

(* _segment_summaries: blocks with their offsets only if layout is         *)
(* available, bytes by state always.                                       *)
Offset(b, seg) == IF b.addr = None THEN None ELSE b.addr - seg.addr
Summary(seg, withBlocks) ==
    LET of(active) == {k \in DOMAIN seg.blocks : seg.blocks[k].active = active}
        size       == [k \in DOMAIN seg.blocks |-> seg.blocks[k].size]
    IN  [active |-> SumFunctionOnSet(size, of(TRUE)), inactive |-> SumFunctionOnSet(size, of(FALSE)),
         graph  |-> seg.graph,
         hole   |-> Max({0} \cup {size[k] : k \in of(FALSE)}),
         blocks |-> IF withBlocks
                    THEN {[offset |-> Offset(b, seg), size |-> b.size, active |-> b.active] :
                            b \in ToSet(seg.blocks)}
                    ELSE {}]

Summaries == [i \in DOMAIN snap.segments |-> Summary(snap.segments[i], LayoutAvailable)]

ActiveOfAnyPool(sums) == SumFunction([i \in DOMAIN sums |-> sums[i].active])
ActiveBytes(sums) ==
    SumFunctionOnSet([i \in DOMAIN sums |-> sums[i].active], {i \in DOMAIN sums : sums[i].graph})

(* Without a history no lifetimes are made up, and the peak is a proxy.    *)
Reports ==
    [layout   |-> LayoutAvailable,
     lifetime |-> HistoryAvailable,
     segments |-> Summaries,
     bars     |-> IF HistoryAvailable THEN Bars ELSE {},
     peak     |-> IF HistoryAvailable THEN PeakOf(Bars) ELSE ActiveBytes(Summaries)]

Analyze ==
    /\ at = "analyze"
    /\ Go("done", IF FailsClosed THEN "layout" ELSE None)
    /\ result' = IF FailsClosed THEN None ELSE Reports
    /\ UNCHANGED <<files, snap>>

Next ==
    \/ \E loss \in Losses : Validate(loss)
    \/ \E h \in Histories, loss \in Losses : Capture(h, loss)
    \/ \E asked, readable \in BOOLEAN : FindSidecar(asked, readable)
    \/ Load \/ Analyze

Spec == Init /\ [][Next]_vars

-----------------------------------------------------------------------------
Reported == result # None

Shown == {a \in LivesOf(history) : InGraph(a.addr)}

(* Whatever a snapshot leaves out, wherever, the lifetimes reported are     *)
(* those of the capture, each with the events that began and ended it, or  *)
(* none are (schema.py, analyzer.py: "no fabricated layout/lifetime").     *)
LifetimesAreTrue ==
    LET event(ord) == IF ord = Len(snap.events) THEN None ELSE snap.events[ord + 1].id
    IN  Reported /\ result.lifetime =>
          Shown = {[addr |-> a.addr, size |-> a.size, born |-> event(a.alloc),
                    freed |-> event(a.free)] : a \in result.bars}

(* The blocks reported are those of the segments, at their true offsets, or *)
(* no blocks are reported; the bytes by state are true either way          *)
(* (_segment_summaries).                                                   *)
BlocksAreTrue ==
    Reported => \A i \in DOMAIN Segments :
        result.segments[i].blocks =
            IF result.layout
            THEN {[offset |-> b.addr - Segments[i].addr, size |-> b.size, active |-> b.active] :
                    b \in ToSet(BlocksOf(Segments[i], history))}
            ELSE {}
BytesAreTrue ==
    Reported => \A i \in DOMAIN Segments :
        LET blocks == ToSet(BlocksOf(Segments[i], history))
            bytes(active) == BytesIn({b \in blocks : b.active = active})
        IN  result.segments[i].active = bytes(TRUE) /\ result.segments[i].inactive = bytes(FALSE)
LayoutIsTrue == BlocksAreTrue /\ BytesAreTrue

(* Two devices' events are numbered as the counter of the shim counted      *)
(* them: an ordinal taken between two ticks of the clock has the events     *)
(* that came before it below it, so windows enclose what happened in them; *)
(* for one device the same holds between any two events, and without times. *)
BoundariesSplitTheTrace ==
    snap # None /\ snap.events # <<>> =>
        \A b \in 1 .. Len(history) - 1 :
            \/ \E i, j \in DOMAIN history : history[i].dev # history[j].dev
               /\ ("time" \in lost.fields \/ history[b].time = history[b + 1].time)
            \/ {snap.events[i].id : i \in 1 .. b} = 1 .. b

(* The bytes live at once, of every order in which events happened.        *)
TruePeak ==
    LET live(i) == {a \in Shown : a.born <= i /\ (a.freed = None \/ i < a.freed)}
    IN  Max({0} \cup {BytesIn(live(i)) : i \in DOMAIN history})

(* The peak reported of a snapshot whose events are in order is that of the *)
(* capture; without lifetimes the proxy reported in its place is no more.  *)
PeakNeverOverstated ==
    Reported =>
        /\ ~result.lifetime => result.peak <= TruePeak
        /\ result.lifetime /\ (\A i \in DOMAIN snap.events : snap.events[i].id = i)
             => result.peak = TruePeak

NeedsHistory == {"traces", "action", "addr", "size"}

(* What the probed torch leaves out everywhere; nothing if none was.       *)
Probed == IF probeLost # None /\ probeLost.at = 0 THEN probeLost.fields ELSE {}

(* "The capability manifest is an upper bound" (analyzer.py): what the      *)
(* probed torch leaves out everywhere is not reported of any snapshot.  It *)
(* costs nothing else: of a snapshot with all other fields all is reported *)
(* that needs no lost one, and a snapshot without block addresses is       *)
(* accepted if the torch probed had none.                                  *)
OffersWhatBothHave ==
    /\ Reported => /\ result.layout => "address" \notin Probed
                   /\ result.lifetime => Probed \cap NeedsHistory = {}
    /\ at = "done" /\ lost.at = 0 /\ refused \notin {"schema", "sidecar"} =>
          LET gone == lost.fields \cup Probed IN
          /\ refused = None <=> ("address" \in lost.fields => "address" \in Probed)
          /\ Reported => /\ result.layout <=> "address" \notin gone
                         /\ result.lifetime <=> /\ gone \cap NeedsHistory = {}
                                                /\ \E i \in DOMAIN history : IsAlloc(history[i])

(* "A capability manifest cannot vouch for a snapshot that lacks block     *)
(* addresses" (analyzer.py): one that lacks any is refused unless the torch *)
(* probed had none, and only for that reason.                              *)
DriftFailsClosed ==
    LET lacks  == \E b \in Blocks(raw) : b.addr = None
        denied == "address" \in Probed
    IN  /\ Reported /\ lacks => denied
        /\ refused = "layout" => lacks /\ ~denied

(* The validator finds the allocations it holds whatever its torch leaves   *)
(* out of the traces and blocks, since blocks without an address follow    *)
(* one another from the start of their segment.                            *)
SelfCheckFindsAllocations == validated # None => validated = 0

(***************************************************************************)
(* Why they hold: the invariant that is inductive.  Each file and each step *)
(* is what the ones before it make it.                                     *)
(***************************************************************************)

(* The manifest is that of the torch probed, if one was.                   *)
ManifestOK ==
    \/ probeLost = None /\ manifest \in {None, Unreadable}
    \/ probeLost \in Losses /\ manifest = Capabilities(SnapshotOf(Probe, probeLost))

(* The pickle is the snapshot of the capture.                              *)
RawOK == at # "capture" => history \in Histories /\ lost \in Losses /\ raw = SnapshotOf(history, lost)

(* What is analyzed is the pickle, normalized.                             *)
SnapOK == /\ snap = None \/ snap = Normalize(raw)
          /\ at \in {"sidecar", "analyze"} => snap = Normalize(raw)
          /\ at = "capture" => snap = None

(* The analysis ends with a reason to refuse or with what it reports.      *)
OutcomeOK ==
    /\ at \in {"capture", "load", "sidecar", "analyze", "done"}
    /\ at # "done" => refused = None /\ result = None
    /\ at = "done" => \/ refused \in {"schema", "sidecar"} /\ result = None
                      \/ refused = "layout" /\ result = None /\ snap = Normalize(raw) /\ FailsClosed
                      \/ refused = None /\ result = Reports /\ snap = Normalize(raw) /\ ~FailsClosed

IInv == ManifestOK /\ RawOK /\ SnapOK /\ OutcomeOK
=============================================================================
