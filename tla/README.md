# A TLA+ model of cg_mem_inspect

`cg_mem_inspect` shows how CUDA graph captures use a shared memory pool. A shim
loaded into the captured server wraps the runners' capture methods, records
torch's allocator history and dumps, per process and runner, a pickled snapshot, a
sidecar (capture windows, segment windows, graph slots, weak-reference bridges, all
dated by *event ordinals*) and an entry of a shared manifest. An analyzer rebuilds the
allocations' lifetimes from the dump, joins them with the sidecar and reports which
allocations the pool cannot reuse; it also compares the ranks of a server and two
versions of a capture.

Everything the tool says rests on a chain of small facts that are easy to break and
hard to test: an ordinal computed from counters means a position in a trace;
a window encloses what its shape allocated; a bridge names the block that was live
when it was taken; the passes that mark evidence do not overwrite each other; the
entry of one rank survives the writes of all the others. These modules state those
facts, check them on small instances, and prove every one of them but one for every value of the constants:
that a dump ends, which is a matter of fairness, stays with the model checker.

File and line references are to the repository: `shim.py`, `schema.py`,
`analyzer.py`, `validator.py` stand for the files under `src/cg_mem_inspect/`.

## 1. Inventory

| component | state it keeps | operations | what makes it correct |
|---|---|---|---|
| **event ordinal counter** (`shim.py` 130-243) | `_o1`: offset, snapshots taken; torch's rings and cumulative stats | `_start_recording`, `_stop_recording`, `_trace_len` = `_stats_len` + offset, calibrated by `_snapshot_len` | an ordinal is the trace length at some moment of its call, less a bounded constant, and never goes back |
| **capture wrappers** (`shim.py` 52-129, 246-289, 420-588) | `_capture_windows`, `_segment_windows`, `_weak_ref_bridges`, `_graph_slots`, `_pending_segments`, context variables | outer capture, one shape, segment begin and end, weak reference, extraction of graph slots | windows in order, segments inside their shape's window, nothing of an earlier capture left |
| **artifact publication** (`shim.py` 292-400) | files on disk: pickle, sidecar, manifest, lock | `_dump`, `_upsert_manifest` | no published entry is lost, one entry per stem, files of one capture, no process left waiting |
| **installation of the wrappers** (`shim.py` 591-715, `_sitedir/sitecustomize.py`) | what is patched; `_busy` of the finder | `install`, `_PatchFinder`, the patchers | each method wrapped exactly once |
| **snapshot schema and gating** (`schema.py`, `analyzer.py` 933-1071, `validator.py`) | a normalised snapshot; the availability of history and layout | `normalize`, `_resolve_availability`, `build_manifest` | events in allocator order; no lifetime or layout reported from data that has none, none withheld that is there |
| **trace analysis** (`analyzer.py` 93-139, 263-437, 981-1050) | the list of allocations | `_extract_allocations`, `_apply_bridges`, `_apply_graph_slots`, ring check | lifetimes are those of the capture; a bridge or a name goes to its own block |
| **evidence and findings** (`analyzer.py` 208-348, 757-930, 1086-1210) | flags and `bridge_conf` of every allocation, signatures, findings | `_flag_signatures`, `_apply_bridges`, window spanning, `_build_findings` | a finding exactly where there is evidence; precise only if all of it is |
| **window reports** (`analyzer.py` 440-755) | reports per runner, omitted windows | `_build_reports`, `_window_metrics`, `_segment_fill_at_peak`, `_bridge_persistence` | no window dropped in silence; peak and layout are those of the window |
| **cross-rank comparison and baseline** (`analyzer.py` 2271-2601) | rows per rank and variant, output files | `_run_artifact_dir`, `_run_compare_ranks`, `_high_water_rows` | the newest rows of each rank, a regression reported exactly when there is one, no output on failure |
| **memory map page** (`analyzer.py` 1376-1990) | none: an HTML text | `_memory_map_tracks`, `_segment_packer`, `to_memmap_html` | every byte at its place and time; no hole hidden, none made up; the worst findings seen |
| **feasibility validator** (`validator.py`) | the capability manifest | two captures that share a pool, `build_manifest`, the self-check | it promises no field the snapshot has not, and finds what it allocated |
| **launcher, file server, self-test** (`launch.py`, `serve.py`, `selftest.py`) | none | start the server with the shim; serve a directory; test | - |

How they interact. The wrappers call the counter at every boundary, while the
allocator and other threads go on producing events. When the outermost capture ends
they call the publication, once per rank, concurrently, over one directory. The
analyzer runs later, in another process, over files only; it numbers the events it
finds (`schema.py:195`) and compares those numbers with ordinals that were computed
during the capture. Nothing but that convention ties the two sides together.

Hard behaviours. Allocator events racing the counter's reads; rings that overflow;
reads that fail; recording that is switched off and on while the counters keep
counting; a capture that raises between a segment's begin and end; several
processes that merge one manifest while any of them fails or is killed; addresses
reused within a capture; segments that grow or vanish before the final layout is taken;
versions of torch that leave out a field, everywhere or in one record; passes that
overwrite each other's marks; caps on what is drawn; boundaries of half-open intervals. `PROJECT.json` lists them under `hazards`, each at its line with the
properties aimed at it.

## 2. The modules

    OrdinalClock <---implements--- TraceCounter <--- TraceCounter_proofs
    ArtifactIndex <--implements--- ArtifactStore <-- ArtifactStore_proofs

    CaptureSession --+
                     +--> CaptureToAnalysis --> MCCapture, CaptureToAnalysis_proofs
    TraceAnalysis ---+
          |
          +--> TraceAnalysis_proofs (also the lemmas on sums, sorts and folds that the proofs of
          |                          SnapshotGate, MemoryMap and CompareRanks use)
          +--> Evidence -------------------> MCEvidence, Evidence_proofs
          +--> WindowReports -> MemoryMap -> MCReports, MemoryMap_proofs
          +--> SnapshotGate ---------------> MCGate, SnapshotGate_proofs

    CompareRanks -> MCCompare, CompareRanks_proofs

**TraceCounter** is `_trace_len` read by read: `f0`, `snap`, `f1` and `final` are the
reads of one call, `dev` the device `_stats_len` visits next. Events of any thread
(`AllocatorEvent`) come between any two. The shim has a loop over devices and sums;
the model keeps the total (`stats`) and subtracts what the loop has `missed`, the
events of devices already visited, which is the same number. `kept` is how
full each device's ring is. `raced`, `lost`, `entry` and `prev` are auxiliary: what
an error may consist of and what was returned before. **OrdinalClock** is
what the wrappers rely on: an answer is the length at some moment of the call, less a
slack settled once.

**ArtifactStore** is `_dump` and `_upsert_manifest` for several processes. Files
are the number of the dump that wrote them (`gen`), `Torn` or `NoFile`; opening a
file for writing tears it, closing completes it. `Failing` has the code's `except`
clauses and the kill of a process, on which the system drops the flock (external).
A manifest that cannot be read (`ReadFails`, or one that is no JSON to begin with) is rebuilt from
the entry at hand, as `shim.py:328` announces. **ArtifactIndex** is the manifest as its readers see it: entries
replaced one stem at a time, or begun again.

**CaptureSession** is one process: the allocator with its trace and heap (external),
the runner that is being captured, and the wrappers. A call of `_trace_len` is one
step there, as `TraceCounter` justifies: it answers the exact length less a slack, or -1. Only the call that
calibrates is two: `Snapshot` takes the snapshot (`marked` is the length it was taken at), any events may come, and
the second reading of the stats settles the slack as what the ring had evicted and any number of the events that raced
it (`Slacks`). What the runner does is external: that a shape is captured once per capture (`NotYet`; the wrapper
does not check it) and that what it bridges or registers was there when the call in progress began (`Present`). Each
wrapper is an action for its entry and one for its exit; an exit also stands for
an exception, since the code uses `finally`, so a shape can end inside a segment.
`artifact` is what the dump writes, with auxiliary fields that remember which block
a pointer was in.

**TraceAnalysis** has the analyzer's pure functions on a trace: `Extract` the allocations that the single
pass over the events leaves (`Births`, with the ends that `Pass` finds; `Pass` is the state after each number
of events, `Apply` what one event does to it, events without an address skipped), `BridgeMatch`, `SlotMatch`,
`Truncated`.
**CaptureToAnalysis** puts the two sides together and states what the analysis of a
dump owes the capture that produced it.

**Evidence** is `analyze` after the lifetimes are known: one action per pass over the
marks, one per bridge with an ordinal, the construction of the findings, and the
verdict of the summary (`Summarise`).
The heaps, windows and bridges are inputs, chosen in Init among what a trace of `End`
events can hold. Percentiles and fractions are computed as the code does, in integers.

**SnapshotGate** follows a snapshot from the capture to the report. `history` is what the
allocators of all devices did, `lost` which field torch leaves out of its dump, at one record
or (`at = 0`) everywhere; `SnapshotOf` is the dump of the two, and both are auxiliary. `Validate` is
the validator on its own history with a loss of its own (`probeLost`), `Capture` the dump, and
`Load`, `FindSidecar`, `Analyze` are the steps of `_analyze_pickle`, each of which may
refuse. The validator asks whether *some* record has a field, the normalisation whether *every*
relevant record has it, and the analysis reports what both allow. The `id` of a normalised
event is its place in the history, so that the properties can say which event it was. An event of the
file is a `Place`, a device and a position in its trace; the two orders of `normalize` are relations on
places (`InFile`, `InTime`), and `List` the events in such an order: of time if every event has one, of
the file otherwise. The sort is stable, so among equal times the order of the file decides.

**WindowReports** is `_build_reports`, one action per window looked at;
`WindowMetrics` does the sweep, counts the findings, and fills the segments, where what
reaches beyond the end of a segment is clipped.

**MemoryMap** adds the page drawn once the reports are made (`Draw`, with or without the
default pool). A rectangle has the place of its bytes when the segments are packed side by
side (`XOf`, `DrawSize`), and the ranks of its first and last ordinal among all the ordinals at which something
happens (`Rank`; time is drawn by rank so that quiet stretches take no room). Allocations
beyond `max_rects` are painted gray below the others, column by column (`Columns`, `Merge`), in the
code's integer arithmetic. This gray is in pixels both ways: an allocation is at least half a pixel wide and high
(`Columns`, `Interval`), and a gap of half a pixel or less is painted over (`Join`). The page is 1.6 pixels high per row
but at most `MaxHeight` (13000), so from about 26000 rows on such gaps are whole rows. To stay in integers a
pixel is counted as twice as many units as the page has rows (`HalfPixel`, `Down`). The rectangles
themselves are in ranks and bytes; that they too are drawn half a pixel wide and high at least is left out.

**CompareRanks** is the two commands that read an artifact directory, one action per
artifact checked and per artifact analysed, while processes dump (`Dump`, whose `Upserted` is the
merge of `_upsert_manifest`) and files vanish or are damaged (`Spoil`, which also stands
for a file that is being rewritten). An artifact is reduced to the windows of its
report, a window to a variant and a number of bytes. `arts` are the entries the command
resolved when it read the manifest, `rows` is `by_rank`; locals are cleared when the command
returns. `before`, `seen`, `disturbed` and `drifted` are auxiliary.

## 3. The runs

Runs that pass:

| run | instance | what it shows |
|---|---|---|
| `trace_counter` | 2 devices, rings of 2 entries, 6 stats increments, 2 snapshots | `CalibrationError`, `OrdinalWithinCall`, `OrdinalsMonotone`, and the step-by-step implementation of `OrdinalClock` |
| `artifact_store` | 2 processes, 2 dumps of one stem each, failures, kills, a manifest that is there and no JSON, reads that fail | `PublishedStaysListed`, `OneEntryPerStem`, `SettledArtifactsMatch`, `ImplementsIndex`, `EveryDumpEnds` |
| `capture_memory` | 2 addresses, blocks of 1 and 2, 6 trace entries (a snapshot marker included), 2 shapes, 1 bridge, 1 registered buffer | `LifetimesRebuilt`, `BridgesAttributed`, `StaticSlotsLabelled` |
| `capture_windows` | 2 captures in one process, 2 shapes of one segment, a ring of 2 entries, a failing read | `WindowsInOrder`, `SegmentsNested`, `OverflowIsReported` |
| `evidence` | heaps of 1 or 2 allocations within 4 events, 2 graph pools, 5 sets of capture windows with or without segment windows, 9 bridge lists | `PreciseNeverDowngraded`, `PreciseOnlyOnEvidence`, `NonReusableOnEvidence`, `LongLivedCrossesWindows`, `SummaryIsSupported` |
| `window_reports` | heaps of 1 or 2 allocations within 5 events, usable, empty and malformed windows; heaps of 3 with findings; 2 adjacent segments, 1 behind a gap, 1 of the default pool; a page 3 pixels wide and 1 or 2 high, 1 rectangle, 2 top findings, 3 bands | `NeverSilentlyDropped`, `PeakIsReached`, `LayoutAtPeakIsExact`; of the map `RectsAreTrue`, `UnderlayIsTrue`, `TopFindingsStandOut` |
| `snapshot_gate` | 2 devices with up to 4 and 2 events in every interleaving, clocks that tick at each or at every other event, torch leaving out each field everywhere or in the first or third record, probed or not by the same or another torch | `LifetimesAreTrue`, `LayoutIsTrue`, `BoundariesSplitTheTrace`, `PeakNeverOverstated`, `OffersWhatBothHave`, `DriftFailsClosed`, `SelfCheckFindsAllocations` |
| `compare_ranks` | 4 stems of 2 ranks, 2 runners and a restarted process, 2 contents, thresholds 0 and 1/2, a baseline or none, 4 dumps and commands together | `AllOrNothing`, `RowsOfNewestDump`, `RegressionsReported`, `UnchangedIsNoRegression`, `SelectionNeverSilent` |

The type invariants of `TraceCounter` and `ArtifactStore` are checked in these runs and proved, those of
`CaptureSession` and `Evidence` are proved; the other modules have properties that say what the
values are, not only of which type.

Why the bounds are enough. A ring of two entries overflows with the third event, and
two devices are the least on which a loop can miss an event; two snapshots are
what a failed and a repeated calibration need. Lost updates need two processes,
and an upsert over an older entry of the same stem needs two dumps. Two addresses and two sizes give every
relation between blocks the code distinguishes: same address, containment, overlap at
different times, neighbours. Two shapes with a segment each give every order of windows
and an exception between them; two captures are what stale records need. For `evidence` and `window_reports` the windows share
ends, contain nothing, lie inside one another's range or have unusable ordinals, and
the lifetimes run over all positions, so that each boundary is met from both sides; one capture window
holds several segments, so that an allocation inside it is long-lived by crossing segments.
Three allocations are what the map needs for a free stretch between two that have no rectangle and
for findings of three impacts of which two are at the top; an allocation may lie in one segment, reach into the
adjacent one, or reach over a gap. A page of 3 pixels has columns wider than a byte's share,
so that one holds the edge of a block; on 2 pixels of height, 4 or 5 rows
are at most half a pixel each, so that one free row is painted over and two are not, and of fewer rows none is. For `snapshot_gate` a lost field matters by whether it is missed
everywhere, in a record that is used or in one that is not; first and third record meet
each of these in some history, and two devices are the least whose traces need merging.
For `compare_ranks`, three dumps and a command show a stem dumped again after that of another process of its rank;
two dumps and two commands show a baseline saved, the data changed, and the baseline loaded.
Bounds that are not parameters of the code are marked `bound` where they are declared.
Deadlock is not checked in runs whose system ends: all captures dumped, all passes made.

Runs that find a disagreement between the code and what the repository says of it:

| run | statement | what the code does |
|---|---|---|
| `evicted_windows` | `README.md:64`: windows before the eviction horizon render empty | kept events are numbered from 0 and windows are not moved, so such a window lies over the first kept events |
| `segment_keys` | `shim.py:122`: a window key is collision-free | segments under a runner of the `bs` axis share keys across shapes |
| `evidence_raised` | `README.md:145`: findings only on real evidence | with the threshold above 2, two windows are taken for a bridge |
| `unknown_runner` | `README.md:45`, `analyzer.py:627`: the runners are standard, breakable, piecewise | windows of the tags `decode`, `prefill`, `frozen_kv_mtp` are omitted |

More oddities showed up that the documentation does not decide, so no run
asks about them: an event of another thread that races the calibration makes all ordinals of the recording too low
(`shim.py:188` says so), so that a bridge of a block born within that slack is given to an earlier user of its address
(`analyzer.py:311`), and the name of a buffer allocated within it before its window to an earlier block
(`analyzer.py:399`): `BridgesAttributed` and `StaticSlotsLabelled` except exactly these, by `BornWithin`, which excepts nothing when
nothing raced; a bridge whose block is freed by the very next event is not matched
(`analyzer.py:311`; `BridgesAttributed` says exactly when a bridge is lost); a trace that fills its ring with its last
event is reported as truncated although nothing was lost (`analyzer.py:1028`); a window in which no
event happened has the peak of what lives across it but an empty layout (`analyzer.py:526`), which is why
`LayoutAtPeakIsExact` speaks of windows with events; a variant that
grows from zero counts as a fraction of one (`analyzer.py:2572`), so a threshold of 1
or more never reports it, and the thresholds checked are below 1; the artifacts of a
rank are merged in the order of their runners' names, so of two runners that both have a
variant (the sidecar holds all windows of the process) the later name wins and not the later
dump, which is why `RowsOfNewestDump` speaks of variants of one runner; the traces of
two devices that have no times, or equal ones, are merged in the order of the file in silence
(`schema.py:194`), which is what `BoundariesSplitTheTrace` excepts; a manifest that cannot
be read is treated like none at all, so its upper bound is lost with a warning
(`analyzer.py:2176`), and the manifest's own verdict that the approach is unsound
(`gantt_feasible`) is not read by the analyzer; when more findings than `max_rects` share the top impact, the larger
allocations win and one of the top may have no rectangle (`analyzer.py:1709` promises them
all), so `TopFindingsStandOut` speaks of as many as fit; on a map of the default pool too, an
allocation outside every segment is drawn as if nothing were packed (`_segment_packer`), and
the map's properties are about those that begin in one; the summary can say "none"
although S3 was marked, when an approximate bridge claimed an allocation that is never
freed, and `SummaryIsSupported` says so.

**Fairness.** Only `EveryDumpEnds` needs it. `FairSpec` assumes that a process that
is not killed takes the next step of its dump: `_dump` is straight-line code
with no wait but the flock, and `Lock` is enabled as soon as the lock is free. Weak
fairness is enough because each process dumps a bounded number of times (one per
capture), so the lock cannot be taken from a waiting process for ever. Failures, kills
and captures are not made fair: nothing forces them. The other components are
checked for safety: whether a server ever captures is not up to this code.

## 4. What is proved

The eight proof modules are checked by TLAPS for every value of the constants, and
independently of the bounds (`MaxStats`, `MaxSnaps`, `MaxGen`, those of `CaptureSession` and
`CompareRanks`), which are at most assumed to be natural numbers. Every inductive invariant was checked
by TLC on the instances of its run before it was proved, but for the two named at the end of this section.

**TraceCounter_proofs.** The calibration reads the stats, takes a snapshot, and reads the
stats again; the offset is the length the snapshot saw less the second reading
(both are equal in a quiet process). `CalibrationError` alone is not inductive: what the
call in progress has found must be known as well. `IInv` adds it as `CallInProgress`
(between the snapshot and the end of the second reading, the trace is what the
snapshot saw, what was evicted, one marker per device and what raced it; what a loop
missed is among what raced), `RingBounds` and, for `OrdinalsMonotone`, `EarlierOrdinals`:
everything returned so far is at most the length when the call in progress began.
From `IInv`: `TypeCorrect`, `CalibrationAccurate`, `OrdinalsWithinCalls`,
`OrdinalsNeverGoBack`, and the refinement `CounterImplementsClock`, where a
calibration maps to `Settle`, the final read to `Answer`, a failure to `GiveUp`.
Assumed: at least one device, rings of at least one entry, `None` no integer.

**ArtifactStore_proofs.** `IInv` says that whoever is between lock and unlock holds
the lock (`LockHeld`), and that what it has read or merged contains every published
stem once and equals the manifest, or nothing after a failed read (`NothingForgotten`). Mutual exclusion
then makes every other process's step harmless, and a killed process leaves nothing
behind but a temporary file. From `IInv`: `TypeCorrect`, `NothingPublishedIsLost`,
`EntriesAreUnique`, and `StoreImplementsIndex` (the rename is `Publish`, every other step a
stutter; after a failed read it is `Rebuild`). Assumed: the markers `Free`, `NoFile`, `Torn` are not confused with
processes, numbers or sets of entries.

`SettledArtifactsAreWhole` needs more (`SettledIInv`): how far the files of the dump under way are those of its
generation (`FilesMatch`), so that they match the entry when the lock is released, and that a
step of one process touches the files of no other stem (`OthersSettled`).

**TraceAnalysis_proofs.** First, what sorting, adding up and folding return. The library states induction of an
operator, which the provers cannot instantiate; `SetInduction` states it of a set, and is proved from the
well-foundedness of the natural numbers, and `FiniteInduction` the same of finite sets. From them: a function defined by recursion from a step
function has the values the recursion says (`RecursionOnNat`); a finite set can be listed in any strict total
order (`OrderedListExists`), and that list is what the model's sort, `SortedBy`, returns (`SortedLists`); a fold over a list is the last of a
sequence of steps that starts with the first value (`FoldExists`); the library's sum over a set is the one that adds one element at a time
(`SetRecursion`, `SumIs`), from which sums of parts, of unions and of renamed sets follow (`SumOfPart`, `SumOfBoth`,
`SumRenamed`), and the same of bytes. `FoldExists` and `SumIs` open the library's own definitions of its folds, so the model uses these as the
runs do.

Then the pass over the events. After n events of the pass of `_extract_allocations`, the allocations among them
that have not met a free of their address are the ones that are open, one per address, and every other has
the ordinal of the first such free (`PassFinds`, by induction over n). So `ExtractPairsFrees`: in a trace of any length,
each allocation ends with the first free at its address after it, or with the trace. It assumes that an
address is freed between two allocations of it (`FreedBetween`), which a trace that
lost its beginning may break, and which the two modules below establish where they use it.

**CaptureToAnalysis_proofs.** Windows are in order because ordinals are, so `IInv` speaks of what was read:
every ordinal of the recording is at most the length of the trace less the slack (`WasRead`), and every window
closed before the current shape began ends before that shape's begin (`ReadsInOrder`). A segment closed late, or
after a shape that raised, must not take another shape's record, so `SegmentsPlaced` says of every closed segment that it
lies in a closed window or belongs to the current shape, and of the pending record the next end will take that
it is the current shape's. From `IInv`: `TypeCorrect`, `WindowsAreInOrder`, `SegmentsAreNested`, whatever reads
fail and however many captures and shapes there are. Assumed: addresses and bounds natural, sizes positive, a ring of at least one entry,
`None` no integer.

What the analysis makes of a dump needs to know how the trace tells the history of the heap. That is
`HistoryInv`: live blocks are disjoint (`Disjoint`); the birth of every live block is in the trace and nothing has
happened at its address since (`BirthsTraced`); a block that is gone was freed by the next event at its
address (`DeathsTraced`); every allocation of the trace is one of these (`AllocsTraced`); memory is handed out again only
after its free (`Successions`). A bridge was taken of a block that was live, and every other block that ever
held its pointer was freed before (`BridgesTraced`); a slot was recorded in a window of its key, after its block was born
(`SlotsTraced`, `SlotsKeyed`). Both speak of the length the trace had, which is the ordinal and the slack, and the slack
can be anything the race left: a block born before the ordinal is found by it however large the slack is, because nothing of its
address lies between its birth and the length; one born after it is what `BornWithin` excepts. The dump inherits all of it
if it kept the whole trace, and has `MaxEntries` events if it did not (`ArtifactTraced`). With `ExtractPairsFrees`
this gives `LifetimesAreRebuilt`, `BridgesAreAttributed`, `StaticSlotsAreLabelled`, and without it `OverflowReported`.

**Evidence_proofs.** `IInv` says what each pass leaves for the next: "precise" stands exactly on the allocations
hit by the bridges applied so far, "precise-window" on what overlaps two windows, the guess only where no evidence exists
(`MarksAreFounded`); without evidence the guess survives on what is never freed (`GuessKept`); `s3` and the
findings say what the marks say (`Verdicts`). From it `TypeCorrect` and all five properties of the run:
`PreciseStays`, `PreciseIsFounded`, `FindingsAreFounded`, `SummaryIsFounded`, `LongLivedCross`. `FindingsAreFounded`
assumes a threshold of at most two windows, without which the run `evidence_raised` refutes it, and
`LongLivedCross` one of at least two. Assumed of the inputs (and by TLC checked of those it is given): blocks alive
together do not share an address, each event allocates one block, windows of one kind are disjoint. These are what
`LifetimesRebuilt` and `WindowsInOrder` say of the trace and the sidecar; what windows of segments add
is that a graph captures them one after the other. Percentiles are opaque here: the theorems
hold however they are computed.

**CompareRanks_proofs.** `IInv` has what each step needs of the ones before: the manifest lists stems in the order
of their last dumps (`DirectoryOK`); the rows gathered are those of the artifacts analysed so far, each variant with the
last row of the last artifact of its rank (`Rebuilt` in `ComparisonOK`), unless something was dumped since the
manifest was read (`disturbed`); a baseline not drifted from has the rows that a comparison would find now (`BaselineOK`);
a selection has analysed every artifact it has passed, or its exit code is not 0 (`SelectionOK`).
`OrderedSeq` says what the sort by rank and runner returns, and that it keeps the order of dumps.
From `IInv`, all five properties of the run: `NewestDumpWins`, `RegressionsAreReported`,
`OwnBaselinePasses`, `CompareIsAllOrNothing`, `SelectionIsNeverSilent`. Assumed: ranks, the places of runners' names and bytes are natural numbers,
thresholds are fractions below 1 (see the oddities above).

**SnapshotGate_proofs.** `IInv` says that each file and each step is what the ones before it make it: the manifest is that of
the torch probed (`ManifestOK`), the pickle that of the capture (`RawOK`), what is analyzed is the pickle normalised
(`SnapOK`), and the analysis ends with a reason to refuse or with what it reports (`OutcomeOK`). It is
inductive as soon as it is stated; the work is in the functions between. `CapabilitiesTell`, `LayoutTells` and `HistoryTells` say
which losses the manifest and the normalised snapshot show; a field left out of one record is still
seen by the probe because a second record has it. From them `DriftClosed` and `OffersBoth`. `ListWritten` says that sorting
loses no event and doubles none; `OrderKept` that events of a device, and events at different times,
keep their order. So the events analyzed are the history renumbered, those at an address in the order in
which they happened, and with `ExtractPairsFrees` the lifetimes reported are the true ones: `LifetimesTrue`. `BoundariesSplit` counts:
if the events before the boundary come first, they fill the first places (`FirstOnes`). `BlocksTrue` is the
part of `LayoutIsTrue` that says where blocks are; `LayoutTrue` adds the sums of their sizes by state. `PeakNotOverstated`
compares sums: the peak over the reported lifetimes is reached after some event, what lives then is what the
history held after that event, and without lifetimes the active bytes reported are the last of these. `SelfCheckFinds`: blocks
without an address are placed one after the other from the start of their segment, and true segments have no gaps between blocks, so each is found where
it is. Assumed of histories: time does not go back, an address belongs to one device and is freed before it is
allocated again, sizes are positive; of segments: they do not overlap, and there is one; of the
validator: its history holds two blocks in one segment, as its two captures do. TLC checks these of
the instance it is given.

**MemoryMap_proofs.** `MapImplementsReports`: drawing the page is a stutter of the reports, so what is proved of
`WindowReports` holds of `MapSpec`, which the run checks. `ReportsInv` says that the input is one of those assumed
(`Read`), that every report is the entry of a usable window under its runner and every omission has a reason (`Placed`), and, for
every window, that the places at which it was looked at are as many as those at which it was reported or left out
(`Counted`). `NeverSilentlyDropped` speaks of a window *as often as it was given*: the same record twice is two windows. Each step
adds one place on either side or, for a usable breakable capture, none.

- *The peak* (`PeakReached`). The sweep is a sequence of states, one for each end of a clipped lifetime (`Sweeps`). After each,
  `live` is the sum of what began less what ended (`SweepAddsUp`), which is the bytes of the lifetimes begun and not ended
  (`LiveAfterAll`). The order of ties matters: starts before ends of the same ordinal, so the largest sum at an ordinal is
  met before what ends there is taken off. But an allocation that ends at the ordinal at which another begins is not live with it, and a
  peak over both would overstate: this cannot happen inside a window, because an event begins or ends one lifetime, and
  only what is never freed shares an end.
- *The layout* (`LayoutExact`). After each allocation in address order, the bytes covered up to the cursor and the longest free
  stretch up to it are those of the union of the allocations seen (`FilledStep`), overlapping ones, and ones reaching past the
  segment, included.
- *Rectangles* (`RectanglesTrue`). Packed places are the number of addresses below (`AddressesCounted`, `XOfIsPlace`), so
  two addresses of a stretch of adjacent segments keep their distance and the drawn width ends at its end (`RunEndIsGap`,
  `RectWide`). A row is the time between two breakpoints, and the ranks of a lifetime enclose the rows it lives in
  (`RanksInOrder`, `RanksReached`, `RectTall`).
- *Top findings* (`FindingsStandOut`). What `Strong` selects by the impact of the last of the top findings is what is exceeded by fewer
  than `TopFindings` (`StrongImpactIs`, `StrongIsTop`); sorted first, all of it is shown when it fits (`StrongFirst`).
- *The underlay* (`UnderlayTrue`). Merging the intervals of a column from the top keeps all that they cover, and adds only
  gaps of at most half a pixel between the end of one and the begin of another (`Near`, `MergeTrue`, over the steps of
  `Join`); pixels keep the order of ranks, whatever height the page has (`PixelsAre`); a rectangle's columns are those its pixels touch, by the bounds of
  integer division (`ColumnBounds`), and at least one even for half a pixel (`ByteColumns`, `ColumnsMeet`).

`MapInv` adds to `ReportsInv` only that a page drawn is the one `Page` computes of what was analysed. Assumed of the input:
windows are records whose ordinals are integers or missing; allocations have positive sizes and lifetimes that end after they
begin, by the end of the trace; an event begins or ends one of them; findings are of allocations of the graph pool, which is where
`_build_findings` looks (`analyzer.py:782`); the page has positive sizes; segments of a pool, and of both pools, do not overlap and are not empty. The first part is what `LifetimesAreRebuilt`
proves of the analysis of a dump. TLC checks all of it of the inputs of the run.

Only model-checked: `EveryDumpEnds`, since liveness is outside the prover's reach, and the four statements that are refuted.
All other properties of the runs are proved. `ReportsInv` and `MapInv` speak of all windows there may be, so TLC checks on the
instances what they imply and not them.

## 5. What is not modelled

- A capture nested in another one (`shim.py:430`): if a runner overrode `capture` and called
  its parent's, the inner wrapper would clear the records, dump and stop the recording while the
  outer one is under way. Whether a runner does is decided outside this repository;
  `CaptureSession` has one capture at a time.
- How the wrappers are installed. Each target module is executed once and patched right after,
  under Python's import lock for it; `_cgmem` and `_installed` keep a method from being
  wrapped twice. What is installed is `CaptureSession`.
- Several devices in the models of captures, where time order and trace order agree; what
  two devices do to a trace is in `SnapshotGate`.
- Names and labels; requested sizes, frames, streams and fingerprints of a snapshot.
- The listing of allocations in a report, which is capped, and `_bridge_persistence`, which
  counts bridges by the segments they are recorded between.
- Of the map: the half pixel a rectangle is wide and high at least (`RectsAreTrue` is about bytes and ranks; the gray below has it),
  the rounding of floats, the brackets of size buckets, ticks, labels, legend, margins, the hatching of a
  truncated trace, the page of a degraded report and the script.
- Output of the commands that cannot be written: a baseline is saved before the report, so a
  report that fails to be written leaves the new baseline behind.
- The launcher and the file server, which keep no state; the validator's captures, which need a
  GPU and are one history of allocations here; the self-test.

## 6. Plan

Done, in this order:

1. Counter and clock; proofs of the invariant and the refinement.
2. Publication and index; proofs of the invariants and the refinement.
3. Capture session, trace analysis and the two together; proofs of the order of windows and segments.
4. Evidence, findings and the summary; proofs of them all.
5. Window reports.
6. Comparison of ranks and selection of one.
7. Normalisation, availability and the validator's manifest.
8. The memory map.
9. Proofs about what the analyzer makes of a capture, about comparisons, and about the gate.
10. Lemmas on sums, sorts and folds; proofs about the sums of the gate, the window reports and the map.

Left, the most useful first:

11. A capture nested in another one, with a stack of wrappers in `CaptureSession`. To state: one
    dump per outermost capture, whose windows are all of one recording.
12. `_bridge_persistence` and the capped listings in `WindowReports`.
