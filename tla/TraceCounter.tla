---------------------------- MODULE TraceCounter ----------------------------
(***************************************************************************)
(* The O(1) event ordinal of shim.py (_trace_len, _stats_len,              *)
(* _snapshot_len) over the CUDA caching allocator.                         *)
(*                                                                         *)
(* torch has no event counter, so the shim derives the length of the trace *)
(* from cumulative memory_stats, read one device at a time, plus an offset *)
(* calibrated once per recording against a real snapshot.  Allocator       *)
(* events of other threads run between any two of those reads.             *)
(*                                                                         *)
(* Sums over devices are kept as totals.  What a device-by-device sum      *)
(* misses is the events of devices it has already visited; missed counts   *)
(* them.  Per device the model keeps how full the ring is.                 *)
(***************************************************************************)
EXTENDS Integers, FiniteSets

CONSTANTS
    NDev,        \* torch.cuda.device_count()
    MaxEntries,  \* capacity of one device's trace ring
    None,        \* Python's None
    MaxStats,    \* bound: total of the cumulative allocator stats
    MaxSnaps     \* bound: snapshots taken in one recording

ASSUME NDevAssumption == NDev \in Nat \ {0}
ASSUME MaxEntriesAssumption == MaxEntries \in Nat \ {0}
ASSUME NoneAssumption == None \notin Int
ASSUME BoundsAssumption == MaxStats \in Nat /\ MaxSnaps \in Nat

Devices == 0 .. NDev - 1

(* Trace entries of one stats increment: an allocation or a cudaMalloc or   *)
(* cudaFree is one entry, a free is two (free_requested, free_completed).   *)
Weights == {1, 2}

VARIABLES
    recording,  \* _record_memory_history is enabled
    recorded,   \* entries appended since recording was enabled, all devices
    evicted,    \* how many of those a full ring has overwritten
    kept,       \* entries each device's ring holds
    stats,      \* allocated + 2*freed + device allocs and frees, all devices
    base,       \* _o1["base"]
    snapCalls   \* _o1["snap_calls"]

VARIABLES       \* the call of _trace_len in progress
    pc,         \* which read comes next
    dev,        \* next device of the loop of _stats_len
    missed,     \* entries of devices that loop has already visited
    f0, real,   \* locals of _trace_len
    result      \* what the last call returned

VARIABLES       \* auxiliary: read by properties only
    entry,      \* recorded when the call began
    raced,      \* entries appended between the snapshot and base being set
    lost,       \* entries evicted when the calibrating snapshot was taken
    prev        \* greatest ordinal returned in this recording, -1 if none

ring == <<recorded, evicted, kept>>
o1   == <<base, snapCalls>>
call == <<pc, dev, missed, f0, real, result>>
aux  == <<entry, raced, lost, prev>>
vars == <<recording, ring, stats, o1, call, aux>>

Init ==
    /\ recording = FALSE
    /\ recorded = 0 /\ evicted = 0 /\ kept = [d \in Devices |-> 0]
    /\ stats = 0 /\ base = None /\ snapCalls = 0
    /\ pc = "idle" /\ dev = 0 /\ missed = 0 /\ f0 = 0 /\ real = 0
    /\ result = None
    /\ entry = 0 /\ raced = 0 /\ lost = 0 /\ prev = -1

-----------------------------------------------------------------------------
(* The allocator (external).                                               *)

LeastOf(a, b) == IF a <= b THEN a ELSE b

(* w new entries in a ring that holds k: what is held, what falls out.     *)
Held(k, w)   == LeastOf(k + w, MaxEntries)
Fallen(k, w) == k + w - Held(k, w)

(* An allocation, a free or a segment operation on device d, by any thread. *)
AllocatorEvent(d, w) ==
    /\ stats + w <= MaxStats
    /\ stats' = stats + w
    /\ IF recording
       THEN /\ recorded' = recorded + w
            /\ evicted' = evicted + Fallen(kept[d], w)
            /\ kept' = [kept EXCEPT ![d] = Held(@, w)]
       ELSE UNCHANGED ring
    /\ missed' = IF d < dev THEN missed + w ELSE missed
    /\ raced' = IF pc = "f1" THEN raced + w ELSE raced
    /\ UNCHANGED <<recording, o1, pc, dev, f0, real, result, entry, lost, prev>>

-----------------------------------------------------------------------------
(* Recording                                                               *)

(* What _start_recording leaves in _o1["base"].                            *)
StaleBase(b) == b
FreshBase(b) == None

(* _start_recording: enabling clears the rings, the stats keep counting.   *)
StartRecording ==
    /\ pc = "idle"
    /\ recording' = TRUE
    /\ recorded' = 0 /\ evicted' = 0 /\ kept' = [d \in Devices |-> 0]
    /\ base' = FreshBase(base) /\ snapCalls' = 0
    /\ raced' = 0 /\ lost' = 0 /\ prev' = -1
    /\ UNCHANGED <<stats, call, entry>>

StopRecording ==
    /\ pc = "idle" /\ recording
    /\ recording' = FALSE
    /\ UNCHANGED <<ring, stats, o1, call, aux>>

-----------------------------------------------------------------------------
(* _trace_len, called from the wrappers while recording is on              *)

(* Calibrate at first use only.                                            *)
AlwaysCalibrate(b) == TRUE
MustCalibrate(b)   == b = None

Call ==
    /\ pc = "idle" /\ recording
    /\ pc' = IF MustCalibrate(base) THEN "f0" ELSE "final"
    /\ dev' = 0 /\ missed' = 0
    /\ entry' = recorded
    /\ UNCHANGED <<recording, ring, stats, o1, f0, real, result, raced, lost, prev>>

(* Whether the loop of _stats_len goes on, and one iteration of it.        *)
OneDeviceMore == dev <= NDev
MoreDevices   == dev < NDev

ReadDevice ==
    /\ pc \in {"f0", "f1", "final"}
    /\ MoreDevices
    /\ dev' = dev + 1
    /\ UNCHANGED <<recording, ring, stats, o1, pc, missed, f0, real, result, aux>>

(* What the finished loop returns: the cumulative stats as they were read,  *)
(* plus one marker per device for every snapshot the shim has taken.        *)
StatsLenNoMarkers == stats - missed
StatsLen == stats - missed + snapCalls * NDev

FinishF0 ==
    /\ pc = "f0" /\ dev = NDev
    /\ f0' = StatsLen
    /\ pc' = "snap"
    /\ dev' = 0 /\ missed' = 0
    /\ UNCHANGED <<recording, ring, stats, o1, real, result, aux>>

(* _snapshot_len: the rings as they are, then one marker on every device.  *)
Snapshot ==
    /\ pc = "snap" /\ snapCalls < MaxSnaps
    /\ real' = recorded - evicted
    /\ recorded' = recorded + NDev
    /\ evicted' = evicted + Cardinality({d \in Devices : kept[d] = MaxEntries})
    /\ kept' = [d \in Devices |-> Held(kept[d], 1)]
    /\ snapCalls' = snapCalls + 1
    /\ pc' = "f1"
    /\ lost' = evicted /\ raced' = 0
    /\ UNCHANGED <<recording, stats, base, dev, missed, f0, result, entry, prev>>

(* real - (f0 if f0 == f1 else f1)                                         *)
OffsetWithMarkers(r, a, b) == r - (IF a = b THEN a ELSE b + NDev)
Offset(r, a, b)            == r - (IF a = b THEN a ELSE b)

FinishF1 ==
    /\ pc = "f1" /\ dev = NDev
    /\ base' = Offset(real, f0, StatsLen - NDev)
    /\ pc' = "final"
    /\ dev' = 0 /\ missed' = 0 /\ f0' = 0 /\ real' = 0
    /\ UNCHANGED <<recording, ring, stats, snapCalls, result, aux>>

FinishFinal ==
    /\ pc = "final" /\ dev = NDev
    /\ result' = StatsLen + base
    /\ prev' = IF result' > prev THEN result' ELSE prev
    /\ pc' = "idle"
    /\ dev' = 0 /\ missed' = 0 /\ entry' = 0
    /\ UNCHANGED <<recording, ring, stats, o1, f0, real, raced, lost>>

(* An exception in any read: -1, and base is what it was.                  *)
Fail ==
    /\ pc # "idle"
    /\ result' = -1
    /\ pc' = "idle"
    /\ dev' = 0 /\ missed' = 0 /\ f0' = 0 /\ real' = 0 /\ entry' = 0
    /\ raced' = IF base = None THEN 0 ELSE raced
    /\ lost' = IF base = None THEN 0 ELSE lost
    /\ UNCHANGED <<recording, ring, stats, o1, prev>>

Next ==
    \/ \E d \in Devices, w \in Weights : AllocatorEvent(d, w)
    \/ StartRecording
    \/ StopRecording
    \/ Call
    \/ ReadDevice
    \/ FinishF0
    \/ Snapshot
    \/ FinishF1
    \/ FinishFinal
    \/ Fail

Spec == Init /\ [][Next]_vars

-----------------------------------------------------------------------------
TypeOK ==
    /\ recording \in BOOLEAN
    /\ recorded \in Nat /\ evicted \in Nat
    /\ kept \in [Devices -> 0 .. MaxEntries]
    /\ stats \in Nat
    /\ base \in Int \cup {None} /\ snapCalls \in Nat
    /\ pc \in {"idle", "f0", "snap", "f1", "final"}
    /\ dev \in 0 .. NDev /\ missed \in Nat
    /\ f0 \in Int /\ real \in Int /\ result \in Int \cup {None}
    /\ entry \in Nat /\ raced \in Nat /\ lost \in Nat /\ prev \in Int

Calibrated == recording /\ base # None

(* The offset a perfect calibration would have found, less the one in use:  *)
(* by how much every ordinal of this recording is too low.                 *)
BaseError == recorded - (stats + snapCalls * NDev) - base

(* "Either way the base is exact unless an allocator event raced between    *)
(* the two reads (error <= that)" (shim.py, _trace_len): the offset is      *)
(* never too high, and too low by at most the entries that raced the        *)
(* calibration and those the rings had already dropped when it ran.         *)
CalibrationError == Calibrated => BaseError \in 0 .. lost + raced

(* A call that returns an ordinal returns the length of the trace at some   *)
(* moment of the call, less the error of the calibration: no boundary is    *)
(* dated before its call or after its return.                               *)
OrdinalWithinCall ==
    [][FinishFinal => result' \in entry - BaseError .. recorded - BaseError]_vars

(* Ordinals of one recording never go back, whatever races the reads or     *)
(* overflows the rings, so that begin_ord <= end_ord for every window whose *)
(* two reads succeeded.                                                    *)
OrdinalsMonotone == [][FinishFinal => result' >= prev]_vars

-----------------------------------------------------------------------------
(* Why those hold: the invariant that is inductive.                        *)

(* What the calibration in progress has found: pc says which reads are     *)
(* done, and between the snapshot and the end of the second read of the    *)
(* stats the trace is what the snapshot saw plus what came after it.       *)
CallInProgress ==
    /\ pc # "idle" => recording
    /\ pc \in {"f0", "snap", "f1"} => base = None
    /\ pc = "final" => base # None
    /\ pc \in {"idle", "snap"} => dev = 0 /\ missed = 0
    /\ pc = "f1" => /\ recorded = real + lost + NDev + raced
                    /\ real >= 0
                    /\ missed <= raced
    /\ pc # "idle" => entry <= recorded
    /\ pc = "final" => missed <= recorded - entry

(* What was returned so far is at most what any later read can return.     *)
EarlierOrdinals ==
    /\ recording /\ base = None => prev = -1
    /\ Calibrated =>
         /\ BaseError <= recorded
         /\ pc = "final" => BaseError <= recorded - missed
         /\ prev = -1 \/ prev <= (IF pc = "idle" THEN recorded ELSE entry) - BaseError

RingBounds == evicted <= recorded

IInv ==
    /\ TypeOK
    /\ RingBounds
    /\ CallInProgress
    /\ CalibrationError
    /\ EarlierOrdinals

-----------------------------------------------------------------------------
(* The counter implements the clock the wrappers rely on.                  *)

Clock == INSTANCE OrdinalClock WITH
    on     <- recording,
    len    <- recorded,
    slack  <- IF Calibrated THEN BaseError ELSE None,
    busy   <- pc # "idle",
    from   <- entry,
    answer <- result

ImplementsClock == Clock!Spec

=============================================================================
