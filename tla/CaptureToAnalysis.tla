-------------------------- MODULE CaptureToAnalysis -------------------------
(***************************************************************************)
(* The capture and its analysis together: what the analyzer concludes from *)
(* a dumped artifact, against what happened in the process that dumped it. *)
(* The auxiliary born of a bridge or a slot is the block its pointer was   *)
(* in when the wrapper recorded it.                                        *)
(***************************************************************************)
EXTENDS CaptureSession, TraceAnalysis

Dumped == artifact # None
Whole  == Dumped /\ artifact.evicted = 0

Allocs  == Extract(artifact.events)
Windows == ToSet(artifact.windows)

(* Rebuilding lifetimes from the events finds every block born in the       *)
(* recording, with the event that freed it, and nothing else: frees of      *)
(* older blocks and the second entry of a free create and end nothing.     *)
LifetimesRebuilt ==
    Whole =>
      Allocs = artifact.past \cup
               {[addr |-> b.addr, size |-> b.size, alloc |-> b.born,
                 free |-> Len(artifact.events)] : b \in {h \in artifact.heap : h.born # Old}}

(* Two reads that succeeded are in the order they were made: a window ends  *)
(* after it begins and before the next one begins.                         *)
InOrder(ws) ==
    \A i \in DOMAIN ws :
        /\ ws[i].begin >= 0 /\ ws[i].end >= 0 => ws[i].begin <= ws[i].end
        /\ \A j \in DOMAIN ws :
             i < j /\ ws[i].end >= 0 /\ ws[j].begin >= 0 => ws[i].end <= ws[j].begin

WindowsInOrder == Dumped => InOrder(artifact.windows)

(* Every segment that was closed lies inside the window of the shape it was *)
(* captured for, also after a capture_one_shape that raised in a segment.  *)
Encloses(w, s) ==
    /\ w.tokens = s.tokens
    /\ w.begin >= 0 /\ s.begin >= 0 => w.begin <= s.begin
    /\ w.end >= 0 /\ s.end >= 0 => s.end <= w.end

Nested(ss, ws) == \A i \in DOMAIN ss : \E j \in DOMAIN ws : Encloses(ws[j], ss[i])

SegmentsNested == Dumped => Nested(artifact.segments, artifact.windows)

(* A block that was born after the ordinal that was read, because that was *)
(* too low: possible only by fewer events than raced the calibration.      *)
BornWithin(born, ord) == ord < born /\ born < ord + artifact.slack

(* A bridge is attributed to the block it was taken of and never to another *)
(* user of the address; it is lost only if the next event freed that block  *)
(* or there was no next event.  Only a bridge of a block younger than the   *)
(* slack of the ordinals can go astray: none, if nothing raced.            *)
BridgesAttributed ==
    Whole => \A b \in ToSet(artifact.bridges) :
        b.ord >= 0 =>
          \/ BridgeMatch(Allocs, b) = b.born
          \/ /\ BridgeMatch(Allocs, b) = NoMatch
             /\ \E a \in Allocs : a.alloc = b.born /\ a.free = b.ord
          \/ BornWithin(b.born, b.ord)

(* The name of a buffer that stays allocated lands on that buffer, however  *)
(* its address was used before, once anything happened in its window; again *)
(* unless the buffer was allocated within the slack before its window.     *)
StaticSlotsLabelled ==
    Whole => \A s \in artifact.slots, w \in Windows :
        /\ s.key = w.key /\ Usable(w)
        /\ \E h \in artifact.heap : h.born = s.born /\ s.ptr \in BlockRange(h)
        => \/ SlotMatch(Allocs, Windows, s) = s.born
           \/ w.begin >= w.end /\ SlotMatch(Allocs, Windows, s) = NoMatch
           \/ \E v \in Windows : v.key = s.key /\ Usable(v) /\ BornWithin(s.born, v.begin)

(* A trace that lost events is reported as truncated.                      *)
OverflowIsReported ==
    Dumped /\ artifact.evicted > 0 => Truncated(artifact.events, MaxEntries)

-----------------------------------------------------------------------------
(* Why windows are in order: the invariant that is inductive.              *)

(* An ordinal that was read in this recording, unless the read failed.     *)
WasRead(ord) == ord >= 0 => slack # None /\ ord <= Len(trace) - slack

Begun == at \in {"shape", "segment"}

(* What was read of the windows closed, and since the current one began.   *)
ReadsInOrder ==
    /\ \A i \in DOMAIN windows : WasRead(windows[i].end)
    /\ Begun =>
         /\ WasRead(shape.begin)
         /\ \A i \in DOMAIN windows :
               windows[i].end >= 0 /\ shape.begin >= 0 => windows[i].end <= shape.begin

(* A record of the current shape, still open.                              *)
Inside(s) == s.tokens = shape.tokens /\ (shape.begin >= 0 /\ s.begin >= 0 => shape.begin <= s.begin)

(* A closed segment lies in a closed window or belongs to the current one, *)
(* and so does the pending record that the next end will take.             *)
SegmentsPlaced ==
    /\ at = "segment" => Inside(pending[Len(pending)])
    /\ \A i \in DOMAIN segments :
         /\ WasRead(segments[i].end)
         /\ \/ Begun /\ Inside(segments[i])
            \/ \E j \in DOMAIN windows : Encloses(windows[j], segments[i])

IInv ==
    /\ TypeOK
    /\ InOrder(windows) /\ ReadsInOrder /\ SegmentsPlaced
    /\ WindowsInOrder /\ SegmentsNested

-----------------------------------------------------------------------------
(* Why lifetimes are right: what the trace tells of the heap and of the     *)
(* blocks that are gone.  An ordinal o is the place o + 1 of the trace.     *)

Disjoint(hp) == \A b, c \in hp : b # c => BlockRange(b) \cap BlockRange(c) = {}

(* A live block was born where it says, if in this recording, and nothing  *)
(* has happened at its address since.                                      *)
BirthsTraced(tr, hp) ==
    \A b \in hp :
        /\ b.born # Old => b.born < Len(tr) /\ tr[b.born + 1] = Event("alloc", b)
        /\ \A k \in DOMAIN tr : k > b.born + 1 => tr[k].addr # b.addr

(* So was a block that is gone, and its free is the next event there.      *)
DeathsTraced(tr, ps) ==
    \A r \in ps :
        /\ r.alloc < r.free /\ r.free < Len(tr)
        /\ tr[r.alloc + 1] = Event("alloc", r) /\ tr[r.free + 1] = Event("free_requested", r)
        /\ \A k \in DOMAIN tr : r.alloc + 1 < k /\ k <= r.free => tr[k].addr # r.addr

AllocsTraced(tr, hp, ps) ==
    \A i \in DOMAIN tr :
        IsAlloc(tr[i]) => (\E b \in hp : b.born = i - 1) \/ (\E r \in ps : r.alloc = i - 1)

(* Memory of a block that is gone was handed out again after its free.     *)
Successions(hp, ps) ==
    \A b \in hp, r \in ps : BlockRange(b) \cap BlockRange(r) # {} => r.free <= b.born

Traced(tr, hp, ps) ==
    /\ Disjoint(hp)
    /\ BirthsTraced(tr, hp) /\ DeathsTraced(tr, ps) /\ AllocsTraced(tr, hp, ps)
    /\ Successions(hp, ps)

(* A bridge was taken of a block that was live, and of which no other block *)
(* that ever held the pointer was: also not one born by the next event.    *)
(* The length of the trace was then the ordinal and the slack e.           *)
BridgeTraced(tr, hp, b, e) ==
    /\ b.ord + e <= Len(tr)
    /\ b.born # Old =>
         /\ b.born < b.ord + e /\ IsAlloc(tr[b.born + 1]) /\ b.ptr \in BlockRange(tr[b.born + 1])
         /\ \A k \in DOMAIN tr :
               b.born + 1 < k /\ k <= b.ord + e => tr[k].addr # tr[b.born + 1].addr
    /\ \A i \in DOMAIN tr :
         IsAlloc(tr[i]) /\ i <= b.ord + e + 1 /\ b.ptr \in BlockRange(tr[i]) /\ i # b.born + 1 =>
           \E k \in i + 1 .. b.born + 1 : tr[k].act = "free_requested" /\ tr[k].addr = tr[i].addr
    /\ b.ord + e = Len(tr) => \E h \in hp : h.born = b.born /\ b.ptr \in BlockRange(h)

BridgesTraced(tr, hp, bs, e) ==
    \A i \in DOMAIN bs : bs[i].ord >= 0 => e # None /\ BridgeTraced(tr, hp, bs[i], e)

(* A slot was recorded in a window of its key, after its block was born.    *)
BornBefore(s, w, e) == s.key = w.key /\ w.begin >= 0 => e # None /\ s.born < w.begin + e

SlotsTraced(ss, ws, e) == \A s \in ss : \A i \in DOMAIN ws : BornBefore(s, ws[i], e)

EndsTraced(tr, ws) == \A i \in DOMAIN ws : ws[i].end <= Len(tr)

SlotsKeyed ==
    \A s \in slots : (\E i \in DOMAIN windows : windows[i].key = s.key) \/ (Begun /\ shape.key = s.key)

(* The same of the process while it records ...                            *)
RecordingTraced ==
    recording =>
      /\ Traced(trace, heap, past)
      /\ SlotsKeyed
      /\ BridgesTraced(trace, heap, bridges, slack) /\ SlotsTraced(slots, windows, slack)
      /\ Begun => \A s \in slots : BornBefore(s, shape, slack)

(* ... and of a dump, if it kept the whole trace.                          *)
ArtifactTraced ==
    Dumped =>
      /\ artifact.events \in Seq(Events)
      /\ artifact.heap \subseteq Blocks /\ artifact.past \subseteq PastBlocks
      /\ artifact.windows \in Seq(WindowRecords)
      /\ artifact.bridges \in Seq(BridgeRecords) /\ artifact.slots \subseteq SlotRecords
      /\ artifact.slack \in Nat \cup {None}
      /\ artifact.evicted > 0 => Len(artifact.events) = MaxEntries
      /\ artifact.evicted = 0 =>
           /\ Traced(artifact.events, artifact.heap, artifact.past)
           /\ BridgesTraced(artifact.events, artifact.heap, artifact.bridges, artifact.slack)
           /\ SlotsTraced(artifact.slots, artifact.windows, artifact.slack)
           /\ EndsTraced(artifact.events, artifact.windows)

HistoryInv ==
    /\ recording <=> at # "out"
    /\ Disjoint(heap)
    /\ RecordingTraced
    /\ ArtifactTraced

-----------------------------------------------------------------------------
(* What the documentation says and the code does not do.                   *)

(* README.md:64: "windows before the eviction horizon render empty".  No    *)
(* allocation begins in a window all of whose events were evicted, wherever *)
(* in the trace its ordinals, less exact by the slack, really were.        *)
EvictedWindowsEmpty ==
    Dumped => \A w \in Windows :
        Usable(w) /\ w.begin <= w.end /\ w.end + artifact.slack <= artifact.evicted =>
          ~ \E a \in Allocs : w.begin <= a.alloc /\ a.alloc < w.end

(* shim.py:122: a window key is a "stable, collision-free identity for one  *)
(* capture window"; segments have keys of the same function.               *)
WindowKeysUnique ==
    \A i, j \in DOMAIN segments : segments[i].key = segments[j].key => i = j

=============================================================================
