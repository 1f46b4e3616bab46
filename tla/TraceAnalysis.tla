---------------------------- MODULE TraceAnalysis ---------------------------
(***************************************************************************)
(* How the analyzer reads a dumped trace (schema.py, analyzer.py): events  *)
(* are numbered by their place in the trace that was kept, allocations are *)
(* rebuilt from them, and the sidecar's windows, bridges and slots are     *)
(* matched to allocations by those numbers.                                *)
(*                                                                         *)
(* An event is [act, addr, size]; a trace is a sequence of events in time  *)
(* order, of one device.  Ordinals start at 0, positions at 1.             *)
(***************************************************************************)
EXTENDS Integers, Sequences, SequencesExt, FiniteSets

(* Python's sorted: the elements of a set in the strict total order R.     *)
SortedBy(S, R) ==
    [k \in 1 .. Cardinality(S) |->
        CHOOSE x \in S : Cardinality({y \in S : <<y, x>> \in R}) = k - 1]

(* The bytes of some allocations, or of some blocks.                       *)
BytesIn(S) == MapThenSumSet(LAMBDA a : a.size, S)

NoMatch == -1

IsAlloc(ev) == ev.act = "alloc"

IsFreeAtLast(ev) == ev.act \in {"free", "free_completed"}
IsFree(ev)       == ev.act \in {"free", "free_requested", "free_completed"}

(* _extract_allocations: one pass over the events.  open holds, per        *)
(* address, the positions of the allocations not freed yet, newest last;   *)
(* freed the ordinal that ended each position's lifetime, the end of the   *)
(* trace if none did.                                                      *)
Free1(state, i, addr) ==
    IF state.open[addr] = <<>> THEN state
    ELSE [open  |-> [state.open EXCEPT ![addr] = Front(@)],
          freed |-> [state.freed EXCEPT ![Last(state.open[addr])] = i - 1]]

Allocate1(state, i, addr) ==
    [open |-> [state.open EXCEPT ![addr] = Append(@, i)], freed |-> state.freed]

Apply(state, i, ev) ==
    IF ev.addr < 0 THEN state
    ELSE IF IsAlloc(ev) /\ ev.size > 0 THEN Allocate1(state, i, ev.addr)
    ELSE IF IsFree(ev) THEN Free1(state, i, ev.addr)
    ELSE state

Unread(events) ==
    [open  |-> [a \in {events[i].addr : i \in DOMAIN events} |-> <<>>],
     freed |-> [i \in DOMAIN events |-> Len(events)]]

(* The state after each number of events.                                  *)
Pass(events) ==
    LET state[i \in 0 .. Len(events)] ==
            IF i = 0 THEN Unread(events) ELSE Apply(state[i - 1], i, events[i])
    IN  state

Births(events) == {i \in DOMAIN events : IsAlloc(events[i]) /\ events[i].addr >= 0 /\ events[i].size > 0}

Extract(events) ==
    LET freed == Pass(events)[Len(events)].freed
    IN  {[addr |-> events[i].addr, size |-> events[i].size,
          alloc |-> i - 1, free |-> freed[i]] : i \in Births(events)}

Holds(a, ptr) == a.addr <= ptr /\ ptr < a.addr + a.size

(* Python's next(...) over candidates in trace order, or NoMatch.          *)
FirstByAlloc(cands) ==
    IF cands = {} THEN NoMatch
    ELSE (CHOOSE a \in cands : \A b \in cands : a.alloc <= b.alloc).alloc

(* _apply_bridges: the allocation whose lifetime contains the ordinal of   *)
(* the bridge, by its exact address or else by containment.  Allocations   *)
(* are named by their alloc ordinal.                                       *)
LiveAtAnyTime(a, ord) == TRUE
LiveAt(a, ord)        == a.alloc <= ord /\ ord < a.free

BridgeMatch(allocs, b) ==
    LET exact == {a \in allocs : a.addr = b.ptr /\ LiveAt(a, b.ord)}
        wider == {a \in allocs : Holds(a, b.ptr) /\ LiveAt(a, b.ord)}
    IN  IF exact # {} THEN FirstByAlloc(exact) ELSE FirstByAlloc(wider)

(* A lifetime overlaps a window (half-open on both sides).                 *)
StartsIn(a, w) == w.begin <= a.alloc /\ a.alloc < w.end
Overlaps(a, w) == a.alloc < w.end /\ w.begin < a.free

(* _apply_graph_slots: the first allocation, by address and then trace     *)
(* order, that contains the buffer and overlaps the window the slot was    *)
(* recorded in; every window if that one has no usable ordinals.           *)
Usable(w) == w.begin >= 0

SlotMatch(allocs, windows, slot) ==
    LET ranges == {w \in windows : w.key = slot.key /\ Usable(w)}
        cands  == {a \in allocs :
                     /\ Holds(a, slot.ptr)
                     /\ ranges = {} \/ \E w \in ranges : Overlaps(a, w)}
        lowest == {a \in cands : \A b \in cands : a.addr <= b.addr}
    IN  FirstByAlloc(lowest)

(* The history-ring check of analyze: a trace as long as the ring.         *)
TruncatedBeyond(events, maxEntries) == Len(events) > maxEntries
Truncated(events, maxEntries)       == Len(events) >= maxEntries
=============================================================================
