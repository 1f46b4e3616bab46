--------------------------- MODULE Evidence_proofs --------------------------
(***************************************************************************)
(* Proofs about the marks and findings of any set of allocations, windows  *)
(* and bridges that a trace can have, for any thresholds: a mark says what *)
(* its evidence is, and findings and summary say what the marks do.        *)
(***************************************************************************)
EXTENDS Evidence, FiniteSetTheorems, TLAPS

(* What the inputs are made of.                                            *)
Fits(heap) == heap \subseteq [addr : Nat, size : Nat \ {0}, alloc : Nat, free : 1 .. End]

BridgeRecords == [ptr : Nat, ord : Nat \cup {-1}]

(* The types of an allocation's fields.                                    *)
LEMMA AllocTypes ==
    ASSUME InputsGiven
    PROVE  /\ \A a \in allocs : /\ a.addr \in Nat /\ a.size \in Nat \ {0}
                                /\ a.alloc \in Nat /\ a.free \in 1 .. End
           /\ \A i \in DOMAIN bridges : bridges[i].ptr \in Nat /\ bridges[i].ord \in Nat \cup {-1}
           /\ Len(bridges) \in Nat /\ DOMAIN bridges = 1 .. Len(bridges)
<1>1. Fits(allocs)
  BY HeapsAssumption DEF InputsGiven, Fits
<1>2. bridges \in Seq(BridgeRecords)
  BY BridgesAssumption DEF InputsGiven, BridgeRecords
<1>3. ASSUME NEW a \in allocs
      PROVE  /\ a.addr \in Nat /\ a.size \in Nat \ {0} /\ a.alloc \in Nat /\ a.free \in 1 .. End
  BY <1>1, <1>3 DEF Fits
<1>4. ASSUME NEW i \in DOMAIN bridges
      PROVE  bridges[i].ptr \in Nat /\ bridges[i].ord \in Nat \cup {-1}
  <2>1. bridges[i] \in BridgeRecords
    BY <1>2, <1>4
  <2>. QED  BY <2>1 DEF BridgeRecords
<1>. QED  BY <1>2, <1>3, <1>4

(* Two blocks of one address are not live at one moment.                   *)
LEMMA OneBlockAtATime ==
    ASSUME InputsGiven, NEW a \in allocs, NEW b \in allocs, NEW ptr \in Nat, NEW ord \in Nat,
           Holds(a, ptr), Holds(b, ptr), LiveAt(a, ord), LiveAt(b, ord)
    PROVE  a = b
<1>. SUFFICES ASSUME a # b PROVE FALSE
  OBVIOUS
<1>1. \/ a.free <= b.alloc \/ b.free <= a.alloc
      \/ a.addr + a.size <= b.addr \/ b.addr + b.size <= a.addr
  BY HeapsAssumption DEF InputsGiven
<1>. QED  BY <1>1, AllocTypes DEF Holds, LiveAt

(* An event allocates one block.                                           *)
LEMMA OneAllocAnEvent ==
    ASSUME InputsGiven, NEW a \in allocs, NEW b \in allocs, a.alloc = b.alloc
    PROVE  a = b
BY HeapsAssumption DEF InputsGiven

(* The choice of the first among one candidate.                            *)
LEMMA FirstOfOne == ASSUME NEW a, a.alloc \in Int PROVE FirstByAlloc({a}) = a.alloc
<1>. DEFINE first == CHOOSE b \in {a} : \A c \in {a} : b.alloc <= c.alloc
<1>1. first = a \/ ~ \E b \in {a} : \A c \in {a} : b.alloc <= c.alloc
  OBVIOUS
<1>. QED  BY <1>1 DEF FirstByAlloc

(* The ordinal of a bridge leads to the allocation it lies in, or to none.  *)
LEMMA MatchIsHit ==
    ASSUME InputsGiven, NEW a \in allocs, NEW i \in DOMAIN bridges, HasOrd(bridges[i])
    PROVE  a.alloc = BridgeMatch(allocs, bridges[i]) <=> HitBy(a, i)
<1>. DEFINE b     == bridges[i]
            exact == {c \in allocs : c.addr = b.ptr /\ LiveAt(c, b.ord)}
            wider == {c \in allocs : Holds(c, b.ptr) /\ LiveAt(c, b.ord)}
<1>1. b.ptr \in Nat /\ b.ord \in Nat
  BY AllocTypes DEF HasOrd
<1>2. exact \subseteq wider
  BY <1>1, AllocTypes DEF Holds
<1>3. ASSUME NEW c \in wider PROVE wider = {c}
  BY <1>1, <1>3, OneBlockAtATime
<1>4. BridgeMatch(allocs, b) = IF wider = {} THEN NoMatch ELSE FirstByAlloc(wider)
  <2>1. BridgeMatch(allocs, b) = IF exact # {} THEN FirstByAlloc(exact) ELSE FirstByAlloc(wider)
    BY DEF BridgeMatch
  <2>2. exact # {} => exact = wider
    BY <1>2, <1>3
  <2>3. FirstByAlloc({}) = NoMatch
    BY DEF FirstByAlloc
  <2>. QED  BY <2>1, <2>2, <2>3, <1>2
<1>5. HitBy(a, i) <=> a \in wider
  BY DEF HitBy, LiveAt
<1>6. CASE wider = {}
  <2>1. a.alloc # NoMatch
    BY AllocTypes DEF NoMatch
  <2>. QED  BY <2>1, <1>4, <1>5, <1>6
<1>7. ASSUME NEW c \in wider PROVE a.alloc = BridgeMatch(allocs, b) <=> HitBy(a, i)
  <2>1. c \in allocs /\ c.alloc \in Int
    BY AllocTypes
  <2>2. wider = {c}
    BY <1>3
  <2>3. BridgeMatch(allocs, b) = c.alloc
    BY <1>4, <2>1, <2>2, FirstOfOne
  <2>. QED  BY <2>1, <2>2, <2>3, <1>5, OneAllocAnEvent
<1>. QED  BY <1>6, <1>7

(* Windows spanned are counted in natural numbers, and two of one kind have *)
(* a boundary between them.                                                *)
LEMMA SpannedCount ==
    ASSUME InputsGiven, NEW a \in allocs, NEW windows \in {capWindows, segWindows}
    PROVE  /\ Cardinality(Spanned(a, windows)) \in Nat
           /\ Cardinality(Spanned(a, windows)) >= 2 =>
                \E w \in windows : Usable(w) /\ a.alloc < w.begin /\ w.begin < a.free
<1>. DEFINE spanned == Spanned(a, windows)
<1>1. windows \in CaptureWindows \cup SegmentWindows
  BY DEF InputsGiven
<1>2. IsFiniteSet(windows) /\ spanned \subseteq windows
  BY <1>1, WindowsAssumption DEF Spanned
<1>3. IsFiniteSet(spanned) /\ Cardinality(spanned) \in Nat
  BY <1>2, FS_Subset, FS_CardinalityType
<1>4. ASSUME Cardinality(spanned) >= 2
      PROVE  \E v, w \in spanned : v # w
  <2>. SUFFICES ASSUME \A v, w \in spanned : v = w PROVE FALSE
    OBVIOUS
  <2>1. spanned # {}
    BY <1>4, FS_EmptySet
  <2>2. PICK v \in spanned : TRUE
    BY <2>1
  <2>3. spanned = {v}
    BY <2>2
  <2>4. Cardinality(spanned) = 1
    BY <2>3, FS_Singleton
  <2>. QED  BY <2>4, <1>4
<1>5. ASSUME NEW v \in spanned, NEW w \in spanned, v # w
      PROVE  \/ a.alloc < w.begin /\ w.begin < a.free
             \/ a.alloc < v.begin /\ v.begin < a.free
  <2>1. v \in windows /\ w \in windows
    BY <1>2
  <2>2. /\ v.begin \in Int /\ v.end \in Int /\ w.begin \in Int /\ w.end \in Int
        /\ Usable(v) /\ Usable(w) /\ v.end >= 0 /\ w.end >= 0 => v.end <= w.begin \/ w.end <= v.begin
    BY <2>1, <1>1, <1>5, WindowsAssumption
  <2>3. Usable(v) /\ Usable(w) /\ Overlaps(a, v) /\ Overlaps(a, w)
    BY DEF Spanned
  <2>4. a.alloc \in Nat /\ a.free \in 1 .. End
    BY AllocTypes
  <2>. QED  BY <2>2, <2>3, <2>4 DEF Overlaps
<1>6. \A w \in spanned : w \in windows /\ Usable(w)
  BY DEF Spanned
<1>. QED  BY <1>3, <1>4, <1>5, <1>6

(* No pass changes the input, nor what is said of it alone.                *)
LEMMA InputsStay ==
    ASSUME UNCHANGED input
    PROVE  /\ InputsGiven => InputsGiven'
           /\ Graph' = Graph /\ Evident' = Evident /\ HasWindows' = HasWindows
           /\ \A a : NeverFreed(a)' = NeverFreed(a)
           /\ \A a, i : HitBy(a, i)' = HitBy(a, i)
           /\ \A a : Bridged(a)' = Bridged(a)
           /\ \A a : LongLived(a)' = LongLived(a)
BY DEF input, InputsGiven, Graph, Evident, HasWindows, HitBy, Bridged, LongLived, NeverFreed, HasOrd, Span

-----------------------------------------------------------------------------
Marks == {"S1", "S2", "S3", "S3_approx"}

(* Without marks there is nothing to found.                                *)
LEMMA InitIsFounded == Init => IInv
<1>. SUFFICES ASSUME Init PROVE IInv
  OBVIOUS
<1>1. InputsGiven
  BY DEF Init, InputsGiven
<1>2. TypeOK
  BY <1>1, AllocTypes DEF Init, TypeOK, input
<1>3. MarksAreFounded
  BY <1>1, AllocTypes, NoneAssumption DEF Init, MarksAreFounded, Confidences
<1>4. GuessKept /\ Verdicts /\ SummaryIsSupported
  BY DEF Init, GuessKept, Verdicts, SummaryIsSupported
<1>. QED  BY <1>1, <1>2, <1>3, <1>4 DEF IInv

(* The heuristic marks come before all evidence.                           *)
LEMMA FlagKeeps == IInv /\ Flag => IInv'
<1>. SUFFICES ASSUME IInv, Flag PROVE IInv'
  OBVIOUS
<1>. DEFINE freed == {a \in Graph : ~NeverFreed(a)}
            guess == /\ \A i \in DOMAIN bridges : ~HasOrd(bridges[i])
                     /\ \A w \in capWindows : ~Usable(w)
<1>t. TypeOK /\ InputsGiven /\ MarksAreFounded /\ Verdicts
  BY DEF IInv
<1>1. /\ phase = "flag" /\ phase' = "ordinal"
      /\ UNCHANGED <<input, next, conf, findings, cross>>
  BY DEF Flag
<1>2. guess <=> ~Evident
  BY DEF Evident
<1>3. \A a \in allocs :
        /\ "S3" \notin flags'[a]
        /\ "S3_approx" \in flags'[a] <=> a \in Graph /\ guess /\ NeverFreed(a)
  BY <1>t DEF Flag
<1>4. flags' \in [allocs -> SUBSET Marks]
  BY DEF Flag, Marks
<1>5. s3' \in [found : BOOLEAN, approx : BOOLEAN]
  BY DEF Flag
<1>6. InputsGiven'
  BY <1>1, <1>t, InputsStay
<1>7. TypeOK'
  BY <1>1, <1>4, <1>5, <1>t, InputsStay DEF TypeOK, Marks, input
<1>8. MarksAreFounded'
  BY <1>1, <1>2, <1>3, <1>t, InputsStay DEF MarksAreFounded, input
<1>9. GuessKept'
  BY <1>1, <1>2, <1>3, InputsStay DEF GuessKept, input, Graph
<1>10. Verdicts' /\ SummaryIsSupported'
  BY <1>1, <1>t DEF Verdicts, SummaryIsSupported, TypeOK, input
<1>. QED  BY <1>6, <1>7, <1>8, <1>9, <1>10 DEF IInv

(* A bridge with an ordinal marks what it hits and nothing else.           *)
LEMMA ApplyOrdinalKeeps == IInv /\ ApplyOrdinal => IInv'
<1>. SUFFICES ASSUME IInv, ApplyOrdinal PROVE IInv'
  OBVIOUS
<1>t. TypeOK /\ InputsGiven /\ MarksAreFounded /\ GuessKept /\ Verdicts
  BY DEF IInv
<1>1. /\ phase = "ordinal" /\ next \in DOMAIN bridges /\ next' = next + 1
      /\ UNCHANGED <<input, phase, s3, findings, cross>>
  BY DEF ApplyOrdinal
<1>2. /\ flags' \in [allocs -> SUBSET Marks] /\ conf' \in [allocs -> Confidences \cup {None}]
      /\ \A a \in allocs :
            /\ flags'[a] = IF HitBy(a, next) THEN Claimed(flags[a]) ELSE flags[a]
            /\ conf'[a] = IF HitBy(a, next) THEN "precise" ELSE conf[a]
  <2>. DEFINE hits == IF HasOrd(bridges[next])
                      THEN {a \in allocs : a.alloc = BridgeMatch(allocs, bridges[next])} ELSE {}
  <2>1. \A a \in allocs : a \in hits <=> HitBy(a, next)
    BY <1>1, <1>t, MatchIsHit DEF HitBy
  <2>2. flags' = [a \in allocs |-> IF a \in hits THEN Claimed(flags[a]) ELSE flags[a]]
    BY DEF ApplyOrdinal
  <2>3. conf' = [a \in allocs |-> IF a \in hits THEN "precise" ELSE conf[a]]
    BY DEF ApplyOrdinal
  <2>4. flags \in [allocs -> SUBSET Marks] /\ conf \in [allocs -> Confidences \cup {None}]
    BY <1>t DEF TypeOK, Marks
  <2>5. flags' \in [allocs -> SUBSET Marks]
    BY <2>2, <2>4 DEF Claimed, Marks
  <2>6. conf' \in [allocs -> Confidences \cup {None}]
    BY <2>3, <2>4 DEF Confidences
  <2>. QED  BY <2>1, <2>2, <2>3, <2>5, <2>6
<1>3. next \in 1 .. Len(bridges)
  BY <1>1, <1>t, AllocTypes
<1>6. InputsGiven'
  BY <1>1, <1>t, InputsStay
<1>7. TypeOK'
  BY <1>1, <1>2, <1>3, <1>t, InputsStay, AllocTypes DEF TypeOK, Marks, input
<1>8. MarksAreFounded'
  <2>. SUFFICES ASSUME NEW a \in allocs
                PROVE  /\ conf'[a] = "precise" <=> \E i \in DOMAIN bridges : i < next' /\ HitBy(a, i)
                       /\ conf'[a] \notin {"approximate", "precise-window"}
                       /\ "S3" \in flags'[a] => conf'[a] # None
                       /\ "S3_approx" \in flags'[a] => a \in Graph /\ NeverFreed(a) /\ ~Evident
    BY <1>1, InputsStay DEF MarksAreFounded, input
  <2>0. /\ conf[a] = "precise" <=> \E i \in DOMAIN bridges : i < next /\ HitBy(a, i)
        /\ conf[a] \notin {"approximate", "precise-window"}
        /\ "S3" \in flags[a] => conf[a] # None
        /\ "S3_approx" \in flags[a] => a \in Graph /\ NeverFreed(a) /\ ~Evident
    BY <1>1, <1>t DEF MarksAreFounded
  <2>1. \A i \in DOMAIN bridges : i < next' <=> i < next \/ i = next
    BY <1>1, <1>3, <1>t, AllocTypes
  <2>2. CASE HitBy(a, next)
    BY <2>1, <2>2, <2>0, <1>1, <1>2, NoneAssumption DEF Claimed, Confidences
  <2>3. CASE ~HitBy(a, next)
    BY <2>1, <2>3, <2>0, <1>2
  <2>. QED  BY <2>2, <2>3
<1>9. GuessKept'
  BY <1>1, <1>2, <1>t, InputsStay DEF GuessKept, input, Graph, Evident, HitBy
<1>10. Verdicts' /\ SummaryIsSupported'
  BY <1>1, <1>t, InputsStay DEF Verdicts, SummaryIsSupported, input
<1>. QED  BY <1>6, <1>7, <1>8, <1>9, <1>10 DEF IInv

(* A bridge without an ordinal claims blocks its pointer is in, none that   *)
(* is marked precise.                                                      *)
LEMMA ApplyPlainKeeps == IInv /\ ApplyPlain => IInv'
<1>. SUFFICES ASSUME IInv, ApplyPlain PROVE IInv'
  OBVIOUS
<1>. DEFINE ptrs == {bridges[i].ptr : i \in {j \in DOMAIN bridges : ~HasOrd(bridges[j])}}
            hits == {a \in UNION {Representative(p) : p \in ptrs} : MayMark(a)}
<1>t. TypeOK /\ InputsGiven /\ MarksAreFounded /\ GuessKept /\ Verdicts
  BY DEF IInv
<1>1. /\ phase = "ordinal" /\ next \notin DOMAIN bridges /\ phase' = "windows"
      /\ UNCHANGED <<input, next, s3, findings, cross>>
  BY DEF ApplyPlain
<1>2. \A a \in hits : conf[a] # "precise" /\ \E i \in DOMAIN bridges : Holds(a, bridges[i].ptr)
  BY DEF MayMark, Representative
<1>3. /\ flags' \in [allocs -> SUBSET Marks] /\ conf' \in [allocs -> Confidences \cup {None}]
      /\ \A a \in allocs :
            /\ flags'[a] = IF a \in hits THEN Claimed(flags[a]) ELSE flags[a]
            /\ conf'[a] = IF a \in hits THEN "approximate" ELSE conf[a]
  <2>2. flags' = [a \in allocs |-> IF a \in hits THEN Claimed(flags[a]) ELSE flags[a]]
    BY DEF ApplyPlain
  <2>3. conf' = [a \in allocs |-> IF a \in hits THEN "approximate" ELSE conf[a]]
    BY DEF ApplyPlain
  <2>4. flags \in [allocs -> SUBSET Marks] /\ conf \in [allocs -> Confidences \cup {None}]
    BY <1>t DEF TypeOK, Marks
  <2>. HIDE DEF hits
  <2>5. flags' \in [allocs -> SUBSET Marks]
    BY <2>2, <2>4 DEF Claimed, Marks
  <2>6. conf' \in [allocs -> Confidences \cup {None}]
    BY <2>3, <2>4 DEF Confidences
  <2>. QED  BY <2>2, <2>3, <2>5, <2>6
<1>4. next = Len(bridges) + 1
  BY <1>1, <1>t, AllocTypes DEF TypeOK
<1>. HIDE DEF hits
<1>6. InputsGiven'
  BY <1>1, <1>t, InputsStay
<1>7. TypeOK'
  BY <1>1, <1>3, <1>t, InputsStay DEF TypeOK, Marks, input
<1>8. MarksAreFounded'
  <2>. SUFFICES ASSUME NEW a \in allocs
                PROVE  /\ conf'[a] = "precise" <=> \E i \in DOMAIN bridges : i < next /\ HitBy(a, i)
                       /\ conf'[a] # "precise-window"
                       /\ "S3" \in flags'[a] => conf'[a] # None
                       /\ "S3_approx" \in flags'[a] => a \in Graph /\ NeverFreed(a) /\ ~Evident
    BY <1>1, InputsStay DEF MarksAreFounded, input
  <2>0. /\ conf[a] = "precise" <=> \E i \in DOMAIN bridges : i < next /\ HitBy(a, i)
        /\ conf[a] # "precise-window"
        /\ "S3" \in flags[a] => conf[a] # None
        /\ "S3_approx" \in flags[a] => a \in Graph /\ NeverFreed(a) /\ ~Evident
    BY <1>1, <1>t DEF MarksAreFounded
  <2>1. CASE a \in hits
    BY <2>0, <2>1, <1>2, <1>3, NoneAssumption DEF Claimed, Confidences
  <2>2. CASE a \notin hits
    BY <2>0, <2>2, <1>3
  <2>. QED  BY <2>1, <2>2
<1>9. GuessKept'
  <2>. SUFFICES ASSUME NEW a \in Graph, NeverFreed(a), ~Evident
                PROVE  \/ "S3_approx" \in flags'[a]
                       \/ \E i \in DOMAIN bridges : Holds(a, bridges[i].ptr)
    BY <1>1, InputsStay DEF GuessKept, input
  <2>1. \/ "S3_approx" \in flags[a]
        \/ \E i \in DOMAIN bridges : Holds(a, bridges[i].ptr)
    BY <1>1, <1>t DEF GuessKept
  <2>. QED  BY <2>1, <1>2, <1>3 DEF Graph
<1>10. Verdicts' /\ SummaryIsSupported'
  BY <1>1, <1>4, <1>t, InputsStay DEF Verdicts, SummaryIsSupported, input
<1>. QED  BY <1>6, <1>7, <1>8, <1>9, <1>10 DEF IInv

(* What overlaps two windows is held across graphs; a mark that stands is   *)
(* not weakened by it.                                                     *)
LEMMA SpanWindowsKeeps == IInv /\ SpanWindows => IInv'
<1>. SUFFICES ASSUME IInv, SpanWindows PROVE IInv'
  OBVIOUS
<1>. DEFINE hits == {a \in Graph : Cardinality(Spanned(a, capWindows)) >= MarkFrom}
<1>t. TypeOK /\ InputsGiven /\ MarksAreFounded /\ GuessKept /\ Verdicts
  BY DEF IInv
<1>1. /\ phase = "windows" /\ phase' = "findings"
      /\ UNCHANGED <<input, next, findings, cross>>
  BY DEF SpanWindows
<1>2. \A a \in hits : a \in allocs /\ Cardinality(Spanned(a, capWindows)) >= 2
  BY DEF MarkFrom, Graph
<1>3. /\ flags' \in [allocs -> SUBSET Marks] /\ conf' \in [allocs -> Confidences \cup {None}]
      /\ \A a \in allocs :
            /\ flags'[a] = IF a \in hits THEN Claimed(flags[a]) ELSE flags[a]
            /\ conf'[a] = IF a \in hits /\ conf[a] = None THEN "precise-window" ELSE conf[a]
  <2>2. flags' = [a \in allocs |-> IF a \in hits THEN Claimed(flags[a]) ELSE flags[a]]
    BY DEF SpanWindows
  <2>3. conf' = [a \in allocs |-> IF a \in hits /\ conf[a] = None THEN "precise-window" ELSE conf[a]]
    BY DEF SpanWindows
  <2>4. flags \in [allocs -> SUBSET Marks] /\ conf \in [allocs -> Confidences \cup {None}]
    BY <1>t DEF TypeOK, Marks
  <2>. HIDE DEF hits
  <2>5. flags' \in [allocs -> SUBSET Marks]
    BY <2>2, <2>4 DEF Claimed, Marks
  <2>6. conf' \in [allocs -> Confidences \cup {None}]
    BY <2>3, <2>4 DEF Confidences
  <2>. QED  BY <2>2, <2>3, <2>5, <2>6
<1>4. /\ s3' \in [found : BOOLEAN, approx : BOOLEAN]
      /\ s3'.approx <=> \E a \in Graph : "S3_approx" \in flags'[a] \/ conf'[a] = "approximate"
  BY DEF SpanWindows
<1>5. ~Evident => hits = {}
  <2>. SUFFICES ASSUME ~Evident, NEW a \in hits PROVE FALSE
    OBVIOUS
  <2>1. Spanned(a, capWindows) = {}
    BY DEF Spanned, Evident
  <2>. QED  BY <2>1, <1>2, FS_EmptySet
<1>. HIDE DEF hits
<1>6. InputsGiven'
  BY <1>1, <1>t, InputsStay
<1>7. TypeOK'
  BY <1>1, <1>3, <1>4, <1>t, InputsStay DEF TypeOK, Marks, input
<1>8. MarksAreFounded'
  <2>. SUFFICES ASSUME NEW a \in allocs
                PROVE  /\ conf'[a] = "precise" <=> \E i \in DOMAIN bridges : i < next /\ HitBy(a, i)
                       /\ conf'[a] = "precise-window" => Cardinality(Spanned(a, capWindows)) >= 2
                       /\ "S3" \in flags'[a] => conf'[a] # None
                       /\ "S3_approx" \in flags'[a] => a \in Graph /\ NeverFreed(a) /\ ~Evident
    BY <1>1, InputsStay DEF MarksAreFounded, input
  <2>0. /\ conf[a] = "precise" <=> \E i \in DOMAIN bridges : i < next /\ HitBy(a, i)
        /\ conf[a] # "precise-window"
        /\ "S3" \in flags[a] => conf[a] # None
        /\ "S3_approx" \in flags[a] => a \in Graph /\ NeverFreed(a) /\ ~Evident
    BY <1>1, <1>t DEF MarksAreFounded
  <2>1. CASE a \in hits
    <3>1. flags'[a] = Claimed(flags[a]) /\ conf'[a] = IF conf[a] = None THEN "precise-window" ELSE conf[a]
      BY <1>3, <2>1
    <3>2. None # "precise" /\ None # "precise-window"
      BY NoneAssumption DEF Confidences
    <3>. QED  BY <2>0, <2>1, <1>2, <3>1, <3>2 DEF Claimed
  <2>2. CASE a \notin hits
    BY <2>0, <2>2, <1>3
  <2>. QED  BY <2>1, <2>2
<1>9. GuessKept'
  BY <1>1, <1>3, <1>5, <1>t, InputsStay DEF GuessKept, input, Graph
<1>10. Verdicts' /\ SummaryIsSupported'
  BY <1>1, <1>4, <1>t, InputsStay DEF Verdicts, SummaryIsSupported, input
<1>. QED  BY <1>6, <1>7, <1>8, <1>9, <1>10 DEF IInv

(* A finding is made where the marks or the windows give a reason.         *)
LEMMA BuildFindingsKeeps == IInv /\ BuildFindings => IInv'
<1>. SUFFICES ASSUME IInv, BuildFindings PROVE IInv'
  OBVIOUS
<1>. DEFINE large == {[det |-> "oversized", of |-> a, evidence |-> "pickle_size_only"] :
                        a \in {g \in Graph : Oversized(g)}}
            long  == {[det |-> "long_lived", of |-> a,
                       evidence |-> IF HasWindows THEN "window_overlap" ELSE "pickle_span_percentile"] :
                        a \in {g \in Graph : LongLived(g)}}
            held  == {[det |-> "non_reusable", of |-> a, evidence |-> NonReusable(a)] :
                        a \in {g \in Graph : NonReusable(g) # None}}
<1>t. TypeOK /\ InputsGiven /\ MarksAreFounded /\ GuessKept /\ Verdicts
  BY DEF IInv
<1>1. /\ phase = "findings" /\ phase' = "summary"
      /\ UNCHANGED <<input, next, flags, conf, s3, cross>>
  BY DEF BuildFindings
<1>2. findings' = large \cup long \cup held
  BY DEF BuildFindings
<1>3. /\ \A f \in large : f.det = "oversized"
      /\ \A f \in long : f.det = "long_lived" /\ LongLived(f.of)
      /\ \A f \in held : f.det = "non_reusable" /\ NonReusable(f.of) # None
      /\ \A a \in Graph : NonReusable(a) # None => \E f \in held : f.of = a
  <2>1. \A f \in large : f.det = "oversized"
    OBVIOUS
  <2>2. \A f \in long : f.det = "long_lived" /\ LongLived(f.of)
    OBVIOUS
  <2>3. ASSUME NEW f \in held PROVE f.det = "non_reusable" /\ NonReusable(f.of) # None
    <3>1. PICK a \in Graph : /\ NonReusable(a) # None
                             /\ f = [det |-> "non_reusable", of |-> a, evidence |-> NonReusable(a)]
      OBVIOUS
    <3>. QED  BY <3>1
  <2>4. ASSUME NEW a \in Graph, NonReusable(a) # None PROVE \E f \in held : f.of = a
    <3>. DEFINE rec == [det |-> "non_reusable", of |-> a, evidence |-> NonReusable(a)]
    <3>1. rec \in held /\ rec.of = a
      BY <2>4
    <3>. QED  BY <3>1
  <2>. QED  BY <2>1, <2>2, <2>3, <2>4
<1>4. \A a \in Graph : NonReusable(a) # None => NonReusable(a) \in Kinds
  BY DEF NonReusable, Kinds
<1>5. findings' \subseteq [det : {"oversized", "long_lived", "non_reusable"}, of : Graph, evidence : Kinds]
  BY <1>2, <1>4 DEF Kinds
<1>. HIDE DEF large, long, held
<1>6. InputsGiven'
  BY <1>1, <1>t, InputsStay
<1>7. TypeOK'
  BY <1>1, <1>5, <1>t, InputsStay DEF TypeOK, input
<1>8. MarksAreFounded'
  BY <1>1, <1>t, InputsStay DEF MarksAreFounded, input
<1>9. GuessKept'
  BY <1>1, <1>t, InputsStay DEF GuessKept, input
<1>10. Verdicts'
  <2>1. \A f \in findings' : f.det = "long_lived" => LongLived(f.of)
    BY <1>2, <1>3
  <2>2. \A a \in Graph : NonReusable(a) # None <=> \E f \in findings' : f.det = "non_reusable" /\ f.of = a
    BY <1>2, <1>3
  <2>3. \A a : NonReusable(a)' = NonReusable(a)
    BY <1>1 DEF NonReusable, input
  <2>. QED  BY <1>1, <1>t, <2>1, <2>2, <2>3, InputsStay DEF Verdicts, input
<1>11. SummaryIsSupported'
  BY <1>1 DEF SummaryIsSupported
<1>. QED  BY <1>6, <1>7, <1>8, <1>9, <1>10, <1>11 DEF IInv

(* Once all bridges are applied, "precise" means bridged.                  *)
LEMMA PreciseMeansBridged ==
    ASSUME IInv, phase \in {"windows", "findings", "summary", "done"}, NEW a \in allocs
    PROVE  conf[a] = "precise" <=> Bridged(a)
<1>1. \A i \in DOMAIN bridges : i < next
  BY AllocTypes DEF IInv, Verdicts
<1>2. Bridged(a) <=> \E i \in DOMAIN bridges : HitBy(a, i)
  BY DEF Bridged, HitBy
<1>. QED  BY <1>1, <1>2 DEF IInv, MarksAreFounded

(* No reason for a finding: no bridge, and fewer windows than the threshold.*)
LEMMA NotNonReusable ==
    ASSUME IInv, phase \in {"windows", "findings", "summary", "done"}, NEW a \in allocs
    PROVE  NonReusable(a) = None <=>
              /\ ~ (Cardinality(Spanned(a, capWindows)) >= NonReusableMin)
              /\ ~ (Cardinality(Spanned(a, segWindows)) >= NonReusableMin)
              /\ ~ Bridged(a) /\ conf[a] # "precise-window"
BY PreciseMeansBridged, NoneAssumption DEF NonReusable, Kinds

(* The summary reads findings and guesses and settles nothing else.        *)
LEMMA SummariseKeeps == IInv /\ Summarise => IInv'
<1>. SUFFICES ASSUME IInv, Summarise PROVE IInv'
  OBVIOUS
<1>t. TypeOK /\ InputsGiven /\ MarksAreFounded /\ GuessKept /\ Verdicts
  BY DEF IInv
<1>1. /\ phase = "summary" /\ phase' = "done" /\ cross' = Summary
      /\ UNCHANGED <<input, next, flags, conf, findings>>
  BY DEF Summarise
<1>2. s3' \in [found : BOOLEAN, approx : BOOLEAN] /\ s3'.approx = s3.approx
  BY <1>t DEF Summarise, TypeOK
<1>3. Summary = "non-reusable" => s3'.found
  BY <1>t DEF Summarise, TypeOK
<1>4. Summary \in Summaries
  BY DEF Summary, Summaries
<1>6. InputsGiven'
  BY <1>1, <1>t, InputsStay
<1>7. TypeOK'
  BY <1>1, <1>2, <1>4, <1>t, InputsStay DEF TypeOK, input
<1>8. MarksAreFounded'
  BY <1>1, <1>t, InputsStay DEF MarksAreFounded, input
<1>9. GuessKept'
  BY <1>1, <1>t, InputsStay DEF GuessKept, input
<1>10. Verdicts'
  <2>1. \A a : NonReusable(a)' = NonReusable(a)
    BY <1>1 DEF NonReusable, input
  <2>. QED  BY <1>1, <1>2, <1>t, <2>1, InputsStay DEF Verdicts, input
<1>11. SummaryIsSupported'
  <2>1. ASSUME Summary = "none", NEW a \in Graph
        PROVE  /\ ~Bridged(a) /\ Cardinality(Spanned(a, capWindows)) < NonReusableMin
               /\ NeverFreed(a) => Evident \/ \E i \in DOMAIN bridges : Holds(a, bridges[i].ptr)
    <3>1. a \in allocs
      BY DEF Graph
    <3>2. NonReusable(a) = None
      BY <1>1, <1>t, <2>1 DEF Verdicts, Summary
    <3>3. Cardinality(Spanned(a, capWindows)) \in Nat
      BY <1>t, <3>1, SpannedCount
    <3>4. ~ (s3.approx /\ "S3_approx" \in flags[a])
      BY <2>1 DEF Summary
    <3>5. "S3_approx" \in flags[a] => s3.approx
      BY <1>1, <1>t DEF Verdicts
    <3>6. ~Bridged(a) /\ ~ (Cardinality(Spanned(a, capWindows)) >= NonReusableMin)
      BY <1>1, <3>1, <3>2, NotNonReusable
    <3>7. Cardinality(Spanned(a, capWindows)) < NonReusableMin
      BY <3>3, <3>6, ThresholdsAssumption
    <3>8. NeverFreed(a) => Evident \/ \E i \in DOMAIN bridges : Holds(a, bridges[i].ptr)
      BY <1>1, <1>t, <3>4, <3>5 DEF GuessKept
    <3>. QED  BY <3>6, <3>7, <3>8
  <2>2. ASSUME Summary = "approximate"
        PROVE  ~Evident /\ \E a \in Graph : NeverFreed(a)
    BY <1>t, <2>2 DEF Summary, MarksAreFounded, Graph
  <2>. QED  BY <1>1, <1>3, <2>1, <2>2, InputsStay DEF SummaryIsSupported, input
<1>. QED  BY <1>6, <1>7, <1>8, <1>9, <1>10, <1>11 DEF IInv

(* The marks say what their evidence is, in every reachable state.          *)
THEOREM Invariance == Spec => []IInv
<1>1. IInv /\ [Next]_vars => IInv'
  <2>. SUFFICES ASSUME IInv, [Next]_vars PROVE IInv'
    OBVIOUS
  <2>1. CASE UNCHANGED vars
    <3>1. UNCHANGED input /\ UNCHANGED <<phase, next, flags, conf, s3, findings, cross>>
      BY <2>1 DEF vars
    <3>2. \A a : NonReusable(a)' = NonReusable(a)
      BY <3>1 DEF NonReusable, input
    <3>. QED  BY <3>1, <3>2, InputsStay DEF IInv, TypeOK, MarksAreFounded, GuessKept, Verdicts,
                SummaryIsSupported, input
  <2>. QED  BY <2>1, FlagKeeps, ApplyOrdinalKeeps, ApplyPlainKeeps, SpanWindowsKeeps,
              BuildFindingsKeeps, SummariseKeeps DEF Next
<1>. QED  BY <1>1, InitIsFounded, PTL DEF Spec

(* Every variable of the passes keeps its type.                            *)
THEOREM TypeCorrect == Spec => []TypeOK
<1>1. IInv => TypeOK
  BY DEF IInv
<1>. QED  BY <1>1, Invariance, PTL

(* What a bridge with an ordinal established, no later pass of analyze      *)
(* weakens.                                                                *)
THEOREM PreciseStays == Spec => PreciseNeverDowngraded
<1>1. IInv /\ [Next]_vars => [\A a \in allocs : conf[a] = "precise" => conf'[a] = "precise"]_vars
  <2>. SUFFICES ASSUME IInv, Next, NEW a \in allocs, conf[a] = "precise"
                PROVE  conf'[a] = "precise"
    OBVIOUS
  <2>1. CASE Flag
    BY <2>1 DEF Flag
  <2>2. CASE ApplyOrdinal
    BY <2>2 DEF ApplyOrdinal
  <2>3. CASE ApplyPlain
    BY <2>3 DEF ApplyPlain, MayMark
  <2>4. CASE SpanWindows
    BY <2>4, NoneAssumption DEF SpanWindows, Confidences
  <2>5. CASE BuildFindings \/ Summarise
    BY <2>5 DEF BuildFindings, Summarise
  <2>. QED  BY <2>1, <2>2, <2>3, <2>4, <2>5 DEF Next
<1>. QED  BY <1>1, Invariance, PTL DEF Spec, PreciseNeverDowngraded

(* S3 is reported as precise only if every bar that carries it is bridged   *)
(* or lies in two capture windows.                                         *)
THEOREM PreciseIsFounded == Spec => []PreciseOnlyOnEvidence
<1>1. IInv => PreciseOnlyOnEvidence
  <2>. SUFFICES ASSUME IInv, phase \in {"findings", "summary", "done"}, ~s3.approx,
                       NEW a \in Graph, flags[a] \cap {"S3", "S3_approx"} # {}
                PROVE  Bridged(a) \/ Cardinality(Spanned(a, capWindows)) >= 2
    BY DEF PreciseOnlyOnEvidence
  <2>1. a \in allocs
    BY DEF Graph
  <2>2. "S3_approx" \notin flags[a] /\ conf[a] # "approximate"
    BY DEF IInv, Verdicts
  <2>3. conf[a] \in {"precise", "precise-window"}
    BY <2>1, <2>2 DEF IInv, MarksAreFounded, TypeOK, Confidences
  <2>4. conf[a] = "precise-window" => Cardinality(Spanned(a, capWindows)) >= 2
    BY <2>1 DEF IInv, MarksAreFounded
  <2>. QED  BY <2>1, <2>3, <2>4, PreciseMeansBridged
<1>. QED  BY <1>1, Invariance, PTL

(* As long as two windows are enough for a finding, a non-reusable finding  *)
(* is made for the allocations with evidence and for no others.            *)
THEOREM FindingsAreFounded ==
    ASSUME NonReusableMin <= 2
    PROVE  Spec => []NonReusableOnEvidence
<1>1. IInv => NonReusableOnEvidence
  <2>. SUFFICES ASSUME IInv, phase \in {"summary", "done"}, NEW a \in Graph
                PROVE  (\E f \in findings : f.det = "non_reusable" /\ f.of = a)
                       <=> \/ Bridged(a)
                           \/ Cardinality(Spanned(a, capWindows)) >= NonReusableMin
                           \/ Cardinality(Spanned(a, segWindows)) >= NonReusableMin
    BY DEF NonReusableOnEvidence
  <2>1. a \in allocs /\ InputsGiven
    BY DEF Graph, IInv
  <2>2. (\E f \in findings : f.det = "non_reusable" /\ f.of = a) <=> NonReusable(a) # None
    BY DEF IInv, Verdicts
  <2>3. conf[a] = "precise-window" => Cardinality(Spanned(a, capWindows)) >= 2
    BY <2>1 DEF IInv, MarksAreFounded
  <2>4. Cardinality(Spanned(a, capWindows)) \in Nat /\ NonReusableMin \in Nat
    BY <2>1, SpannedCount, ThresholdsAssumption
  <2>5. conf[a] = "precise-window" => Cardinality(Spanned(a, capWindows)) >= NonReusableMin
    BY <2>3, <2>4
  <2>. QED  BY <2>1, <2>2, <2>5, NotNonReusable
<1>. QED  BY <1>1, Invariance, PTL

(* The summary of a pool says no more and no less than its evidence.        *)
THEOREM SummaryIsFounded == Spec => []SummaryIsSupported
<1>1. IInv => SummaryIsSupported
  BY DEF IInv
<1>. QED  BY <1>1, Invariance, PTL

(* If two windows are asked for, a long-lived finding crosses a boundary.   *)
THEOREM LongLivedCross ==
    ASSUME LongLivedMin >= 2
    PROVE  Spec => []LongLivedCrossesWindows
<1>1. IInv => LongLivedCrossesWindows
  <2>. SUFFICES ASSUME IInv, HasWindows, NEW f \in findings, f.det = "long_lived"
                PROVE  \E w \in capWindows \cup segWindows :
                          Usable(w) /\ f.of.alloc < w.begin /\ w.begin < f.of.free
    BY DEF LongLivedCrossesWindows
  <2>. DEFINE c == Cardinality(Spanned(f.of, capWindows))
              s == Cardinality(Spanned(f.of, segWindows))
  <2>1. f.of \in allocs /\ InputsGiven /\ LongLived(f.of)
    BY DEF IInv, TypeOK, Graph, Verdicts
  <2>2. c \in Nat /\ s \in Nat
    BY <2>1, SpannedCount
  <2>3. LongLivedMin <= Max({c, s})
    BY <2>1 DEF LongLived
  <2>4. Max({c, s}) \in {c, s}
    <3>1. \E x \in {c, s} : \A y \in {c, s} : x >= y
      BY <2>2
    <3>. QED  BY <3>1 DEF Max
  <2>5. c >= 2 \/ s >= 2
    BY <2>2, <2>3, <2>4, ThresholdsAssumption
  <2>. QED  BY <2>1, <2>5, SpannedCount
<1>. QED  BY <1>1, Invariance, PTL
=============================================================================
