--------------------------- MODULE MemoryMap_proofs -------------------------
(***************************************************************************)
(* Proofs about WindowReports and MemoryMap, for any inputs, segments and  *)
(* page.  The windows: what is looked at is reported or omitted.  The peak *)
(* and the layout: the sweep and the cursor as sequences of steps, with    *)
(* what is true after each.  The page: segments packed without overlap,    *)
(* ranks as rows, the order of allocations, and columns of gray.  A page   *)
(* once drawn never changes, so that all of it follows from the invariant  *)
(* of the reports and from what Page computes.                             *)
(***************************************************************************)
EXTENDS MemoryMap, TraceAnalysis_proofs

-----------------------------------------------------------------------------
(* The map draws the reports and changes nothing of them.                   *)
LEMMA MapStepOfReports ==
    ASSUME [MapNext]_mapVars PROVE [Next]_vars
BY DEF MapNext, Draw, Next, mapVars, vars

(* Whatever the map draws, the reports behave as WindowReports says: what  *)
(* is proved of them holds of the map's specification (to_memmap_html      *)
(* writes nothing of the analysis).                                        *)
THEOREM MapImplementsReports == MapSpec => Spec
<1>1. MapInit => Init
  BY DEF MapInit
<1>2. [MapNext]_mapVars => [Next]_vars
  BY MapStepOfReports
<1>. QED  BY <1>1, <1>2, PTL DEF MapSpec, Spec

-----------------------------------------------------------------------------
(* The windows and what becomes of them.                                   *)

Read ==
    \E i \in Inputs :
        /\ allocs = i.allocs /\ findings = i.findings
        /\ captures = i.captures /\ segments = i.segments

UsableEntries == {Entry(w) : w \in {v \in Windows : UsableWindow(v)}}

Placed ==
    /\ at \in 0 .. Len(captures) + Len(segments)
    /\ reports \in [AllRunners -> Seq(UsableEntries)]
    /\ omitted \in Seq([window : Windows, reason : Reasons])
    /\ \A i \in DOMAIN omitted :
          UsableWindow(omitted[i].window) => omitted[i].window.runner \notin AllRunners

Counted(w) ==
    /\ IsFiniteSet(Looked(w)) /\ IsFiniteSet(Reported(w)) /\ IsFiniteSet(LeftOut(w))
    /\ Cardinality(Looked(w)) = Cardinality(Reported(w)) + Cardinality(LeftOut(w))

ReportsInv == Read /\ Placed /\ \A w \in Windows : Counted(w)

(* What is analysed is one of the inputs the assumption describes.         *)
LEMMA InputsTyped ==
    ASSUME Read
    PROVE  /\ captures \in Seq(Windows) /\ segments \in Seq(Windows)
           /\ End \in Nat
           /\ IsFiniteSet(allocs)
           /\ allocs \subseteq [addr : Nat, size : Nat \ {0}, alloc : Nat, free : Nat]
           /\ \A a \in allocs : a.alloc < a.free /\ a.free <= End
           /\ \A a, b \in allocs : a # b => {a.alloc, a.free} \cap {b.alloc, b.free} \subseteq {End}
           /\ IsFiniteSet(findings)
           /\ \A f \in findings : f.of \in allocs /\ \E s \in GraphSegments : Within(f.of, s)
BY InputsAssumption DEF Read

(* _range finds no reason exactly in the windows that are usable.          *)
LEMMA UsableIsWellFormed ==
    ASSUME NEW w \in Windows
    PROVE  /\ Malformed(w) = None <=> UsableWindow(w)
           /\ Malformed(w) # None => Malformed(w) \in Reasons
<1>2. \A x \in Reasons : x # None
  BY NoneAssumption
<1>3. w.begin # None => w.begin \in Int
  BY DEF Windows
<1>4. w.end # None => w.end \in Int
  BY DEF Windows
<1>5. CASE w.begin = None \/ w.end = None
  BY <1>2, <1>5 DEF Malformed, UsableWindow, Reasons
<1>6. CASE w.begin # None /\ w.end # None
  <2>1. w.begin \in Int /\ w.end \in Int
    BY <1>3, <1>4, <1>6
  <2>2. "negative" \in Reasons /\ "inverted" \in Reasons
    BY DEF Reasons
  <2>3. "negative" # None /\ "inverted" # None
    BY <1>2, <2>2
  <2>4. Malformed(w) = IF w.begin < 0 \/ w.end < 0 THEN "negative"
                       ELSE IF w.begin > w.end THEN "inverted" ELSE None
    BY <1>6 DEF Malformed
  <2>5. UsableWindow(w) <=> 0 <= w.begin /\ w.begin <= w.end
    BY <1>6 DEF UsableWindow
  <2>. HIDE DEF Malformed, UsableWindow
  <2>. QED  BY ONLY <2>1, <2>2, <2>3, <2>4, <2>5
<1>. QED  BY <1>5, <1>6

(* One more entry at the end of a list adds one place.                     *)
LEMMA AppendedPlaces ==
    ASSUME NEW X, NEW s \in Seq(X), NEW e \in X, NEW w
    PROVE  {i \in DOMAIN Append(s, e) : Append(s, e)[i].window = w} =
           {i \in DOMAIN s : s[i].window = w} \cup (IF e.window = w THEN {Len(s) + 1} ELSE {})
<1>1. /\ DOMAIN s = 1 .. Len(s) /\ Len(s) \in Nat
      /\ DOMAIN Append(s, e) = 1 .. Len(s) + 1
      /\ Append(s, e)[Len(s) + 1] = e
      /\ \A i \in 1 .. Len(s) : Append(s, e)[i] = s[i]
  OBVIOUS
<1>. QED  BY <1>1

(* Which window comes next.                                                *)
LEMMA NextGiven ==
    ASSUME captures \in Seq(Windows), segments \in Seq(Windows),
           at \in 0 .. Len(captures) + Len(segments)
    PROVE  /\ Given \in Seq(Windows) /\ Len(Given) = Len(captures) + Len(segments)
           /\ at < Len(captures) => Given[at + 1] = captures[at + 1] /\ captures[at + 1] \in Windows
           /\ at >= Len(captures) /\ at < Len(captures) + Len(segments) =>
                /\ Given[at + 1] = segments[at - Len(captures) + 1]
                /\ segments[at - Len(captures) + 1] \in Windows
BY DEF Given

(* A step that looks at one window adds its place, unless the segments     *)
(* report it.                                                              *)
Skipped(v) == at < Len(captures) /\ Superseded(v)

(* Looking at a window adds the place it was looked at.                    *)
LEMMA LookedAtOneMore ==
    ASSUME captures \in Seq(Windows), at' = at + 1, at \in Nat, UNCHANGED input,
           NEW v \in Windows, v = Given[at + 1], NEW w
    PROVE  Looked(w)' = Looked(w) \cup (IF v = w /\ ~Skipped(v) THEN {at + 1} ELSE {})
<1>1. Given' = Given /\ captures' = captures /\ (UsableWindow(w))' = UsableWindow(w)
  BY DEF input, Given, UsableWindow
<1>2. 1 .. at' = (1 .. at) \cup {at + 1}
  OBVIOUS
<1>3. \A i \in 1 .. at + 1 : i = at + 1 => (i <= Len(captures) <=> at < Len(captures))
  OBVIOUS
<1>4. v = w => (UsableWindow(w) <=> Malformed(w) = None)
  BY UsableIsWellFormed
<1>5. Skipped(v) /\ v = w <=> at + 1 <= Len(captures) /\ w.runner = "breakable" /\ UsableWindow(w) /\ v = w
  BY <1>3, <1>4 DEF Skipped, Superseded
<1>. HIDE DEF Skipped
<1>6. ASSUME NEW i
      PROVE  i \in Looked(w)' <=> i \in Looked(w) \/ (i = at + 1 /\ v = w /\ ~Skipped(v))
  BY <1>1, <1>2, <1>5 DEF Looked
<1>. QED  BY <1>6 DEF Looked

(* The places of a window in one list.                                     *)
PlacesOf(list, w) == {i \in DOMAIN list : list[i].window = w}

(* A window's places in the reports, runner by runner.                     *)
LEMMA ReportedPlaces ==
    ASSUME NEW w, NEW p
    PROVE  /\ p \in Reported(w) <=>
                \E q \in AllRunners : \E i \in PlacesOf(reports[q], w) : p = <<q, i>>
           /\ p \in Reported(w)' <=>
                \E q \in AllRunners : \E i \in PlacesOf(reports'[q], w) : p = <<q, i>>
BY DEF Reported, PlacesOf

(* Reporting a window under a runner adds one place of that window.        *)
LEMMA ReportedOnce ==
    ASSUME Placed, NEW v \in Windows, UsableWindow(v), NEW r \in AllRunners, Report(v, r), NEW w
    PROVE  /\ Reported(w)' = Reported(w) \cup (IF v = w THEN {<<r, Len(reports[r]) + 1>>} ELSE {})
           /\ <<r, Len(reports[r]) + 1>> \notin Reported(w)
           /\ LeftOut(w)' = LeftOut(w)
<1>1. reports \in [AllRunners -> Seq(UsableEntries)]
  BY DEF Placed
<1>2. Entry(v) \in UsableEntries /\ Entry(v).window = v
  BY DEF UsableEntries, Entry
<1>3. reports'[r] = Append(reports[r], Entry(v)) /\ \A q \in AllRunners \ {r} : reports'[q] = reports[q]
  BY <1>1 DEF Report
<1>. DEFINE more == IF v = w THEN {Len(reports[r]) + 1} ELSE {}
<1>4. PlacesOf(reports'[r], w) = PlacesOf(reports[r], w) \cup more
  <2>1. reports[r] \in Seq(UsableEntries)
    BY <1>1
  <2>. QED  BY ONLY <1>2, <1>3, <2>1, AppendedPlaces DEF PlacesOf
<1>5. \A q \in AllRunners \ {r} : PlacesOf(reports'[q], w) = PlacesOf(reports[q], w)
  BY <1>3 DEF PlacesOf
<1>6. \A p : p \in Reported(w)' <=> p \in Reported(w) \/ \E i \in more : p = <<r, i>>
  <2>. HIDE DEF more
  <2>. QED  BY <1>4, <1>5, ReportedPlaces
<1>7. Len(reports[r]) + 1 \notin PlacesOf(reports[r], w)
  BY <1>1 DEF PlacesOf
<1>8. <<r, Len(reports[r]) + 1>> \notin Reported(w)
  <2>1. SUFFICES ASSUME <<r, Len(reports[r]) + 1>> \in Reported(w) PROVE FALSE
    OBVIOUS
  <2>2. PICK q \in AllRunners : \E i \in PlacesOf(reports[q], w) : <<r, Len(reports[r]) + 1>> = <<q, i>>
    BY <2>1 DEF Reported, PlacesOf
  <2>3. r = q /\ Len(reports[r]) + 1 \in PlacesOf(reports[q], w)
    BY <2>2
  <2>. QED  BY <1>7, <2>3
<1>9. LeftOut(w)' = LeftOut(w)
  BY DEF Report, LeftOut
<1>10. Reported(w)' = Reported(w) \cup (IF v = w THEN {<<r, Len(reports[r]) + 1>>} ELSE {})
  BY <1>6
<1>. QED  BY <1>8, <1>9, <1>10

(* One that is omitted has one place more among those left out.            *)
LEMMA LeftOutOnce ==
    ASSUME Placed, NEW v \in Windows, NEW reason \in Reasons, Omit(v, reason), NEW w
    PROVE  /\ LeftOut(w)' = LeftOut(w) \cup (IF v = w THEN {Len(omitted) + 1} ELSE {})
           /\ Len(omitted) + 1 \notin LeftOut(w)
           /\ Reported(w)' = Reported(w)
<1>1. omitted \in Seq([window : Windows, reason : Reasons])
  BY DEF Placed
<1>2. [window |-> v, reason |-> reason] \in [window : Windows, reason : Reasons]
  OBVIOUS
<1>3. LeftOut(w)' = {i \in DOMAIN omitted : omitted[i].window = w}
                      \cup (IF v = w THEN {Len(omitted) + 1} ELSE {})
  <2>1. omitted' = Append(omitted, [window |-> v, reason |-> reason])
    BY DEF Omit
  <2>2. [window |-> v, reason |-> reason].window = v
    OBVIOUS
  <2>. QED  BY ONLY <1>1, <1>2, <2>1, <2>2, AppendedPlaces DEF LeftOut
<1>4. Len(omitted) + 1 \notin DOMAIN omitted
  BY <1>1
<1>5. Reported(w)' = Reported(w)
  BY DEF Omit, Reported
<1>. QED  BY <1>3, <1>4, <1>5 DEF LeftOut

-----------------------------------------------------------------------------
(* Before the first window nothing is reported or omitted.                 *)
LEMMA ReportsInvInit == Init => ReportsInv
<1>. SUFFICES ASSUME Init PROVE ReportsInv
  OBVIOUS
<1>1. Read
  BY DEF Init, Read
<1>2. captures \in Seq(Windows) /\ segments \in Seq(Windows)
  BY <1>1, InputsTyped
<1>3. at = 0 /\ omitted = <<>> /\ reports = [r \in AllRunners |-> <<>>]
  BY DEF Init
<1>4. Placed
  BY <1>2, <1>3 DEF Placed
<1>5. ASSUME NEW w \in Windows PROVE Counted(w)
  <2>1. Looked(w) = {}
    BY <1>3 DEF Looked
  <2>2. LeftOut(w) = {}
    BY <1>3 DEF LeftOut
  <2>3. Reported(w) = {}
    BY <1>3 DEF Reported
  <2>. QED  BY <2>1, <2>2, <2>3, FS_EmptySet DEF Counted
<1>. QED  BY <1>1, <1>4, <1>5 DEF ReportsInv

(* What is read does not change, nor what is measured from it.             *)
LEMMA InputKept ==
    ASSUME UNCHANGED input
    PROVE  /\ Read' <=> Read
           /\ UsableEntries' = UsableEntries
BY DEF input, Read, UsableEntries, UsableWindow, Entry, WindowMetrics, Graph

(* The three things that become of a window.                               *)
LEMMA Moves ==
    ASSUME ReportsInv, at' = at + 1, UNCHANGED input,
           at < Len(captures) + Len(segments), NEW v \in Windows, v = Given[at + 1],
           \/ Skipped(v) /\ UNCHANGED <<reports, omitted>>
           \/ /\ ~Skipped(v)
              /\ \/ /\ UsableWindow(v)
                    /\ \E r \in AllRunners : Report(v, r)
                 \/ /\ UsableWindow(v) => v.runner \notin AllRunners
                    /\ \E reason \in Reasons : Omit(v, reason)
    PROVE  ReportsInv'
<1>1. /\ captures \in Seq(Windows) /\ segments \in Seq(Windows)
      /\ Read /\ Placed /\ at \in Nat /\ Len(captures) \in Nat /\ Len(segments) \in Nat
  BY InputsTyped DEF ReportsInv, Placed
<1>2. Read' /\ UsableEntries' = UsableEntries /\ captures' = captures /\ segments' = segments
  BY <1>1, InputKept DEF input
<1>3. at' \in 0 .. Len(captures') + Len(segments')
  BY <1>1, <1>2
<1>4. ASSUME NEW w \in Windows
      PROVE  /\ IsFiniteSet(Looked(w)) /\ IsFiniteSet(Reported(w)) /\ IsFiniteSet(LeftOut(w))
             /\ Cardinality(Looked(w)) = Cardinality(Reported(w)) + Cardinality(LeftOut(w))
             /\ Looked(w)' = Looked(w) \cup (IF v = w /\ ~Skipped(v) THEN {at + 1} ELSE {})
             /\ at + 1 \notin Looked(w)
  <2>1. Counted(w)
    BY DEF ReportsInv
  <2>2. Looked(w)' = Looked(w) \cup (IF v = w /\ ~Skipped(v) THEN {at + 1} ELSE {})
    BY <1>1, LookedAtOneMore
  <2>3. at + 1 \notin Looked(w)
    BY <1>1 DEF Looked
  <2>. QED  BY <2>1, <2>2, <2>3 DEF Counted
<1>5. CASE Skipped(v) /\ UNCHANGED <<reports, omitted>>
  <2>1. Placed'
    BY <1>1, <1>2, <1>3, <1>5 DEF Placed, UsableWindow
  <2>2. ASSUME NEW w \in Windows PROVE Counted(w)'
    <3>1. Reported(w)' = Reported(w) /\ LeftOut(w)' = LeftOut(w)
      BY <1>5 DEF Reported, LeftOut
    <3>2. Looked(w)' = Looked(w)
      BY <1>4, <1>5
    <3>. QED  BY <1>4, <3>1, <3>2 DEF Counted
  <2>. QED  BY <1>2, <2>1, <2>2 DEF ReportsInv
<1>6. CASE ~Skipped(v) /\ UsableWindow(v) /\ \E r \in AllRunners : Report(v, r)
  <2>1. PICK r \in AllRunners : Report(v, r)
    BY <1>6
  <2>2. Placed'
    <3>1. Entry(v) \in UsableEntries
      BY <1>6 DEF UsableEntries
    <3>2. reports' \in [AllRunners -> Seq(UsableEntries)]
      BY <1>1, <2>1, <3>1 DEF Placed, Report
    <3>3. omitted' = omitted
      BY <2>1 DEF Report
    <3>. QED  BY <1>1, <1>2, <1>3, <3>2, <3>3 DEF Placed, UsableWindow
  <2>3. ASSUME NEW w \in Windows PROVE Counted(w)'
    <3>1. /\ Reported(w)' = Reported(w) \cup (IF v = w THEN {<<r, Len(reports[r]) + 1>>} ELSE {})
          /\ <<r, Len(reports[r]) + 1>> \notin Reported(w) /\ LeftOut(w)' = LeftOut(w)
      BY <1>1, <1>6, <2>1, ReportedOnce
    <3>2. CASE v = w
      <4>1. Looked(w)' = Looked(w) \cup {at + 1} /\ Reported(w)' = Reported(w) \cup {<<r, Len(reports[r]) + 1>>}
        BY <1>4, <1>6, <3>1, <3>2
      <4>. DEFINE y == <<r, Len(reports[r]) + 1>>
                  x == at + 1
      <4>2. x \notin Looked(w) /\ y \notin Reported(w)
        BY <1>4, <3>1
      <4>. HIDE DEF x, y
      <4>6. /\ IsFiniteSet(Looked(w)) /\ IsFiniteSet(Reported(w)) /\ IsFiniteSet(LeftOut(w))
            /\ Cardinality(Looked(w)) = Cardinality(Reported(w)) + Cardinality(LeftOut(w))
        BY <1>4
      <4>7. Cardinality(Looked(w)) \in Nat /\ Cardinality(Reported(w)) \in Nat /\ Cardinality(LeftOut(w)) \in Nat
        BY <4>6, FS_CardinalityType
      <4>5. /\ IsFiniteSet(Looked(w) \cup {x}) /\ IsFiniteSet(Reported(w) \cup {y})
            /\ Cardinality(Looked(w) \cup {x}) = Cardinality(Reported(w) \cup {y}) + Cardinality(LeftOut(w))
        <5>1. IsFiniteSet(Looked(w) \cup {x}) /\ Cardinality(Looked(w) \cup {x}) = Cardinality(Looked(w)) + 1
          BY <4>2, <4>6, FS_AddElement
        <5>2. IsFiniteSet(Reported(w) \cup {y}) /\ Cardinality(Reported(w) \cup {y}) = Cardinality(Reported(w)) + 1
          BY <4>2, <4>6, FS_AddElement
        <5>. QED  BY ONLY <4>6, <4>7, <5>1, <5>2
      <4>. QED  BY <1>4, <3>1, <4>1, <4>5 DEF Counted, x, y
    <3>3. CASE v # w
      BY <1>4, <3>1, <3>3 DEF Counted
    <3>. QED  BY <3>2, <3>3
  <2>. QED  BY <1>2, <2>2, <2>3 DEF ReportsInv
<1>7. CASE /\ ~Skipped(v) /\ (UsableWindow(v) => v.runner \notin AllRunners)
           /\ \E reason \in Reasons : Omit(v, reason)
  <2>1. PICK reason \in Reasons : Omit(v, reason)
    BY <1>7
  <2>2. Placed'
    <3>. DEFINE e == [window |-> v, reason |-> reason]
                X == [window : Windows, reason : Reasons]
    <3>1. e \in X /\ e.window = v
      OBVIOUS
    <3>2. omitted \in Seq(X) /\ omitted' = Append(omitted, e) /\ reports' = reports
      BY <1>1, <2>1 DEF Placed, Omit
    <3>3. \A i \in DOMAIN omitted : UsableWindow(omitted[i].window) => omitted[i].window.runner \notin AllRunners
      BY <1>1 DEF Placed
    <3>4. \A i \in DOMAIN omitted' :
             UsableWindow(omitted'[i].window) => omitted'[i].window.runner \notin AllRunners
      <4>. HIDE DEF e, X
      <4>1. ASSUME NEW i \in DOMAIN omitted'
            PROVE  omitted'[i] = e \/ (i \in DOMAIN omitted /\ omitted'[i] = omitted[i])
        BY <3>1, <3>2
      <4>. QED  BY <1>7, <3>1, <3>3, <4>1
    <3>5. omitted' \in Seq(X)
      <4>. HIDE DEF e, X
      <4>. QED  BY <3>1, <3>2
    <3>. QED  BY <1>1, <1>2, <1>3, <3>2, <3>4, <3>5 DEF Placed, UsableWindow
  <2>3. ASSUME NEW w \in Windows PROVE Counted(w)'
    <3>1. /\ LeftOut(w)' = LeftOut(w) \cup (IF v = w THEN {Len(omitted) + 1} ELSE {})
          /\ Len(omitted) + 1 \notin LeftOut(w) /\ Reported(w)' = Reported(w)
      BY <1>1, <2>1, LeftOutOnce
    <3>2. CASE v = w
      <4>1. Looked(w)' = Looked(w) \cup {at + 1} /\ LeftOut(w)' = LeftOut(w) \cup {Len(omitted) + 1}
        BY <1>4, <1>7, <3>1, <3>2
      <4>. DEFINE x == at + 1
                  z == Len(omitted) + 1
      <4>2. x \notin Looked(w) /\ z \notin LeftOut(w)
        BY <1>4, <3>1
      <4>. HIDE DEF x, z
      <4>6. /\ IsFiniteSet(Looked(w)) /\ IsFiniteSet(Reported(w)) /\ IsFiniteSet(LeftOut(w))
            /\ Cardinality(Looked(w)) = Cardinality(Reported(w)) + Cardinality(LeftOut(w))
        BY <1>4
      <4>7. Cardinality(Looked(w)) \in Nat /\ Cardinality(Reported(w)) \in Nat /\ Cardinality(LeftOut(w)) \in Nat
        BY <4>6, FS_CardinalityType
      <4>5. /\ IsFiniteSet(Looked(w) \cup {x}) /\ IsFiniteSet(LeftOut(w) \cup {z})
            /\ Cardinality(Looked(w) \cup {x}) = Cardinality(Reported(w)) + Cardinality(LeftOut(w) \cup {z})
        <5>1. IsFiniteSet(Looked(w) \cup {x}) /\ Cardinality(Looked(w) \cup {x}) = Cardinality(Looked(w)) + 1
          BY <4>2, <4>6, FS_AddElement
        <5>2. IsFiniteSet(LeftOut(w) \cup {z}) /\ Cardinality(LeftOut(w) \cup {z}) = Cardinality(LeftOut(w)) + 1
          BY <4>2, <4>6, FS_AddElement
        <5>. QED  BY ONLY <4>6, <4>7, <5>1, <5>2
      <4>. QED  BY <1>4, <3>1, <4>1, <4>5 DEF Counted, x, z
    <3>3. CASE v # w
      BY <1>4, <3>1, <3>3 DEF Counted
    <3>. QED  BY <3>2, <3>3
  <2>. QED  BY <1>2, <2>2, <2>3 DEF ReportsInv
<1>. QED  BY <1>5, <1>6, <1>7

(* Every step counts the window it looks at once.                          *)
LEMMA ReportsInvStep ==
    ASSUME ReportsInv, [Next]_vars
    PROVE  ReportsInv'
<1>1. /\ captures \in Seq(Windows) /\ segments \in Seq(Windows)
      /\ at \in 0 .. Len(captures) + Len(segments) /\ Len(captures) \in Nat /\ Len(segments) \in Nat
  BY InputsTyped DEF ReportsInv, Placed
<1>2. CASE LookAtCapture
  <2>. DEFINE v == captures[at + 1]
  <2>1. v \in Windows /\ v = Given[at + 1] /\ at < Len(captures) + Len(segments)
    <3>1. at < Len(captures)
      BY <1>2 DEF LookAtCapture
    <3>2. v \in Windows /\ v = Given[at + 1]
      BY ONLY <1>1, <3>1, NextGiven
    <3>. QED  BY <1>1, <3>1, <3>2
  <2>2. /\ at' = at + 1 /\ UNCHANGED input /\ at < Len(captures)
        /\ IF Superseded(v) THEN UNCHANGED <<reports, omitted>>
           ELSE IF Malformed(v) # None THEN Omit(v, Malformed(v))
           ELSE IF v.runner \notin AllRunners THEN Omit(v, "unknown runner")
           ELSE Report(v, v.runner)
    BY <1>2 DEF LookAtCapture
  <2>. HIDE DEF v
  <2>3. (Malformed(v) = None <=> UsableWindow(v)) /\ (Malformed(v) # None => Malformed(v) \in Reasons)
    BY <2>1, UsableIsWellFormed
  <2>4. "unknown runner" \in Reasons
    BY DEF Reasons
  <2>. QED  BY <1>1, <2>1, <2>2, <2>3, <2>4, Moves DEF Skipped
<1>3. CASE LookAtSegment
  <2>. DEFINE v == segments[at - Len(captures) + 1]
  <2>1. v \in Windows /\ v = Given[at + 1] /\ at < Len(captures) + Len(segments) /\ ~(at < Len(captures))
    BY <1>1, <1>3, NextGiven DEF LookAtSegment
  <2>2. /\ at' = at + 1 /\ UNCHANGED input
        /\ IF Malformed(v) # None THEN Omit(v, Malformed(v)) ELSE Report(v, "breakable")
    BY <1>3 DEF LookAtSegment
  <2>. HIDE DEF v
  <2>3. (Malformed(v) = None <=> UsableWindow(v)) /\ (Malformed(v) # None => Malformed(v) \in Reasons)
    BY <2>1, UsableIsWellFormed
  <2>4. "breakable" \in AllRunners
    BY DEF AllRunners
  <2>. QED  BY <1>1, <2>1, <2>2, <2>3, <2>4, Moves DEF Skipped
<1>4. CASE UNCHANGED vars
  <2>1. Read' /\ UsableEntries' = UsableEntries
    BY <1>4, InputKept DEF ReportsInv, vars
  <2>2. Placed'
    BY <1>4, <2>1 DEF ReportsInv, Placed, vars, input, UsableWindow
  <2>3. ASSUME NEW w \in Windows PROVE Counted(w)'
    <3>1. Looked(w)' = Looked(w) /\ Reported(w)' = Reported(w) /\ LeftOut(w)' = LeftOut(w)
      BY <1>4 DEF vars, input, Looked, Reported, LeftOut, Given, UsableWindow
    <3>2. Counted(w)
      BY DEF ReportsInv
    <3>. QED  BY <3>1, <3>2 DEF Counted
  <2>. QED  BY <2>1, <2>2, <2>3 DEF ReportsInv
<1>. QED  BY <1>2, <1>3, <1>4 DEF Next

(* The counts say that no window is dropped in silence.                    *)
LEMMA ReportsInvGives == ReportsInv => NeverSilentlyDropped
<1>. SUFFICES ASSUME ReportsInv, NEW w \in ToSet(Given)
     PROVE  /\ Cardinality(Looked(w)) = Cardinality(Reported(w)) + Cardinality(LeftOut(w))
            /\ Reported(w) # {} => UsableWindow(w)
            /\ LeftOut(w) # {} /\ UsableWindow(w) => w.runner \notin AllRunners
  BY DEF NeverSilentlyDropped
<1>1. w \in Windows
  <2>1. Given \in Seq(Windows)
    BY InputsTyped DEF ReportsInv, Given
  <2>. QED  BY <2>1 DEF ToSet
<1>2. Counted(w)
  BY <1>1 DEF ReportsInv
<1>3. ASSUME Reported(w) # {} PROVE UsableWindow(w)
  <2>1. PICK q \in AllRunners : \E i \in DOMAIN reports[q] : reports[q][i].window = w
    BY <1>3 DEF Reported
  <2>2. PICK i \in DOMAIN reports[q] : reports[q][i].window = w
    BY <2>1
  <2>3. reports[q] \in Seq(UsableEntries)
    BY DEF ReportsInv, Placed
  <2>4. reports[q][i] \in UsableEntries
    BY <2>2, <2>3
  <2>5. PICK v \in Windows : UsableWindow(v) /\ reports[q][i] = Entry(v)
    BY <2>4 DEF UsableEntries
  <2>. QED  BY <2>2, <2>5 DEF Entry
<1>4. ASSUME LeftOut(w) # {}, UsableWindow(w) PROVE w.runner \notin AllRunners
  BY <1>4 DEF LeftOut, ReportsInv, Placed
<1>. QED  BY <1>2, <1>3, <1>4 DEF Counted

(* The inductive invariant of _build_reports, for any windows,             *)
(* allocations and segments.                                               *)
THEOREM ReportsInvariant == Spec => []ReportsInv
<1>1. Init => ReportsInv
  BY ReportsInvInit
<1>2. ReportsInv /\ [Next]_vars => ReportsInv'
  BY ReportsInvStep
<1>. QED  BY <1>1, <1>2, PTL DEF Spec

(* For any list of windows, malformed ones and those of breakable          *)
(* captures included, a window is reported or omitted as often as it was   *)
(* looked at (_build_reports).                                             *)
THEOREM NothingDropped == MapSpec => []NeverSilentlyDropped
<1>1. ReportsInv => NeverSilentlyDropped
  BY ReportsInvGives
<1>. QED  BY <1>1, MapImplementsReports, ReportsInvariant, PTL

-----------------------------------------------------------------------------
(* The sweep over the ends of the lifetimes in a window.                   *)

Marks == [live : Int, peak : Int, ord : Int]

Swept(t, n, q) ==
    /\ t \in [0 .. n -> Marks]
    /\ t[0] = [live |-> 0, peak |-> 0, ord |-> 0]
    /\ \A k \in 1 .. n : t[k] = Add(t[k - 1], q[k])

(* A step of the sweep keeps the types of its marks.                       *)
LEMMA AddTyped ==
    ASSUME NEW s \in Marks, NEW d, d.by \in Int, d.ord \in Int
    PROVE  Add(s, d) \in Marks
BY DEF Add, Marks

(* The sweep as a sequence of steps, one for each end of a lifetime.       *)
LEMMA SweepSteps ==
    ASSUME NEW n \in Nat, NEW q, DOMAIN q = 1 .. n,
           \A i \in 1 .. n : q[i].by \in Int /\ q[i].ord \in Int
    PROVE  \E t : Swept(t, n, q) /\ FoldLeft(Add, [live |-> 0, peak |-> 0, ord |-> 0], q) = t[n]
<1>. DEFINE base == [live |-> 0, peak |-> 0, ord |-> 0]
            D == {q[i] : i \in 1 .. n}
            step == [p \in Marks \X D |-> Add(p[1], p[2])]
            Eq(it) == it = [T \in SUBSET DOMAIN q |->
                             IF T = {} THEN base ELSE Add(it[T \ {Max(T)}], q[Max(T)])]
            iter == CHOOSE it : Eq(it)
<1>1. base \in Marks
  BY DEF Marks
<1>2. step \in [Marks \X D -> Marks]
  BY AddTyped
<1>3. PICK it \in [SUBSET DOMAIN q -> Marks] :
         it = [T \in SUBSET DOMAIN q |->
                 IF T = {} THEN base ELSE step[<<it[T \ {Max(T)}], q[Max(T)]>>]]
  <2>1. \A i \in 1 .. n : q[i] \in D
    OBVIOUS
  <2>2. n \in Nat /\ DOMAIN q = 1 .. n
    OBVIOUS
  <2>3. \E it : FoldsUp(it, q, Marks, base, step)
    <3>. HIDE DEF base, D, step
    <3>. QED  BY ONLY <1>1, <1>2, <2>1, <2>2, FoldExists
  <2>. HIDE DEF base, D, step
  <2>. QED  BY ONLY <2>3 DEF FoldsUp
<1>4. ASSUME NEW T \in SUBSET DOMAIN q, T # {}
      PROVE  step[<<it[T \ {Max(T)}], q[Max(T)]>>] = Add(it[T \ {Max(T)}], q[Max(T)])
  <2>1. Max(T) \in T
    <3>1. IsFiniteSet(T) /\ T \in SUBSET Int
      BY FS_Interval, FS_Subset
    <3>. QED  BY <1>4, <3>1, MaxExists
  <2>2. it[T \ {Max(T)}] \in Marks /\ q[Max(T)] \in D
    BY <2>1, <1>3
  <2>. QED  BY <2>2
<1>5. Eq(it)
  <2>. HIDE DEF step
  <2>. QED  BY <1>3, <1>4
<1>6. Eq(iter)
  <2>. HIDE DEF Eq
  <2>. QED  BY <1>5
<1>7. FoldLeft(Add, base, q) = iter[DOMAIN q]
  BY DEF FoldLeft, MapThenFoldSet
<1>. DEFINE t == [k \in 0 .. n |-> iter[1 .. k]]
<1>. HIDE DEF iter
<1>8. iter[{}] = base
  BY <1>6
<1>9. ASSUME NEW k \in 1 .. n
      PROVE  iter[1 .. k] = Add(iter[1 .. k - 1], q[k])
  <2>1. 1 .. k \in SUBSET DOMAIN q /\ 1 .. k # {} /\ Max(1 .. k) = k /\ (1 .. k) \ {k} = 1 .. k - 1
    <3>1. k - 1 \in 0 .. n - 1 /\ (k - 1) + 1 = k
      OBVIOUS
    <3>. QED  BY <3>1, FirstPlaces
  <2>2. iter[1 .. k] = Add(iter[(1 .. k) \ {Max(1 .. k)}], q[Max(1 .. k)])
    BY <1>6, <2>1
  <2>. QED  BY <2>1, <2>2
<1>10. t[0] = base
  <2>1. 1 .. 0 = {}
    OBVIOUS
  <2>. HIDE DEF base
  <2>. QED  BY <1>8, <2>1
<1>11. \A k \in 1 .. n : t[k] = Add(t[k - 1], q[k])
  BY <1>9
<1>. HIDE DEF t
<1>12. ASSUME NEW k \in 0 .. n PROVE t[k] \in Marks
  <2>. DEFINE H == {m \in Nat : m \in 0 .. n => t[m] \in Marks}
  <2>1. 0 \in H
    BY <1>1, <1>10
  <2>2. ASSUME NEW m \in Nat, m \in H PROVE m + 1 \in H
    <3>1. SUFFICES ASSUME m + 1 \in 0 .. n PROVE t[m + 1] \in Marks
      OBVIOUS
    <3>2. m + 1 \in 1 .. n /\ (m + 1) - 1 = m /\ m \in 0 .. n
      BY <3>1
    <3>3. t[m + 1] = Add(t[m], q[m + 1])
      BY <1>11, <3>2
    <3>. QED  BY <2>2, <3>2, <3>3, AddTyped
  <2>3. k \in H
    <3>. HIDE DEF H
    <3>. QED  BY <2>1, <2>2, SetInduction
  <2>. QED  BY <2>3
<1>13. t = [k \in 0 .. n |-> t[k]] /\ t[n] = iter[DOMAIN q]
  BY DEF t
<1>14. t \in [0 .. n -> Marks]
  BY <1>12, <1>13
<1>. QED  BY <1>7, <1>10, <1>11, <1>13, <1>14 DEF Swept

(* The peak is the highest, and its ordinal that at which it was reached.  *)
HighestOf(t, m, q) ==
    /\ \A k \in 0 .. m : t[k].live <= t[m].peak
    /\ \/ t[m].peak = 0
       \/ \E i \in 1 .. m :
            t[i].live = t[m].peak /\ t[i - 1].live < t[m].peak /\ t[m].ord = q[i].ord

(* After any number of steps the peak is the highest count so far, and     *)
(* its ordinal that of the step that first reached it.                     *)
LEMMA SweepPeak ==
    ASSUME NEW n \in Nat, NEW q, \A i \in 1 .. n : q[i].by \in Int /\ q[i].ord \in Int,
           NEW t, Swept(t, n, q)
    PROVE  HighestOf(t, n, q)
<1>1. /\ t \in [0 .. n -> Marks]
      /\ t[0] = [live |-> 0, peak |-> 0, ord |-> 0]
      /\ \A k \in 1 .. n : t[k] = Add(t[k - 1], q[k])
  BY DEF Swept
<1>. DEFINE H == {m \in Nat : m <= n => HighestOf(t, m, q)}
<1>2. 0 \in H
  <2>1. t[0].live = 0 /\ t[0].peak = 0
    BY <1>1
  <2>. QED  BY <2>1 DEF HighestOf
<1>3. ASSUME NEW m \in Nat, m \in H PROVE m + 1 \in H
  <2>1. SUFFICES ASSUME m + 1 <= n PROVE HighestOf(t, m + 1, q)
    OBVIOUS
  <2>2. HighestOf(t, m, q) /\ m \in 0 .. n /\ m + 1 \in 1 .. n /\ (m + 1) - 1 = m
    BY <1>3, <2>1
  <2>3. t[m + 1] = Add(t[m], q[m + 1])
    BY <1>1, <2>2
  <2>. DEFINE now == t[m].live + q[m + 1].by
  <2>4. /\ t[m].live \in Int /\ t[m].peak \in Int /\ q[m + 1].by \in Int /\ now \in Int
        /\ \A k \in 0 .. m : t[k].live \in Int /\ t[k].live <= t[m].peak
    BY <1>1, <2>2 DEF Marks, HighestOf
  <2>5. /\ t[m + 1].live = now
        /\ now > t[m].peak => t[m + 1].peak = now /\ t[m + 1].ord = q[m + 1].ord
        /\ ~(now > t[m].peak) => t[m + 1].peak = t[m].peak /\ t[m + 1].ord = t[m].ord
    BY <2>3 DEF Add
  <2>6. t[m].live <= t[m].peak
    BY <2>2, <2>4
  <2>7. \A k \in 0 .. m + 1 : k \in 0 .. m \/ k = m + 1
    OBVIOUS
  <2>. HIDE DEF now
  <2>8. \A k \in 0 .. m + 1 : t[k].live <= t[m + 1].peak
    BY <2>4, <2>5, <2>7
  <2>9. CASE now > t[m].peak
    <3>1. t[m + 1].live = t[m + 1].peak /\ t[m].live < t[m + 1].peak /\ t[m + 1].ord = q[m + 1].ord
      BY <2>4, <2>5, <2>6, <2>9
    <3>2. m + 1 \in 1 .. m + 1
      OBVIOUS
    <3>. QED  BY <2>2, <2>8, <3>1, <3>2 DEF HighestOf
  <2>10. CASE ~(now > t[m].peak)
    <3>1. t[m + 1].peak = t[m].peak /\ t[m + 1].ord = t[m].ord
      BY <2>5, <2>10
    <3>2. \A i \in 1 .. m : i \in 1 .. m + 1
      OBVIOUS
    <3>. QED  BY <2>2, <2>8, <3>1, <3>2 DEF HighestOf
  <2>. QED  BY <2>9, <2>10
<1>4. n \in H
  <2>. HIDE DEF H
  <2>. QED  BY <1>2, <1>3, SetInduction
<1>. QED  BY <1>4

(* What is live after some places is the sum of what they add.             *)
FirstOf(q, k) == {q[i] : i \in 1 .. k}
ByIn(D) == [d \in D |-> d.by]

Sweepable(q, n, D) ==
    /\ n \in Nat /\ q \in [1 .. n -> D]
    /\ \A d \in D : d.by \in Int /\ d.ord \in Int
    /\ \A i, j \in 1 .. n : q[i] = q[j] => i = j

(* What is live after some steps is the sum of what they added.            *)
LEMMA SweepAddsUp ==
    ASSUME NEW D, NEW q, NEW n, Sweepable(q, n, D), NEW t, Swept(t, n, q), NEW k \in 0 .. n
    PROVE  /\ IsFiniteSet(FirstOf(q, k)) /\ FirstOf(q, k) \in SUBSET D
           /\ t[k].live = SumFunctionOnSet(ByIn(D), FirstOf(q, k))
<1>0. /\ n \in Nat /\ q \in [1 .. n -> D]
      /\ \A d \in D : d.by \in Int /\ d.ord \in Int
      /\ \A i, j \in 1 .. n : q[i] = q[j] => i = j
  BY DEF Sweepable
<1>1. /\ t \in [0 .. n -> Marks]
      /\ t[0] = [live |-> 0, peak |-> 0, ord |-> 0]
      /\ \A m \in 1 .. n : t[m] = Add(t[m - 1], q[m])
  BY DEF Swept
<1>. DEFINE f == ByIn(D)
            P(m) == IsFiniteSet(FirstOf(q, m)) /\ t[m].live = SumFunctionOnSet(f, FirstOf(q, m))
            H == {m \in Nat : m <= n => P(m)}
<1>2. 0 \in H
  <2>1. FirstOf(q, 0) = {}
    BY DEF FirstOf
  <2>2. t[0].live = 0
    BY <1>1
  <2>. QED  BY <2>1, <2>2, SumOfNothing, FS_EmptySet
<1>3. ASSUME NEW m \in Nat, m \in H PROVE m + 1 \in H
  <2>1. SUFFICES ASSUME m + 1 <= n PROVE P(m + 1)
    OBVIOUS
  <2>2. P(m) /\ m \in 0 .. n /\ m + 1 \in 1 .. n /\ (m + 1) - 1 = m
    BY <1>0, <1>3, <2>1
  <2>3. t[m + 1] = Add(t[m], q[m + 1])
    BY <1>1, <2>2
  <2>4. t[m + 1].live = t[m].live + q[m + 1].by
    BY <2>3 DEF Add
  <2>5. FirstOf(q, m + 1) = FirstOf(q, m) \cup {q[m + 1]}
    BY DEF FirstOf
  <2>6. q[m + 1] \notin FirstOf(q, m)
    BY <1>0, <2>2 DEF FirstOf
  <2>7. \A d \in FirstOf(q, m) : f[d] \in Int
    BY <1>0, <2>2 DEF FirstOf, ByIn
  <2>8. f[q[m + 1]] = q[m + 1].by /\ q[m + 1].by \in Int /\ t[m].live \in Int
    BY <1>0, <1>1, <2>2 DEF ByIn, Marks
  <2>9. IsFiniteSet(FirstOf(q, m))
    BY <2>2
  <2>10. f[q[m + 1]] \in Int
    BY <2>8
  <2>. DEFINE x == q[m + 1]
              S == FirstOf(q, m)
  <2>. HIDE DEF f, x, S
  <2>11. SumFunctionOnSet(f, S \cup {x}) = f[x] + SumFunctionOnSet(f, S)
    BY ONLY <2>6, <2>7, <2>9, <2>10, SumWithOneMore DEF x, S
  <2>12. IsFiniteSet(S \cup {x})
    BY <2>9, FS_AddElement DEF S
  <2>13. t[m].live = SumFunctionOnSet(f, S)
    BY <2>2 DEF S
  <2>14. FirstOf(q, m + 1) = S \cup {x} /\ f[x] = x.by /\ x.by \in Int /\ t[m].live \in Int
         /\ t[m + 1].live = t[m].live + x.by
    BY <2>4, <2>5, <2>8 DEF x, S
  <2>15. t[m + 1].live = SumFunctionOnSet(f, S \cup {x})
    BY ONLY <2>11, <2>13, <2>14
  <2>16. IsFiniteSet(FirstOf(q, m + 1)) /\ t[m + 1].live = SumFunctionOnSet(f, FirstOf(q, m + 1))
    BY ONLY <2>12, <2>14, <2>15
  <2>. QED  BY ONLY <2>16
<1>4. k \in H /\ k <= n
  <2>. HIDE DEF H
  <2>. QED  BY <1>0, <1>2, <1>3, SetInduction
<1>5. FirstOf(q, k) \in SUBSET D
  BY <1>0 DEF FirstOf
<1>. QED  BY <1>4, <1>5

(* What is before a mark in the order of a list is its first places.       *)
LEMMA BeforeIsFirst ==
    ASSUME NEW n \in Nat, NEW D, NEW R, NEW q, Lists(q, n, D, R), NEW P \in SUBSET D,
           \A x \in P, y \in D : <<y, x>> \in R => y \in P
    PROVE  \E k \in 0 .. n : P = FirstOf(q, k)
<1>. DEFINE I == {i \in 1 .. n : q[i] \in P}
<1>1. CASE I = {}
  <2>1. P = FirstOf(q, 0)
    BY <1>1 DEF Lists, FirstOf
  <2>. QED  BY <2>1
<1>2. CASE I # {}
  <2>1. PICK m \in I : \A k \in I : k <= m
    <3>1. I \subseteq 1 .. n
      OBVIOUS
    <3>. HIDE DEF I
    <3>. QED  BY <1>2, <3>1, LargestExists
  <2>2. ASSUME NEW i \in 1 .. m PROVE q[i] \in P
    <3>1. i = m \/ i < m
      BY <2>1
    <3>2. i \in 1 .. n /\ m \in 1 .. n /\ q[i] \in D
      BY <2>1 DEF Lists
    <3>. QED  BY <2>1, <3>1, <3>2 DEF Lists
  <2>3. ASSUME NEW x \in P PROVE \E i \in 1 .. m : q[i] = x
    <3>1. PICK i \in 1 .. n : q[i] = x
      BY DEF Lists
    <3>2. i <= m
      BY <2>1, <3>1
    <3>. QED  BY <3>1, <3>2
  <2>4. P = FirstOf(q, m)
    BY <2>2, <2>3 DEF FirstOf
  <2>. QED  BY <2>1, <2>4
<1>. QED  BY <1>1, <1>2

(* Sums of what is taken away.                                             *)
LEMMA SumOfNegatives ==
    ASSUME NEW S, IsFiniteSet(S), NEW f, NEW g, \A x \in S : f[x] \in Int /\ g[x] = -f[x]
    PROVE  SumFunctionOnSet(g, S) = -SumFunctionOnSet(f, S)
<1>1. PICK h : AddsUp(h, f, S)
  BY AddingUp
<1>. DEFINE k == [T \in SUBSET S |-> -h[T]]
<1>2. h \in [SUBSET S -> Int] /\ h[{}] = 0
  BY <1>1 DEF AddsUp
<1>3. k \in [SUBSET S -> Int] /\ k[{}] = 0
  <2>1. \A T \in SUBSET S : h[T] \in Int
    BY <1>2
  <2>. QED  BY <1>2, <2>1
<1>4. ASSUME NEW T \in SUBSET S, NEW x \in S, x \notin T
      PROVE  k[T \cup {x}] = g[x] + k[T]
  <2>1. h[T \cup {x}] = f[x] + h[T]
    BY <1>1, <1>4 DEF AddsUp
  <2>2. T \cup {x} \in SUBSET S
    OBVIOUS
  <2>3. k[T \cup {x}] = -h[T \cup {x}] /\ k[T] = -h[T]
    BY <2>2
  <2>4. h[T] \in Int /\ f[x] \in Int /\ g[x] = -f[x]
    BY <1>2
  <2>. HIDE DEF k
  <2>. QED  BY ONLY <2>1, <2>3, <2>4
<1>5. AddsUp(k, g, S)
  <2>. HIDE DEF k
  <2>. QED  BY <1>3, <1>4 DEF AddsUp
<1>6. SumFunctionOnSet(f, S) = h[S]
  BY <1>1, SumIs
<1>7. SumFunctionOnSet(g, S) = k[S]
  <2>. HIDE DEF k
  <2>. QED  BY <1>5, SumIs
<1>8. k[S] = -h[S]
  OBVIOUS
<1>. QED  BY <1>6, <1>7, <1>8

(* The allocations that overlap a window, as its sweep gets them.          *)
InWindow(A, w) ==
    /\ w.begin \in Nat /\ w.end \in Nat /\ w.begin <= w.end
    /\ IsFiniteSet(A)
    /\ \A a \in A : /\ a.size \in Nat /\ a.size > 0 /\ a.alloc \in Nat /\ a.free \in Nat
                    /\ a.alloc < a.free /\ Overlaps(a, w)
    /\ \A a, b \in A : a # b => a.alloc # b.alloc /\ a.alloc # b.free

(* A lifetime clipped to a window.                                         *)
LEMMA ClippedIs ==
    ASSUME NEW a, a.alloc \in Nat, a.free \in Nat, NEW w, w.begin \in Nat, w.end \in Nat
    PROVE  /\ Begins(a, w).of = a /\ Begins(a, w).by = a.size
           /\ Ends(a, w).of = a /\ Ends(a, w).by = -a.size
           /\ Begins(a, w).ord = IF a.alloc >= w.begin THEN a.alloc ELSE w.begin
           /\ Ends(a, w).ord = IF a.free <= w.end THEN a.free ELSE w.end
           /\ Clipped(a, w).from = Begins(a, w).ord /\ Clipped(a, w).to = Ends(a, w).ord
<1>1. Max({a.alloc, w.begin}) = IF a.alloc >= w.begin THEN a.alloc ELSE w.begin
  BY OfTwo
<1>2. Min({a.free, w.end}) = IF a.free <= w.end THEN a.free ELSE w.end
  <2>1. a.free \in Int /\ w.end \in Int
    OBVIOUS
  <2>. QED  BY ONLY <2>1, OfTwo
<1>3. /\ Clipped(a, w).from = Max({a.alloc, w.begin})
      /\ Clipped(a, w).to = Min({a.free, w.end})
  BY DEF Clipped
<1>4. /\ Begins(a, w).of = a /\ Begins(a, w).by = a.size /\ Begins(a, w).ord = Clipped(a, w).from
      /\ Ends(a, w).of = a /\ Ends(a, w).by = -a.size /\ Ends(a, w).ord = Clipped(a, w).to
  BY DEF Begins, Ends
<1>. QED  BY ONLY <1>1, <1>2, <1>3, <1>4

(* Every delta is the begin or the end of its allocation, at an ordinal    *)
(* of the window.                                                          *)
LEMMA DeltasAre ==
    ASSUME NEW A, NEW w, InWindow(A, w)
    PROVE  /\ \A d \in Deltas(A, w) : /\ d.of \in A /\ d.by \in Int /\ d.ord \in Nat
                                      /\ d.by > 0 => d = Begins(d.of, w)
                                      /\ d.by <= 0 => d = Ends(d.of, w)
                                      /\ w.begin <= d.ord /\ d.ord <= w.end
           /\ \A a \in A : /\ Begins(a, w) \in Deltas(A, w) /\ Ends(a, w) \in Deltas(A, w)
                           /\ Begins(a, w).by > 0 /\ Ends(a, w).by < 0
<1>1. ASSUME NEW a \in A
      PROVE  /\ a.size \in Nat /\ a.size > 0 /\ a.alloc \in Nat /\ a.free \in Nat
             /\ w.begin \in Nat /\ w.end \in Nat /\ w.begin <= w.end
             /\ a.alloc < w.end /\ w.begin < a.free
  BY DEF InWindow, Overlaps
<1>2. ASSUME NEW a \in A
      PROVE  /\ Begins(a, w).of = a /\ Begins(a, w).by = a.size
             /\ Ends(a, w).of = a /\ Ends(a, w).by = -a.size
             /\ Begins(a, w).by > 0 /\ Ends(a, w).by < 0
             /\ Begins(a, w).by \in Int /\ Ends(a, w).by \in Int
             /\ Begins(a, w).ord \in Nat /\ Ends(a, w).ord \in Nat
             /\ w.begin <= Begins(a, w).ord /\ Begins(a, w).ord <= w.end
             /\ w.begin <= Ends(a, w).ord /\ Ends(a, w).ord <= w.end
  BY <1>1, ClippedIs
<1>3. \A d \in Deltas(A, w) : \E a \in A : d = Begins(a, w) \/ d = Ends(a, w)
  BY DEF Deltas
<1>4. \A a \in A : Begins(a, w) \in Deltas(A, w) /\ Ends(a, w) \in Deltas(A, w)
  BY DEF Deltas
<1>5. ASSUME NEW d \in Deltas(A, w)
      PROVE  /\ d.of \in A /\ d.by \in Int /\ d.ord \in Nat
             /\ d.by > 0 => d = Begins(d.of, w)
             /\ d.by <= 0 => d = Ends(d.of, w)
             /\ w.begin <= d.ord /\ d.ord <= w.end
  <2>1. PICK a \in A : d = Begins(a, w) \/ d = Ends(a, w)
    BY <1>3
  <2>. QED  BY ONLY <1>2, <2>1
<1>. QED  BY <1>2, <1>4, <1>5

(* The bytes live after some ends, when no allocation ends among them that *)
(* did not begin among them.                                               *)
Between(A, w, P) == {a \in A : Begins(a, w) \in P /\ Ends(a, w) \notin P}

(* Deltas that have no end without its begin add up to the bytes of those  *)
(* begun and not ended.                                                    *)
LEMMA DeltasAddUp ==
    ASSUME NEW A, NEW w, InWindow(A, w), NEW P \in SUBSET Deltas(A, w), IsFiniteSet(P),
           \A a \in A : Ends(a, w) \in P => Begins(a, w) \in P
    PROVE  /\ SumFunctionOnSet(ByIn(Deltas(A, w)), P) = BytesIn(Between(A, w, P))
           /\ Sized(A)
<1>. DEFINE D == Deltas(A, w)
            S == {a \in A : Begins(a, w) \in P}
            E == {a \in A : Ends(a, w) \in P}
            PS == {Begins(a, w) : a \in S}
            PE == {Ends(a, w) : a \in E}
            f == SizeIn(A)
            g == ByIn(D)
            neg == [a \in E |-> -a.size]
<1>0. \A a \in A : /\ Begins(a, w).of = a /\ Begins(a, w).by = a.size
                   /\ Ends(a, w).of = a /\ Ends(a, w).by = -a.size /\ a.size \in Nat /\ a.size > 0
  BY ClippedIs DEF InWindow
<1>1. Sized(A) /\ IsFiniteSet(A) /\ S \in SUBSET A /\ E \in SUBSET S /\ E \in SUBSET A
  BY DEF Sized, InWindow
<1>2. IsFiniteSet(S) /\ IsFiniteSet(E)
  BY <1>1, FS_Subset
<1>3. P = PS \cup PE
  <2>1. ASSUME NEW d \in P PROVE d \in PS \/ d \in PE
    <3>1. d.of \in A /\ (d = Begins(d.of, w) \/ d = Ends(d.of, w))
      BY DeltasAre
    <3>. QED  BY <3>1
  <2>. QED  BY <2>1
<1>4. PS \cap PE = {}
  BY <1>0
<1>5. \A d \in P : g[d] \in Int /\ g[d] = d.by
  BY DeltasAre DEF ByIn
<1>6. IsFiniteSet(PS) /\ SumFunctionOnSet(g, PS) = SumFunctionOnSet(f, S)
  <2>. DEFINE b == [a \in S |-> Begins(a, w)]
  <2>1. \A x, y \in S : b[x] = b[y] => x = y
    BY <1>0
  <2>2. \A x \in S : b[x] \in PS
    OBVIOUS
  <2>3. \A y \in PS : \E x \in S : y = b[x]
    OBVIOUS
  <2>4. \A x \in S : f[x] \in Int
    BY <1>0 DEF SizeIn
  <2>5. \A x \in S : g[b[x]] = f[x]
    BY <1>0, <1>1 DEF SizeIn, ByIn
  <2>. HIDE DEF b, f, g, S, PS
  <2>. QED  BY ONLY <1>2, <2>1, <2>2, <2>3, <2>4, <2>5, SumRenamed
<1>7. IsFiniteSet(PE) /\ SumFunctionOnSet(g, PE) = SumFunctionOnSet(neg, E)
  <2>. DEFINE b == [a \in E |-> Ends(a, w)]
  <2>1. \A x, y \in E : b[x] = b[y] => x = y
    BY <1>0
  <2>2. \A x \in E : b[x] \in PE
    OBVIOUS
  <2>3. \A y \in PE : \E x \in E : y = b[x]
    OBVIOUS
  <2>4. \A x \in E : neg[x] \in Int
    BY <1>0
  <2>5. \A x \in E : g[b[x]] = neg[x]
    BY <1>0, <1>1 DEF ByIn
  <2>. HIDE DEF b, neg, g, E, PE
  <2>. QED  BY ONLY <1>2, <2>1, <2>2, <2>3, <2>4, <2>5, SumRenamed
<1>8. SumFunctionOnSet(neg, E) = -SumFunctionOnSet(f, E)
  <2>1. \A x \in E : f[x] \in Int /\ neg[x] = -f[x]
    BY <1>0, <1>1 DEF SizeIn
  <2>. HIDE DEF f, neg, E
  <2>. QED  BY ONLY <1>2, <2>1, SumOfNegatives
<1>9. SumFunctionOnSet(g, PS \cup PE) = SumFunctionOnSet(g, PS) + SumFunctionOnSet(g, PE)
  <2>1. \A d \in PS \cup PE : g[d] \in Int
    BY <1>3, <1>5
  <2>. HIDE DEF g, PS, PE
  <2>. QED  BY ONLY <1>4, <1>6, <1>7, <2>1, SumOfBoth
<1>10. BytesIn(S) = SumFunctionOnSet(f, S) /\ BytesIn(E) = SumFunctionOnSet(f, E)
  <2>. HIDE DEF S, E
  <2>. QED  BY <1>1, BytesSum
<1>11. Between(A, w, P) = S \ E
  BY DEF Between
<1>12. BytesIn(S) = BytesIn(S \ E) + BytesIn(E)
  <2>1. Sized(S \ E) /\ Sized(E)
    BY <1>1, BytesSum
  <2>2. (S \ E) \cap E = {} /\ (S \ E) \cup E = S
    BY <1>1
  <2>. HIDE DEF S, E
  <2>. QED  BY <2>1, <2>2, BytesOfBoth
<1>13. BytesIn(S \ E) \in Nat /\ BytesIn(E) \in Nat /\ BytesIn(S) \in Nat
  <2>. HIDE DEF S, E
  <2>. QED  BY <1>1, BytesSum
<1>14. SumFunctionOnSet(g, P) = SumFunctionOnSet(f, S) + (-SumFunctionOnSet(f, E))
  BY <1>3, <1>6, <1>7, <1>8, <1>9
<1>. HIDE DEF S, E, PS, PE, f, g, neg
<1>15. SumFunctionOnSet(g, P) = BytesIn(S \ E)
  <2>. DEFINE u == BytesIn(S \ E)
              v == BytesIn(E)
  <2>1. u \in Int /\ v \in Int
    BY <1>13
  <2>2. SumFunctionOnSet(g, P) = (u + v) + (-v)
    BY <1>10, <1>12, <1>14
  <2>. HIDE DEF u, v
  <2>3. (u + v) + (-v) = u
    BY ONLY <2>1
  <2>. QED  BY ONLY <2>2, <2>3 DEF u
<1>. QED  BY <1>1, <1>11, <1>15 DEF g

(* The order of the ends is a total one: an event begins or ends one        *)
(* lifetime.                                                                *)
LEMMA DeltasOrdered ==
    ASSUME NEW A, NEW w, InWindow(A, w)
    PROVE  /\ TotallyOrders({p \in Deltas(A, w) \X Deltas(A, w) : Sooner(p[1], p[2])}, Deltas(A, w))
           /\ IsFiniteSet(Deltas(A, w))
<1>. DEFINE D == Deltas(A, w)
            R == {p \in D \X D : Sooner(p[1], p[2])}
<1>1. ASSUME NEW d \in D
      PROVE  /\ d.of \in A /\ d.by \in Int /\ d.ord \in Nat /\ d.of.alloc \in Nat
             /\ d.by > 0 => d = Begins(d.of, w)
             /\ d.by <= 0 => d = Ends(d.of, w)
  BY DeltasAre DEF InWindow
<1>2. \A x, y \in D : <<x, y>> \in R <=> Sooner(x, y)
  OBVIOUS
<1>. HIDE DEF R, D
<1>3. \A x \in D : <<x, x>> \notin R
  BY <1>1, <1>2 DEF Sooner
<1>4. \A x, y, z \in D : <<x, y>> \in R /\ <<y, z>> \in R => <<x, z>> \in R
  BY <1>1, <1>2 DEF Sooner
<1>5. ASSUME NEW x \in D, NEW y \in D, x # y
      PROVE  <<x, y>> \in R \/ <<y, x>> \in R
  <2>1. SUFFICES ASSUME x.ord = y.ord, x.by = y.by, x.of.alloc = y.of.alloc PROVE FALSE
    BY <1>1, <1>2 DEF Sooner
  <2>2. x.of = y.of
    BY <1>1, <2>1 DEF InWindow
  <2>3. CASE x.by > 0
    BY <1>1, <1>5, <2>1, <2>2, <2>3
  <2>4. CASE x.by <= 0
    BY <1>1, <1>5, <2>1, <2>2, <2>4
  <2>. QED  BY <1>1, <2>3, <2>4
<1>6. IsFiniteSet(D)
  <2>. DEFINE b == [a \in A |-> Begins(a, w)]
              e == [a \in A |-> Ends(a, w)]
              U == {b[a] : a \in A}
              V == {e[a] : a \in A}
  <2>1. IsFiniteSet(A)
    BY DEF InWindow
  <2>2. IsFiniteSet(U) /\ IsFiniteSet(V)
    <3>. DEFINE f == [a \in A |-> 0]
                g == [u \in U |-> 0]
                h == [v \in V |-> 0]
    <3>1. \A a \in A : Begins(a, w).of = a /\ Ends(a, w).of = a
      BY ClippedIs DEF InWindow
    <3>2. (\A x, y \in A : b[x] = b[y] => x = y) /\ (\A x, y \in A : e[x] = e[y] => x = y)
      BY <3>1
    <3>3. (\A x \in A : b[x] \in U /\ e[x] \in V)
      OBVIOUS
    <3>4. (\A u \in U : \E x \in A : u = b[x]) /\ (\A v \in V : \E x \in A : v = e[x])
      OBVIOUS
    <3>5. \A x \in A : f[x] \in Int /\ g[b[x]] = f[x] /\ h[e[x]] = f[x]
      OBVIOUS
    <3>. HIDE DEF b, e, U, V, f, g, h
    <3>6. IsFiniteSet(U)
      BY ONLY <2>1, <3>2, <3>3, <3>4, <3>5, SumRenamed
    <3>7. IsFiniteSet(V)
      BY ONLY <2>1, <3>2, <3>3, <3>4, <3>5, SumRenamed
    <3>. QED  BY <3>6, <3>7
  <2>3. D = U \cup V
    BY DEF D, Deltas
  <2>. HIDE DEF U, V
  <2>. QED  BY <2>2, <2>3, FS_Union
<1>. QED  BY <1>3, <1>4, <1>5, <1>6 DEF TotallyOrders, R, D

(* What is before one of the first in the order is one of the first.       *)
LEMMA FirstAreBefore ==
    ASSUME NEW n \in Nat, NEW D, NEW R, TotallyOrders(R, D), NEW q, Lists(q, n, D, R), NEW k \in 0 .. n,
           NEW i \in 1 .. n, NEW j \in 1 .. n, <<q[i], q[j]>> \in R
    PROVE  i < j
<1>1. q[i] \in D /\ q[j] \in D
  BY DEF Lists
<1>2. i # j
  BY <1>1 DEF TotallyOrders
<1>3. ~(j < i)
  <2>1. SUFFICES ASSUME j < i PROVE FALSE
    OBVIOUS
  <2>2. <<q[j], q[i]>> \in R
    BY <2>1 DEF Lists
  <2>3. <<q[i], q[i]>> \in R
    BY <1>1, <2>2 DEF TotallyOrders
  <2>. QED  BY <1>1, <2>3 DEF TotallyOrders
<1>. QED  BY <1>2, <1>3

(* The sweep of a window, step by step: after each end, the bytes of the    *)
(* lifetimes that have begun and not ended.                                *)
Sweeps(q, t, n, A, w) ==
    /\ Lists(q, n, Deltas(A, w), {p \in Deltas(A, w) \X Deltas(A, w) : Sooner(p[1], p[2])})
    /\ Swept(t, n, q) /\ HighestOf(t, n, q) /\ Sweep(A, w) = t[n]
    /\ \A k \in 0 .. n : t[k].live = BytesIn(Between(A, w, FirstOf(q, k)))

(* The sweep over a window, in the order of the ends of its lifetimes.     *)
LEMMA WindowSwept ==
    ASSUME NEW A, NEW w, InWindow(A, w)
    PROVE  \E n \in Nat : \E q, t : Sweeps(q, t, n, A, w)
<1>. DEFINE D == Deltas(A, w)
            R == {p \in D \X D : Sooner(p[1], p[2])}
            n == Cardinality(D)
            q == InOrder(D)
<1>1. TotallyOrders(R, D) /\ IsFiniteSet(D)
  BY DeltasOrdered
<1>2. n \in Nat
  BY <1>1, FS_CardinalityType
<1>3. Lists(q, n, D, R)
  <2>1. q = SortedBy(D, R)
    BY DEF InOrder
  <2>. HIDE DEF D, R, q
  <2>. QED  BY ONLY <1>1, <2>1, SortedLists DEF n
<1>4. \A d \in D : d.by \in Int /\ d.ord \in Int
  BY DeltasAre
<1>. HIDE DEF R, q, n, D
<1>5. q \in [1 .. n -> D] /\ DOMAIN q = 1 .. n
  BY <1>3 DEF Lists
<1>6. \A i, j \in 1 .. n : q[i] = q[j] => i = j
  <2>1. ASSUME NEW i \in 1 .. n, NEW j \in 1 .. n, i < j PROVE q[i] # q[j]
    <3>1. <<q[i], q[j]>> \in R /\ q[i] \in D
      BY <1>3, <2>1 DEF Lists
    <3>. QED  BY <1>1, <3>1 DEF TotallyOrders
  <2>2. ASSUME NEW i \in 1 .. n, NEW j \in 1 .. n, q[i] = q[j] PROVE i = j
    <3>1. i < j \/ j < i \/ i = j
      OBVIOUS
    <3>. QED  BY <2>1, <2>2, <3>1
  <2>. QED  BY <2>2
<1>7. \A i \in 1 .. n : q[i].by \in Int /\ q[i].ord \in Int
  BY <1>4, <1>5
<1>8. PICK t : Swept(t, n, q) /\ FoldLeft(Add, [live |-> 0, peak |-> 0, ord |-> 0], q) = t[n]
  BY ONLY <1>2, <1>5, <1>7, SweepSteps
<1>9. Sweep(A, w) = t[n]
  BY <1>8 DEF Sweep, q, D
<1>10. HighestOf(t, n, q)
  BY ONLY <1>2, <1>7, <1>8, SweepPeak
<1>11. ASSUME NEW k \in 0 .. n
       PROVE  t[k].live = BytesIn(Between(A, w, FirstOf(q, k)))
  <2>1. /\ IsFiniteSet(FirstOf(q, k)) /\ FirstOf(q, k) \in SUBSET D
        /\ t[k].live = SumFunctionOnSet(ByIn(D), FirstOf(q, k))
    <3>1. Sweepable(q, n, D)
      BY <1>2, <1>4, <1>5, <1>6 DEF Sweepable
    <3>2. Swept(t, n, q)
      BY <1>8
    <3>3. k \in 0 .. n
      OBVIOUS
    <3>. QED  BY ONLY <3>1, <3>2, <3>3, SweepAddsUp
  <2>2. ASSUME NEW a \in A, Ends(a, w) \in FirstOf(q, k) PROVE Begins(a, w) \in FirstOf(q, k)
    <3>1. Begins(a, w) \in D /\ Ends(a, w) \in D /\ Begins(a, w).by > 0 /\ Ends(a, w).by < 0
      BY DeltasAre DEF D
    <3>2. Begins(a, w).ord <= Ends(a, w).ord /\ Begins(a, w).by \in Int /\ Ends(a, w).by \in Int
          /\ Begins(a, w).ord \in Nat /\ Ends(a, w).ord \in Nat
      <4>1. /\ a.alloc \in Nat /\ a.free \in Nat /\ w.begin \in Nat /\ w.end \in Nat
            /\ w.begin <= w.end /\ a.alloc < a.free /\ a.alloc < w.end /\ w.begin < a.free
            /\ a.size \in Nat
        BY DEF InWindow, Overlaps
      <4>. QED  BY <4>1, ClippedIs
    <3>3. Sooner(Begins(a, w), Ends(a, w))
      BY <3>1, <3>2 DEF Sooner
    <3>4. PICK j \in 1 .. k : q[j] = Ends(a, w)
      BY <2>2 DEF FirstOf
    <3>5. PICK i \in 1 .. n : q[i] = Begins(a, w)
      BY <1>3, <3>1 DEF Lists
    <3>6. <<q[i], q[j]>> \in R
      BY <3>1, <3>3, <3>4, <3>5 DEF R
    <3>7. i < j
      <4>1. j \in 1 .. n
        BY <1>2
      <4>. QED  BY <1>1, <1>2, <1>3, <3>6, <4>1, FirstAreBefore
    <3>. QED  BY <1>2, <3>4, <3>5, <3>7 DEF FirstOf
  <2>3. SumFunctionOnSet(ByIn(D), FirstOf(q, k)) = BytesIn(Between(A, w, FirstOf(q, k)))
    BY <2>1, <2>2, DeltasAddUp DEF D
  <2>. QED  BY <2>1, <2>3
<1>12. Sweeps(q, t, n, A, w)
  BY <1>3, <1>8, <1>9, <1>10, <1>11 DEF Sweeps, R, D
<1>. QED  BY <1>2, <1>12

-----------------------------------------------------------------------------
(* The peak of a sweep.                                                    *)

(* What a sweep counts at an ordinal.                                      *)
Lives(A, w, o) == {a \in A : Begins(a, w).ord <= o /\ o < Ends(a, w).ord}

(* At every ordinal there is a step after which the count is the bytes of  *)
(* what is live then.                                                      *)
LEMMA LiveAfterAll ==
    ASSUME NEW A, NEW w, InWindow(A, w), NEW n \in Nat, NEW q, NEW t, Sweeps(q, t, n, A, w), NEW o \in Int
    PROVE  \E k \in 0 .. n : /\ FirstOf(q, k) = {d \in Deltas(A, w) : d.ord <= o}
                             /\ t[k].live = BytesIn(Lives(A, w, o))
<1>. DEFINE D == Deltas(A, w)
            R == {p \in D \X D : Sooner(p[1], p[2])}
            P == {d \in D : d.ord <= o}
<1>1. \A d \in D : d.ord \in Nat
  BY DeltasAre
<1>2. \A x \in P, y \in D : <<y, x>> \in R => y \in P
  BY <1>1 DEF Sooner
<1>3. Lists(q, n, D, R)
  BY DEF Sweeps
<1>4. PICK k \in 0 .. n : P = FirstOf(q, k)
  <2>1. P \in SUBSET D
    OBVIOUS
  <2>. HIDE DEF D, R, P
  <2>. QED  BY <1>2, <1>3, <2>1, BeforeIsFirst
<1>5. Between(A, w, P) = Lives(A, w, o)
  <2>1. \A a \in A : /\ Begins(a, w) \in D /\ Ends(a, w) \in D
                     /\ Begins(a, w).ord \in Nat /\ Ends(a, w).ord \in Nat
    BY <1>1, DeltasAre
  <2>. QED  BY <2>1 DEF Between, Lives
<1>6. t[k].live = BytesIn(Between(A, w, FirstOf(q, k)))
  BY DEF Sweeps
<1>. QED  BY <1>4, <1>5, <1>6

(* No lifetime ends where another begins in the window, so that at the      *)
(* ordinal of the peak nothing follows it that would take away from it.    *)
LEMMA SweepPeakIs ==
    ASSUME NEW A, NEW w, InWindow(A, w), w.begin < w.end,
           NEW n \in Nat, NEW q, NEW t, Sweeps(q, t, n, A, w)
    PROVE  /\ t[n].peak \in Nat
           /\ \A o \in w.begin .. w.end - 1 : BytesIn(Lives(A, w, o)) <= t[n].peak
           /\ t[n].peak > 0 => /\ t[n].ord \in w.begin .. w.end - 1
                               /\ BytesIn(Lives(A, w, t[n].ord)) = t[n].peak
<1>. DEFINE D == Deltas(A, w)
            R == {p \in D \X D : Sooner(p[1], p[2])}
            s == t[n]
<1>1. /\ t \in [0 .. n -> Marks] /\ HighestOf(t, n, q) /\ Lists(q, n, D, R)
      /\ t[0].live = 0
      /\ \A k \in 1 .. n : t[k].live = t[k - 1].live + q[k].by
  <2>1. Swept(t, n, q)
    BY DEF Sweeps
  <2>2. \A k \in 1 .. n : t[k] = Add(t[k - 1], q[k])
    BY <2>1 DEF Swept
  <2>3. ASSUME NEW k \in 1 .. n PROVE t[k].live = t[k - 1].live + q[k].by
    <3>1. t[k] = Add(t[k - 1], q[k])
      BY <2>2
    <3>. QED  BY ONLY <3>1 DEF Add
  <2>4. t[0] = [live |-> 0, peak |-> 0, ord |-> 0]
    BY <2>1 DEF Swept
  <2>. QED  BY <2>1, <2>3, <2>4 DEF Sweeps, Swept
<1>2. \A k \in 0 .. n : t[k].live \in Int /\ t[k].live <= s.peak
  BY <1>1 DEF HighestOf, Marks
<1>3. s.peak \in Nat
  <2>1. s.peak \in Int
    BY <1>1 DEF Marks
  <2>2. 0 \in 0 .. n
    OBVIOUS
  <2>3. 0 <= s.peak
    BY <1>1, <1>2, <2>2
  <2>. HIDE DEF s
  <2>. QED  BY <2>1, <2>3
<1>4. ASSUME NEW o \in w.begin .. w.end - 1
      PROVE  BytesIn(Lives(A, w, o)) <= s.peak
  <2>1. o \in Int
    BY DEF InWindow
  <2>2. PICK k \in 0 .. n : t[k].live = BytesIn(Lives(A, w, o))
    BY <2>1, LiveAfterAll
  <2>. QED  BY <1>2, <2>2
<1>5. ASSUME s.peak > 0
      PROVE  s.ord \in w.begin .. w.end - 1 /\ BytesIn(Lives(A, w, s.ord)) = s.peak
  <2>1. PICK i \in 1 .. n : t[i].live = s.peak /\ t[i - 1].live < s.peak /\ s.ord = q[i].ord
    BY <1>1, <1>5 DEF HighestOf
  <2>2. q[i] \in D /\ q[i].by \in Int /\ q[i].by > 0
    <3>1. q[i] \in D
      BY <1>1 DEF Lists
    <3>2. q[i].by \in Int
      BY <3>1, DeltasAre
    <3>3. t[i].live = t[i - 1].live + q[i].by /\ t[i - 1].live \in Int /\ t[i].live \in Int
      BY <1>1, <1>2
    <3>. QED  BY ONLY <2>1, <3>1, <3>2, <3>3
  <2>. DEFINE x == q[i].of
              o == s.ord
  <2>3. x \in A /\ q[i] = Begins(x, w) /\ o = Begins(x, w).ord
    BY <2>1, <2>2, DeltasAre
  <2>4. \A a \in A : /\ a.alloc \in Nat /\ a.free \in Nat /\ w.begin \in Nat /\ w.end \in Nat
                     /\ a.alloc < a.free /\ a.alloc < w.end /\ w.begin < a.free
                     /\ Begins(a, w).ord = IF a.alloc >= w.begin THEN a.alloc ELSE w.begin
                     /\ Ends(a, w).ord = IF a.free <= w.end THEN a.free ELSE w.end
    BY ClippedIs DEF InWindow, Overlaps
  <2>. HIDE DEF x, o, s
  <2>5. o \in w.begin .. w.end - 1
    BY <2>3, <2>4
  <2>6. \A a \in A : Ends(a, w).ord # o
    <3>1. \A a \in A : a # x => x.alloc # a.free
      BY <2>3 DEF InWindow
    <3>. QED  BY ONLY <2>3, <2>4, <2>5, <3>1, w.begin < w.end
  <2>7. o \in Int
    BY <2>4, <2>5, <2>3
  <2>8. PICK k \in 0 .. n : /\ FirstOf(q, k) = {d \in D : d.ord <= o}
                            /\ t[k].live = BytesIn(Lives(A, w, o))
    BY <2>7, LiveAfterAll
  <2>9. Between(A, w, FirstOf(q, i)) \subseteq Lives(A, w, o)
    <3>1. SUFFICES ASSUME NEW a \in A, Begins(a, w) \in FirstOf(q, i), Ends(a, w) \notin FirstOf(q, i)
                   PROVE  Begins(a, w).ord <= o /\ o < Ends(a, w).ord
      BY DEF Between, Lives
    <3>2. /\ Begins(a, w) \in D /\ Ends(a, w) \in D
          /\ Begins(a, w).ord \in Nat /\ Ends(a, w).ord \in Nat
      BY DeltasAre
    <3>3. q[i].ord = o
      BY <2>1 DEF o
    <3>4. Begins(a, w).ord <= o
      <4>1. PICK j \in 1 .. i : q[j] = Begins(a, w)
        BY <3>1 DEF FirstOf
      <4>2. CASE j = i
        BY <3>2, <3>3, <4>1, <4>2
      <4>3. CASE j < i
        <5>1. <<q[j], q[i]>> \in R
          BY <1>1, <4>1, <4>3 DEF Lists
        <5>. QED  BY <3>2, <3>3, <2>7, <4>1, <5>1 DEF Sooner
      <4>. QED  BY <4>2, <4>3
    <3>5. o <= Ends(a, w).ord
      <4>1. PICK j \in 1 .. n : q[j] = Ends(a, w)
        BY <1>1, <3>2 DEF Lists
      <4>2. i < j
        BY <3>1, <4>1 DEF FirstOf
      <4>3. <<q[i], q[j]>> \in R
        BY <1>1, <4>1, <4>2 DEF Lists
      <4>. QED  BY <3>2, <3>3, <2>7, <4>1, <4>3 DEF Sooner
    <3>. QED  BY <2>6, <2>7, <3>2, <3>4, <3>5
  <2>10. t[i].live = BytesIn(Between(A, w, FirstOf(q, i)))
    BY DEF Sweeps
  <2>11. BytesIn(Between(A, w, FirstOf(q, i))) <= BytesIn(Lives(A, w, o))
    <3>1. Sized(A)
      BY DEF InWindow, Sized
    <3>2. Lives(A, w, o) \in SUBSET A
      BY DEF Lives
    <3>3. Sized(Lives(A, w, o))
      BY <3>1, <3>2, BytesSum
    <3>. QED  BY <2>9, <3>3, BytesOfPart
  <2>12. BytesIn(Lives(A, w, o)) <= s.peak
    BY <1>4, <2>5
  <2>13. BytesIn(Lives(A, w, o)) = s.peak
    <3>1. t[k].live \in Int /\ s.peak \in Int
      BY <1>2, <1>3
    <3>. QED  BY ONLY <2>1, <2>8, <2>10, <2>11, <2>12, <3>1
  <2>. QED  BY <2>5, <2>13 DEF o
<1>. QED  BY <1>3, <1>4, <1>5

(* Where a window has no ordinals, everything that lives across it begins    *)
(* before anything ends.                                                   *)
LEMMA SweepOfNothing ==
    ASSUME NEW A, NEW w, InWindow(A, w), w.begin = w.end,
           NEW n \in Nat, NEW q, NEW t, Sweeps(q, t, n, A, w)
    PROVE  t[n].peak = BytesIn(A)
<1>. DEFINE D == Deltas(A, w)
            R == {p \in D \X D : Sooner(p[1], p[2])}
            P == {Begins(a, w) : a \in A}
<1>1. /\ t \in [0 .. n -> Marks] /\ HighestOf(t, n, q) /\ Lists(q, n, D, R)
  BY DEF Sweeps, Swept
<1>2. \A d \in D : /\ d.ord = w.begin /\ d.by \in Int /\ d.of \in A /\ w.begin \in Nat
                   /\ (d.by > 0 => d = Begins(d.of, w))
  BY DeltasAre DEF InWindow
<1>3. \A a \in A : Begins(a, w) \in D /\ Begins(a, w).by > 0 /\ Ends(a, w) \in D /\ Ends(a, w).by < 0
  BY DeltasAre
<1>4. \A x \in P, y \in D : <<y, x>> \in R => y \in P
  <2>1. ASSUME NEW x \in P, NEW y \in D, <<y, x>> \in R PROVE y \in P
    <3>1. x \in D /\ x.by > 0
      BY <1>3
    <3>2. y.by > 0
      BY <1>2, <2>1, <3>1 DEF Sooner
    <3>. QED  BY <1>2, <3>2
  <2>. QED  BY <2>1
<1>5. PICK k \in 0 .. n : P = FirstOf(q, k)
  <2>1. P \in SUBSET D
    BY <1>3
  <2>2. Lists(q, n, D, R)
    BY <1>1
  <2>. HIDE DEF D, R, P
  <2>. QED  BY ONLY n \in Nat, <1>4, <2>1, <2>2, BeforeIsFirst
<1>6. Between(A, w, P) = A
  <2>1. \A a \in A : Ends(a, w) \notin P
    BY <1>2, <1>3
  <2>. QED  BY <2>1 DEF Between
<1>7. \A j \in 0 .. n : t[j].live = BytesIn(Between(A, w, FirstOf(q, j)))
  BY DEF Sweeps
<1>8. \A j \in 0 .. n : t[j].live \in Int /\ t[j].live <= t[n].peak
  BY <1>1 DEF HighestOf, Marks
<1>9. t[k].live = BytesIn(A)
  <2>. HIDE DEF P
  <2>. QED  BY <1>5, <1>6, <1>7
<1>10. Sized(A)
  BY DEF InWindow, Sized
<1>11. ASSUME NEW j \in 0 .. n PROVE t[j].live <= BytesIn(A)
  <2>1. Between(A, w, FirstOf(q, j)) \in SUBSET A
    BY DEF Between
  <2>. QED  BY <1>7, <1>10, <2>1, BytesOfPart
<1>12. t[n].peak \in Int /\ BytesIn(A) \in Nat
  BY <1>1, <1>10, BytesSum DEF Marks
<1>13. t[n].peak = 0 \/ \E j \in 0 .. n : t[j].live = t[n].peak
  <2>1. \A j \in 1 .. n : j \in 0 .. n
    OBVIOUS
  <2>. QED  BY <1>1, <2>1 DEF HighestOf
<1>. QED  BY ONLY <1>5, <1>8, <1>9, <1>11, <1>12, <1>13

InWin(w) == {a \in Graph : Overlaps(a, w)}

(* An entry of the reports is that of a usable window.                     *)
LEMMA EntriesUsable ==
    ASSUME ReportsInv, NEW e \in Entries
    PROVE  \E w \in Windows : UsableWindow(w) /\ e = Entry(w)
<1>1. PICK r \in AllRunners : e \in ToSet(reports[r])
  BY DEF Entries
<1>2. reports[r] \in Seq(UsableEntries)
  BY DEF ReportsInv, Placed
<1>3. e \in UsableEntries
  BY <1>1, <1>2 DEF ToSet
<1>. QED  BY <1>3 DEF UsableEntries

(* The ends of a usable window.                                            *)
LEMMA UsableTyped ==
    ASSUME NEW w \in Windows, UsableWindow(w)
    PROVE  w.begin \in Nat /\ w.end \in Nat /\ w.begin <= w.end
<1>1. w.begin \in Int /\ w.end \in Int
  BY DEF Windows, UsableWindow
<1>. QED  BY <1>1 DEF UsableWindow

(* The allocations of the graph pool, no two of which begin at one         *)
(* ordinal.                                                                *)
LEMMA GraphTyped ==
    ASSUME Read
    PROVE  /\ IsFiniteSet(Graph)
           /\ \A a \in Graph : /\ a.addr \in Nat /\ a.size \in Nat /\ a.size > 0
                               /\ a.alloc \in Nat /\ a.free \in Nat /\ a.alloc < a.free
           /\ \A a, b \in Graph : a # b => a.alloc # b.alloc /\ a.alloc # b.free
<1>1. Graph \subseteq allocs
  BY DEF Graph
<1>2. IsFiniteSet(allocs)
  BY InputsTyped
<1>3. IsFiniteSet(Graph)
  BY ONLY <1>1, <1>2, FS_Subset
<1>4. \A a \in allocs : /\ a.addr \in Nat /\ a.size \in Nat /\ a.size > 0
                        /\ a.alloc \in Nat /\ a.free \in Nat /\ a.alloc < a.free /\ a.free <= End
  <2>1. allocs \subseteq [addr : Nat, size : Nat \ {0}, alloc : Nat, free : Nat]
        /\ \A a \in allocs : a.alloc < a.free /\ a.free <= End
    BY InputsTyped
  <2>. QED  BY ONLY <2>1
<1>5. End \in Nat /\ \A a, b \in allocs : a # b => {a.alloc, a.free} \cap {b.alloc, b.free} \subseteq {End}
  BY InputsTyped
<1>6. ASSUME NEW a \in allocs, NEW b \in allocs, a # b
      PROVE  a.alloc # b.alloc /\ a.alloc # b.free
  <2>1. a.alloc # End
    BY <1>4, <1>5
  <2>2. {a.alloc, a.free} \cap {b.alloc, b.free} \subseteq {End}
    BY <1>5, <1>6
  <2>. QED  BY ONLY <2>1, <2>2
<1>. QED  BY <1>1, <1>3, <1>4, <1>6

(* The allocations that overlap a window are what the lemmas of the sweep  *)
(* are about.                                                              *)
LEMMA InWinIsWindow ==
    ASSUME Read, NEW w \in Windows, UsableWindow(w)
    PROVE  InWindow(InWin(w), w)
<1>1. InWin(w) \subseteq Graph /\ \A a \in InWin(w) : Overlaps(a, w)
  BY DEF InWin
<1>2. IsFiniteSet(InWin(w))
  BY ONLY <1>1, GraphTyped, Read, FS_Subset
<1>. QED  BY <1>1, <1>2, GraphTyped, UsableTyped DEF InWindow

(* At an ordinal of the window, what the sweep counts is what is live.     *)
LEMMA LivesAreLive ==
    ASSUME Read, NEW w \in Windows, UsableWindow(w), NEW o \in w.begin .. w.end - 1
    PROVE  Lives(InWin(w), w, o) = {a \in Graph : a.alloc <= o /\ o < a.free}
<1>1. w.begin \in Nat /\ w.end \in Nat /\ w.begin <= o /\ o < w.end /\ o \in Int
  BY UsableTyped
<1>2. ASSUME NEW a \in Graph
      PROVE  /\ a \in InWin(w) /\ Begins(a, w).ord <= o /\ o < Ends(a, w).ord
                <=> a.alloc <= o /\ o < a.free
  <2>1. a.alloc \in Nat /\ a.free \in Nat
    BY GraphTyped
  <2>2. /\ Begins(a, w).ord = IF a.alloc >= w.begin THEN a.alloc ELSE w.begin
        /\ Ends(a, w).ord = IF a.free <= w.end THEN a.free ELSE w.end
    BY <1>1, <2>1, ClippedIs
  <2>3. a \in InWin(w) <=> a.alloc < w.end /\ w.begin < a.free
    BY DEF InWin, Overlaps
  <2>. QED  BY ONLY <1>1, <2>1, <2>2, <2>3
<1>3. InWin(w) \subseteq Graph
  BY DEF InWin
<1>. QED  BY <1>2, <1>3 DEF Lives

(* The peak of an entry is that of the sweep.                              *)
LEMMA EntryPeak ==
    ASSUME Read, NEW w \in Windows, UsableWindow(w)
    PROVE  /\ Entry(w).window = w
           /\ Entry(w).metrics.peak = Sweep(InWin(w), w).peak
           /\ Entry(w).metrics.ord = Sweep(InWin(w), w).ord
BY DEF Entry, WindowMetrics, InWin

(* Every entry has the peak of its window.                                 *)
LEMMA ReportsInvPeak == ReportsInv => PeakIsReached
<1>. SUFFICES ASSUME ReportsInv, NEW e \in Entries
     PROVE  LET w == e.window IN
        /\ w.begin < w.end =>
             /\ e.metrics.peak = Max({LiveBytes(o) : o \in w.begin .. w.end - 1})
             /\ e.metrics.peak > 0 =>
                  /\ e.metrics.ord \in w.begin .. w.end - 1
                  /\ LiveBytes(e.metrics.ord) = e.metrics.peak
        /\ w.begin = w.end /\ w.begin > 0 =>
             e.metrics.peak = BytesIn({a \in Graph : a.alloc <= w.begin - 1 /\ w.begin < a.free})
  BY DEF PeakIsReached
<1>0. Read
  BY DEF ReportsInv
<1>1. PICK w \in Windows : UsableWindow(w) /\ e = Entry(w)
  BY EntriesUsable
<1>2. e.window = w /\ e.metrics.peak = Sweep(InWin(w), w).peak /\ e.metrics.ord = Sweep(InWin(w), w).ord
  BY <1>0, <1>1, EntryPeak
<1>3. w.begin \in Nat /\ w.end \in Nat /\ w.begin <= w.end
  BY <1>1, UsableTyped
<1>4. InWindow(InWin(w), w)
  BY <1>0, <1>1, InWinIsWindow
<1>5n. PICK n \in Nat : \E q, t : Sweeps(q, t, n, InWin(w), w)
  BY <1>4, WindowSwept
<1>5. PICK q, t : Sweeps(q, t, n, InWin(w), w)
  BY <1>5n
<1>6. e.metrics.peak = t[n].peak /\ e.metrics.ord = t[n].ord
  BY <1>2, <1>5 DEF Sweeps
<1>7. ASSUME w.begin < w.end
      PROVE  /\ e.metrics.peak = Max({LiveBytes(o) : o \in w.begin .. w.end - 1})
             /\ e.metrics.peak > 0 =>
                  /\ e.metrics.ord \in w.begin .. w.end - 1
                  /\ LiveBytes(e.metrics.ord) = e.metrics.peak
  <2>. DEFINE V == {LiveBytes(o) : o \in w.begin .. w.end - 1}
  <2>1. \A o \in w.begin .. w.end - 1 : LiveBytes(o) = BytesIn(Lives(InWin(w), w, o))
    BY <1>0, <1>1, LivesAreLive DEF LiveBytes
  <2>2. /\ t[n].peak \in Nat
        /\ \A o \in w.begin .. w.end - 1 : BytesIn(Lives(InWin(w), w, o)) <= t[n].peak
        /\ t[n].peak > 0 => /\ t[n].ord \in w.begin .. w.end - 1
                            /\ BytesIn(Lives(InWin(w), w, t[n].ord)) = t[n].peak
    BY <1>4, <1>5, <1>7, SweepPeakIs
  <2>3. \A o \in w.begin .. w.end - 1 : LiveBytes(o) \in Nat
    <3>1. Sized(Graph)
      BY <1>0, GraphTyped DEF Sized
    <3>. QED  BY <3>1, BytesSum DEF LiveBytes
  <2>4. t[n].peak > 0 => t[n].ord \in w.begin .. w.end - 1 /\ LiveBytes(t[n].ord) = t[n].peak
    BY <2>1, <2>2
  <2>5. \A o \in w.begin .. w.end - 1 : LiveBytes(o) <= t[n].peak
    BY <2>1, <2>2
  <2>6. t[n].peak \in V
    <3>1. CASE t[n].peak > 0
      BY <2>4, <3>1
    <3>2. CASE t[n].peak = 0
      <4>1. w.begin \in w.begin .. w.end - 1
        BY <1>3, <1>7
      <4>2. LiveBytes(w.begin) \in Nat /\ LiveBytes(w.begin) <= 0
        BY <2>3, <2>5, <3>2, <4>1
      <4>. QED  BY <3>2, <4>1, <4>2
    <3>. QED  BY <2>2, <3>1, <3>2
  <2>7. V \in SUBSET Int /\ \A v \in V : t[n].peak >= v
    <3>1. ASSUME NEW v \in V PROVE v \in Int /\ t[n].peak >= v
      BY <2>2, <2>3, <2>5
    <3>. QED  BY <3>1
  <2>8. Max(V) = t[n].peak
    <3>. HIDE DEF V
    <3>. QED  BY <2>6, <2>7, MaxIs
  <2>. QED  BY <1>6, <2>4, <2>8
<1>8. ASSUME w.begin = w.end, w.begin > 0
      PROVE  e.metrics.peak = BytesIn({a \in Graph : a.alloc <= w.begin - 1 /\ w.begin < a.free})
  <2>1. t[n].peak = BytesIn(InWin(w))
    BY <1>4, <1>5, <1>8, SweepOfNothing
  <2>2. InWin(w) = {a \in Graph : a.alloc <= w.begin - 1 /\ w.begin < a.free}
    <3>1. \A a \in Graph : a.alloc \in Nat
      BY <1>0, GraphTyped
    <3>. QED  BY <1>3, <1>8, <3>1 DEF InWin, Overlaps
  <2>. QED  BY <1>6, <2>1, <2>2
<1>. QED  BY <1>2, <1>7, <1>8

(* For any allocations and windows, the peak of a report is the most       *)
(* bytes simultaneously live in its window, and that many are live at its  *)
(* ordinal (_window_metrics).                                              *)
THEOREM PeakReached == MapSpec => []PeakIsReached
<1>1. ReportsInv => PeakIsReached
  BY ReportsInvPeak
<1>. QED  BY <1>1, MapImplementsReports, ReportsInvariant, PTL

-----------------------------------------------------------------------------
(* How a segment is filled.                                                *)

(* The longest stretch of a set of addresses.                              *)
LongestIs(m, F) ==
    /\ m \in Nat
    /\ \A p \in Runs(F) : p[2] - p[1] + 1 <= m
    /\ m = 0 \/ \E p \in Runs(F) : p[2] - p[1] + 1 = m

(* One more stretch above the others, and apart from them.                 *)
LEMMA LongestOfBoth ==
    ASSUME NEW c \in Int, NEW d \in Int, NEW F \in SUBSET Int, \A x \in F : x < c - 1,
           NEW m, LongestIs(m, F)
    PROVE  LongestIs(Max({m, d - c}), F \cup (c .. d - 1))
<1>. DEFINE H == F \cup (c .. d - 1)
            M == Max({m, d - c})
<1>1. m \in Nat /\ M = IF m >= d - c THEN m ELSE d - c
  <2>1. m \in Nat /\ d - c \in Int
    BY DEF LongestIs
  <2>. QED  BY <2>1, OfTwo
<1>2. ASSUME NEW p \in Runs(H)
      PROVE  /\ p[1] \in Int /\ p[2] \in Int
             /\ p \in Runs(F) \/ (p[1] \in c .. d - 1 /\ p[2] \in c .. d - 1 /\ p[1] <= p[2])
  <2>1. p[1] \in H /\ p[2] \in H /\ p[1] <= p[2] /\ p[1] .. p[2] \subseteq H /\ p = <<p[1], p[2]>>
    BY DEF Runs
  <2>2. p[1] \in Int /\ p[2] \in Int
    BY <2>1
  <2>3. c - 1 \notin H
    OBVIOUS
  <2>4. ~(p[1] <= c - 1 /\ c - 1 <= p[2])
    BY <2>1, <2>2, <2>3
  <2>5. CASE p[2] < c - 1
    <3>1. p[1] .. p[2] \subseteq F /\ p[1] \in F /\ p[2] \in F
      BY <2>1, <2>2, <2>5
    <3>. QED  BY <2>1, <3>1 DEF Runs
  <2>6. CASE p[1] > c - 1
    <3>1. p[1] \notin F /\ p[2] \notin F
      BY <2>1, <2>2, <2>6
    <3>. QED  BY <2>1, <3>1
  <2>. QED  BY <2>2, <2>4, <2>5, <2>6
<1>3. \A p \in Runs(H) : p[2] - p[1] + 1 <= M
  <2>1. ASSUME NEW p \in Runs(H) PROVE p[2] - p[1] + 1 <= M
    <3>1. p[1] \in Int /\ p[2] \in Int
      BY <1>2
    <3>2. CASE p \in Runs(F)
      <4>1. p[2] - p[1] + 1 <= m
        BY <3>2 DEF LongestIs
      <4>. HIDE DEF M
      <4>. QED  BY ONLY <1>1, <3>1, <4>1, c \in Int, d \in Int
    <3>3. CASE p[1] \in c .. d - 1 /\ p[2] \in c .. d - 1 /\ p[1] <= p[2]
      <4>. HIDE DEF M
      <4>. QED  BY ONLY <1>1, <3>1, <3>3, c \in Int, d \in Int
    <3>. QED  BY <1>2, <3>2, <3>3
  <2>. QED  BY <2>1
<1>4. M = 0 \/ \E p \in Runs(H) : p[2] - p[1] + 1 = M
  <2>1. CASE m >= d - c
    <3>1. M = m
      BY <1>1, <2>1
    <3>2. Runs(F) \subseteq Runs(H)
      BY DEF Runs
    <3>. QED  BY <3>1, <3>2 DEF LongestIs
  <2>2. CASE ~(m >= d - c)
    <3>1. M = d - c /\ c <= d - 1
      BY <1>1, <2>2
    <3>2. <<c, d - 1>> \in Runs(H)
      BY <3>1 DEF Runs
    <3>3. <<c, d - 1>>[2] - <<c, d - 1>>[1] + 1 = M
      BY <3>1
    <3>. QED  BY <3>2, <3>3
  <2>. QED  BY <2>1, <2>2
<1>5. M \in Nat
  BY <1>1
<1>. QED  BY <1>3, <1>4, <1>5 DEF LongestIs

(* The addresses of a segment that some allocations cover.                 *)
Addrs(seg) == seg.addr .. seg.addr + seg.size - 1
CoveredBy(B, seg) == {x \in Addrs(seg) : \E a \in B : Holds(a, x)}

(* What the pass knows of the allocations it has seen: everything below    *)
(* the cursor, and that the last address there is covered, by one that     *)
(* covers everything from where it begins.                                 *)
Filled(f, B, seg) ==
    /\ f.cursor \in seg.addr .. seg.addr + seg.size /\ f.covered \in Nat
    /\ \A x \in CoveredBy(B, seg) : x < f.cursor
    /\ \/ f.cursor = seg.addr
       \/ \E a \in B : a.addr < f.cursor /\ a.addr .. f.cursor - 1 \subseteq CoveredBy(B, seg)
    /\ IsFiniteSet(CoveredBy(B, seg)) /\ f.covered = Cardinality(CoveredBy(B, seg))
    /\ LongestIs(f.largest, (seg.addr .. f.cursor - 1) \ CoveredBy(B, seg))

(* How many integers lie between two.                                      *)
LEMMA IntervalSize ==
    ASSUME NEW a \in Int, NEW b \in Int
    PROVE  IsFiniteSet(a .. b) /\ Cardinality(a .. b) = IF a <= b THEN b - a + 1 ELSE 0
BY FS_Interval

(* One allocation more: the cursor, the bytes covered and the largest      *)
(* hole stay those of the addresses up to the cursor.                      *)
LEMMA FilledStep ==
    ASSUME NEW seg, seg.addr \in Nat, seg.size \in Nat, NEW B, NEW f, Filled(f, B, seg),
           \A b \in B : b.addr \in Nat /\ b.size \in Nat,
           NEW a, a.addr \in Nat, a.size \in Nat, a.size > 0, Within(a, seg),
           \A b \in B : b.addr <= a.addr
    PROVE  Filled(Pass1(f, a, seg), B \cup {a}, seg)
<1>. DEFINE end == seg.addr + seg.size
            hi == IF a.addr + a.size <= end THEN a.addr + a.size ELSE end
            c == f.cursor
            lo == IF c >= a.addr THEN c ELSE a.addr
            C == CoveredBy(B, seg)
            N == CoveredBy(B \cup {a}, seg)
            F == (seg.addr .. c - 1) \ C
            g == Pass1(f, a, seg)
            more == IF lo <= hi - 1 THEN hi - lo ELSE 0
<1>1. /\ c \in Int /\ seg.addr <= c /\ c <= end /\ f.covered \in Nat /\ f.largest \in Nat
      /\ end \in Int /\ seg.addr <= a.addr /\ a.addr < end
      /\ a.addr < hi /\ hi <= end /\ hi <= a.addr + a.size /\ hi \in Int /\ lo \in Int
  BY DEF Filled, LongestIs, Within
<1>2. /\ g.cursor = IF c >= hi THEN c ELSE hi
      /\ g.covered = f.covered + more
      /\ g.largest = Max({f.largest, a.addr - c})
  <2>1. Min({a.addr + a.size, end}) = hi
    <3>1. a.addr + a.size \in Int /\ end \in Int
      BY <1>1
    <3>. HIDE DEF end
    <3>. QED  BY ONLY <3>1, OfTwo DEF hi
  <2>2. Max({c, a.addr}) = lo
    <3>1. c \in Int /\ a.addr \in Int
      BY <1>1
    <3>. HIDE DEF c
    <3>. QED  BY ONLY <3>1, OfTwo DEF lo
  <2>3. Max({c, hi}) = IF c >= hi THEN c ELSE hi
    <3>. HIDE DEF c, hi
    <3>. QED  BY <1>1, OfTwo
  <2>4. Max({0, hi - lo}) = more
    <3>1. hi - lo \in Int /\ 0 \in Int
      BY <1>1
    <3>2. Max({0, hi - lo}) = IF 0 >= hi - lo THEN 0 ELSE hi - lo
      <4>. HIDE DEF hi, lo
      <4>. QED  BY ONLY <3>1, OfTwo
    <3>. HIDE DEF hi, lo
    <3>. QED  BY <1>1, <3>2
  <2>5. /\ g.cursor = Max({c, Min({a.addr + a.size, end})})
        /\ g.covered = f.covered + Max({0, Min({a.addr + a.size, end}) - Max({c, a.addr})})
        /\ g.largest = Max({f.largest, a.addr - c})
    BY DEF Pass1
  <2>. HIDE DEF hi, lo, more, c, end, g
  <2>. QED  BY ONLY <2>1, <2>2, <2>3, <2>4, <2>5
<1>. HIDE DEF g
<1>3. \A x \in C : x \in Int /\ x < c /\ seg.addr <= x
  BY DEF Filled, CoveredBy, Addrs
<1>4. c = seg.addr \/ (c - 1 \in C /\ \E b \in B : b.addr < c /\ b.addr .. c - 1 \subseteq C)
  <2>1. ASSUME NEW b \in B, b.addr < c, b.addr .. c - 1 \subseteq C PROVE c - 1 \in C
    <3>1. b.addr \in Int /\ c - 1 \in b.addr .. c - 1
      BY <1>1, <2>1
    <3>. QED  BY <2>1, <3>1
  <2>. QED  BY <2>1 DEF Filled
<1>5. \A x : x \in N <=> x \in C \/ x \in a.addr .. hi - 1
  BY <1>1 DEF CoveredBy, Holds, Addrs
<1>6. \A x \in a.addr .. c - 1 : x \in C
  BY <1>1, <1>4
<1>. HIDE DEF C, N
<1>7. \A x : x \in N <=> x \in C \/ x \in lo .. hi - 1
  BY <1>1, <1>5, <1>6
<1>8. g.cursor \in seg.addr .. end /\ g.covered \in Nat
  BY <1>1, <1>2
<1>9. \A x \in N : x < g.cursor
  BY <1>1, <1>2, <1>3, <1>5
<1>10. \E b \in B \cup {a} : b.addr < g.cursor /\ b.addr .. g.cursor - 1 \subseteq N
  <2>1. CASE c >= hi
    <3>1. g.cursor = c /\ c # seg.addr
      BY <1>1, <1>2, <2>1
    <3>. QED  BY <1>4, <1>5, <3>1
  <2>2. CASE ~(c >= hi)
    <3>1. g.cursor = hi
      BY <1>2, <2>2
    <3>2. a.addr .. hi - 1 \subseteq N
      BY <1>5
    <3>. QED  BY <1>1, <3>1, <3>2
  <2>. QED  BY <2>1, <2>2
<1>11. IsFiniteSet(N) /\ g.covered = Cardinality(N)
  <2>1. N = C \cup (lo .. hi - 1) /\ C \cap (lo .. hi - 1) = {}
    <3>1. \A x \in C : ~(x \in lo .. hi - 1)
      BY <1>1, <1>3
    <3>. QED  BY <1>7, <3>1
  <2>2. IsFiniteSet(C) /\ f.covered = Cardinality(C)
    BY DEF Filled, C
  <2>3. IsFiniteSet(lo .. hi - 1) /\ Cardinality(lo .. hi - 1) = more
    <3>1. lo \in Int /\ hi - 1 \in Int /\ (hi - 1) - lo + 1 = hi - lo
      BY <1>1
    <3>. HIDE DEF lo, hi
    <3>. QED  BY <3>1, IntervalSize
  <2>4. IsFiniteSet(N) /\ Cardinality(N) = Cardinality(C) + Cardinality(lo .. hi - 1) - Cardinality({})
    <3>. DEFINE I == lo .. hi - 1
    <3>1. IsFiniteSet(C) /\ IsFiniteSet(I) /\ N = C \cup I /\ C \cap I = {}
      BY <2>1, <2>2, <2>3
    <3>. HIDE DEF I
    <3>2. IsFiniteSet(N) /\ Cardinality(N) = Cardinality(C) + Cardinality(I) - Cardinality({})
      BY ONLY <3>1, FS_Union
    <3>. QED  BY <3>2 DEF I
  <2>5. Cardinality({}) = 0
    BY FS_EmptySet
  <2>. HIDE DEF more
  <2>6. Cardinality(N) = f.covered + more
    <3>1. f.covered \in Int /\ more \in Int
      BY <1>1 DEF more
    <3>. QED  BY ONLY <2>2, <2>3, <2>4, <2>5, <3>1
  <2>. QED  BY <1>2, <2>4, <2>6
<1>12. LongestIs(g.largest, (seg.addr .. g.cursor - 1) \ N)
  <2>1. LongestIs(f.largest, F)
    BY DEF Filled, C
  <2>2. F \in SUBSET Int /\ \A x \in F : x < c - 1
    <3>1. ASSUME NEW x \in F PROVE x \in Int /\ x < c - 1
      <4>1. x \in Int /\ seg.addr <= x /\ x <= c - 1 /\ x \notin C
        OBVIOUS
      <4>2. x # c - 1
        BY <1>1, <1>4, <4>1
      <4>. QED  BY <1>1, <4>1, <4>2
    <3>. QED  BY <3>1
  <2>3. (seg.addr .. g.cursor - 1) \ N = F \cup (c .. a.addr - 1)
    <3>1. ASSUME NEW x \in Int
          PROVE  x \in (seg.addr .. g.cursor - 1) \ N <=> x \in F \/ x \in c .. a.addr - 1
      BY <1>1, <1>2, <1>3, <1>7
    <3>2. \A x \in (seg.addr .. g.cursor - 1) \ N : x \in Int
      OBVIOUS
    <3>3. \A x \in F \cup (c .. a.addr - 1) : x \in Int
      OBVIOUS
    <3>. HIDE DEF F
    <3>. QED  BY <3>1, <3>2, <3>3
  <2>. HIDE DEF F
  <2>4. c \in Int /\ a.addr \in Int
    BY <1>1
  <2>5. LongestIs(Max({f.largest, a.addr - c}), F \cup (c .. a.addr - 1))
    <3>. HIDE DEF c
    <3>. QED  BY ONLY <2>1, <2>2, <2>4, LongestOfBoth
  <2>. QED  BY <1>2, <2>3, <2>5
<1>. QED  BY <1>8, <1>9, <1>10, <1>11, <1>12 DEF Filled, N, g

(* The allocations of a segment, one at a time.                            *)
InSegment(live, seg) ==
    /\ seg.addr \in Nat /\ seg.size \in Nat
    /\ IsFiniteSet(live)
    /\ \A a \in live : /\ a.addr \in Nat /\ a.size \in Nat /\ a.size > 0 /\ a.alloc \in Nat
                       /\ Within(a, seg)
    /\ \A a, b \in live : a # b => a.alloc # b.alloc

Fills == [cursor : Int, covered : Int, largest : Int]
Emptied(seg) == [cursor |-> seg.addr, covered |-> 0, largest |-> 0]

(* A step of the cursor keeps its types.                                   *)
LEMMA Pass1Typed ==
    ASSUME NEW seg, seg.addr \in Nat, seg.size \in Nat, NEW s \in Fills,
           NEW a, a.addr \in Nat, a.size \in Nat
    PROVE  Pass1(s, a, seg) \in Fills
<1>1. s.cursor \in Int /\ s.covered \in Int /\ s.largest \in Int
  BY DEF Fills
<1>. DEFINE hi == Min({a.addr + a.size, seg.addr + seg.size})
            lo == Max({s.cursor, a.addr})
<1>2. hi \in Int
  <2>1. a.addr + a.size \in Int /\ seg.addr + seg.size \in Int
    OBVIOUS
  <2>. QED  BY <2>1, OfTwo
<1>3. lo \in Int
  BY <1>1, OfTwo
<1>. HIDE DEF hi, lo
<1>4. Max({s.cursor, hi}) \in Int
  BY <1>1, <1>2, OfTwo
<1>5. Max({0, hi - lo}) \in Int
  <2>1. hi - lo \in Int /\ 0 \in Int
    BY <1>2, <1>3
  <2>. QED  BY ONLY <2>1, OfTwo
<1>6. Max({s.largest, a.addr - s.cursor}) \in Int
  <2>1. a.addr - s.cursor \in Int
    BY <1>1
  <2>. QED  BY ONLY <1>1, <2>1, OfTwo
<1>7. Pass1(s, a, seg) = [cursor  |-> Max({s.cursor, hi}),
                          covered |-> s.covered + Max({0, hi - lo}),
                          largest |-> Max({s.largest, a.addr - s.cursor})]
  BY DEF Pass1, hi, lo
<1>. QED  BY ONLY <1>1, <1>4, <1>5, <1>6, <1>7 DEF Fills

(* The order by address, size and ordinal is total.                        *)
LEMMA AddressOrder ==
    ASSUME NEW live, NEW seg, InSegment(live, seg)
    PROVE  TotallyOrders({p \in live \X live : Lower(p[1], p[2])}, live)
<1>. DEFINE R == {p \in live \X live : Lower(p[1], p[2])}
<1>1. \A x, y \in live : <<x, y>> \in R <=> Lower(x, y)
  OBVIOUS
<1>2. \A a \in live : a.addr \in Nat /\ a.size \in Nat /\ a.alloc \in Nat
  BY DEF InSegment
<1>3. \A a, b \in live : a # b => a.alloc # b.alloc
  BY DEF InSegment
<1>. HIDE DEF R
<1>. QED  BY <1>1, <1>2, <1>3 DEF TotallyOrders, Lower, R

(* The passes one after the other.                                         *)
Passes(t, n, q, live, seg) ==
    /\ t[0] = Emptied(seg)
    /\ \A k \in 1 .. n : t[k] = Pass1(t[k - 1], q[k], seg)
    /\ FillOf(live, seg) = t[n]

(* The cursor's way as a sequence of steps, one for each live range.       *)
LEMMA FillSteps ==
    ASSUME NEW live, NEW seg, InSegment(live, seg), NEW n \in Nat, NEW q, q = ByAddress(live),
           DOMAIN q = 1 .. n, \A i \in 1 .. n : q[i] \in live
    PROVE  \E t : Passes(t, n, q, live, seg)
<1>. DEFINE base == [cursor |-> seg.addr, covered |-> 0, largest |-> 0]
            step == [p \in Fills \X live |-> Pass1(p[1], p[2], seg)]
            Eq(it) == it = [T \in SUBSET DOMAIN q |->
                             IF T = {} THEN base ELSE Pass1(it[T \ {Max(T)}], q[Max(T)], seg)]
            iter == CHOOSE it : Eq(it)
<1>0. /\ seg.addr \in Nat /\ seg.size \in Nat
      /\ \A a \in live : a.addr \in Nat /\ a.size \in Nat
  BY DEF InSegment
<1>1. base \in Fills
  BY <1>0 DEF Fills
<1>2. step \in [Fills \X live -> Fills]
  BY <1>0, Pass1Typed
<1>3. PICK it \in [SUBSET DOMAIN q -> Fills] :
         it = [T \in SUBSET DOMAIN q |->
                 IF T = {} THEN base ELSE step[<<it[T \ {Max(T)}], q[Max(T)]>>]]
  <2>1. n \in Nat /\ DOMAIN q = 1 .. n
    OBVIOUS
  <2>2. \A i \in 1 .. n : q[i] \in live
    OBVIOUS
  <2>3. \E it : FoldsUp(it, q, Fills, base, step)
    <3>. HIDE DEF base, step
    <3>. QED  BY ONLY <1>1, <1>2, <2>1, <2>2, FoldExists
  <2>. HIDE DEF base, step
  <2>. QED  BY ONLY <2>3 DEF FoldsUp
<1>4. ASSUME NEW T \in SUBSET DOMAIN q, T # {}
      PROVE  step[<<it[T \ {Max(T)}], q[Max(T)]>>] = Pass1(it[T \ {Max(T)}], q[Max(T)], seg)
  <2>1. Max(T) \in T
    <3>1. IsFiniteSet(1 .. n)
      BY FS_Interval
    <3>2. IsFiniteSet(T) /\ T \in SUBSET Int
      BY <3>1, FS_Subset
    <3>. QED  BY <1>4, <3>2, MaxExists
  <2>2. it[T \ {Max(T)}] \in Fills /\ q[Max(T)] \in live
    BY <2>1, <1>3
  <2>. QED  BY <2>2
<1>5. Eq(it)
  <2>. HIDE DEF step
  <2>. QED  BY <1>3, <1>4
<1>6. Eq(iter)
  <2>. HIDE DEF Eq
  <2>. QED  BY <1>5
<1>7. FillOf(live, seg) = iter[DOMAIN q]
  BY DEF FillOf, FoldLeft, MapThenFoldSet
<1>. DEFINE t == [k \in 0 .. n |-> iter[1 .. k]]
<1>. HIDE DEF iter
<1>8. iter[{}] = base
  BY <1>6
<1>9. ASSUME NEW k \in 1 .. n
      PROVE  iter[1 .. k] = Pass1(iter[1 .. k - 1], q[k], seg)
  <2>1. 1 .. k \in SUBSET DOMAIN q /\ 1 .. k # {} /\ Max(1 .. k) = k /\ (1 .. k) \ {k} = 1 .. k - 1
    <3>1. k - 1 \in 0 .. n - 1 /\ (k - 1) + 1 = k
      OBVIOUS
    <3>. QED  BY <3>1, FirstPlaces
  <2>2. iter[1 .. k] = Pass1(iter[(1 .. k) \ {Max(1 .. k)}], q[Max(1 .. k)], seg)
    BY <1>6, <2>1
  <2>. QED  BY <2>1, <2>2
<1>10. t[0] = base
  <2>1. 1 .. 0 = {}
    OBVIOUS
  <2>. HIDE DEF base
  <2>. QED  BY <1>8, <2>1
<1>11. \A k \in 1 .. n : t[k] = Pass1(t[k - 1], q[k], seg)
  BY <1>9
<1>12. t[n] = iter[DOMAIN q]
  OBVIOUS
<1>. HIDE DEF t
<1>. QED  BY <1>7, <1>10, <1>11, <1>12 DEF Emptied, Passes

(* At the end the cursor has passed every live range.                      *)
LEMMA FillTrue ==
    ASSUME NEW live, NEW seg, InSegment(live, seg)
    PROVE  Filled(FillOf(live, seg), live, seg)
<1>. DEFINE R == {p \in live \X live : Lower(p[1], p[2])}
            n == Cardinality(live)
            q == ByAddress(live)
<1>1. TotallyOrders(R, live) /\ IsFiniteSet(live)
  BY AddressOrder DEF InSegment
<1>2. n \in Nat
  BY <1>1, FS_CardinalityType
<1>3. Lists(q, n, live, R)
  <2>1. q = SortedBy(live, R)
    BY DEF ByAddress
  <2>. HIDE DEF R, q
  <2>. QED  BY ONLY <1>1, <2>1, SortedLists DEF n
<1>4. seg.addr \in Nat /\ seg.size \in Nat
      /\ \A a \in live : a.addr \in Nat /\ a.size \in Nat /\ a.size > 0 /\ Within(a, seg)
  BY DEF InSegment
<1>5. \A x, y \in live : <<x, y>> \in R => x.addr <= y.addr
  BY <1>4 DEF Lower
<1>. HIDE DEF R, n, q
<1>6. DOMAIN q = 1 .. n /\ (\A i \in 1 .. n : q[i] \in live) /\ (\A a \in live : \E i \in 1 .. n : q[i] = a)
      /\ \A i, j \in 1 .. n : i < j => <<q[i], q[j]>> \in R
  BY <1>3 DEF Lists
<1>7. PICK t : Passes(t, n, q, live, seg)
  <2>1. q = ByAddress(live)
    BY DEF q
  <2>2. DOMAIN q = 1 .. n
    BY <1>6
  <2>3. \A i \in 1 .. n : q[i] \in live
    BY <1>6
  <2>. QED  BY ONLY <1>2, <2>1, <2>2, <2>3, InSegment(live, seg), FillSteps
<1>. DEFINE H == {m \in Nat : m <= n => Filled(t[m], FirstOf(q, m), seg)}
<1>8. 0 \in H
  <2>1. FirstOf(q, 0) = {}
    BY DEF FirstOf
  <2>2. CoveredBy({}, seg) = {}
    BY DEF CoveredBy
  <2>3. t[0].cursor = seg.addr /\ t[0].covered = 0 /\ t[0].largest = 0
    BY <1>7 DEF Emptied, Passes
  <2>4. LongestIs(0, (seg.addr .. seg.addr - 1) \ {})
    <3>1. (seg.addr .. seg.addr - 1) \ {} = {}
      BY <1>4
    <3>2. Runs({}) = {}
      BY DEF Runs
    <3>. QED  BY <3>1, <3>2 DEF LongestIs
  <2>5. seg.addr \in seg.addr .. seg.addr + seg.size
    BY <1>4
  <2>6. Filled(t[0], {}, seg)
    <3>1. /\ t[0].cursor \in seg.addr .. seg.addr + seg.size /\ t[0].covered \in Nat
          /\ LongestIs(t[0].largest, (seg.addr .. t[0].cursor - 1) \ CoveredBy({}, seg))
      <4>1. (seg.addr .. t[0].cursor - 1) \ CoveredBy({}, seg) = (seg.addr .. seg.addr - 1) \ {}
        BY ONLY <2>2, <2>3
      <4>2. t[0].cursor \in seg.addr .. seg.addr + seg.size /\ t[0].covered \in Nat
        BY ONLY <2>3, <2>5
      <4>. QED  BY ONLY <2>3, <2>4, <4>1, <4>2
    <3>2. IsFiniteSet(CoveredBy({}, seg)) /\ t[0].covered = Cardinality(CoveredBy({}, seg))
      BY <2>2, <2>3, FS_EmptySet
    <3>. QED  BY <2>2, <2>3, <3>1, <3>2 DEF Filled
  <2>. QED  BY <2>1, <2>6
<1>9. ASSUME NEW m \in Nat, m \in H PROVE m + 1 \in H
  <2>1. SUFFICES ASSUME m + 1 <= n PROVE Filled(t[m + 1], FirstOf(q, m + 1), seg)
    OBVIOUS
  <2>2. m + 1 \in 1 .. n /\ (m + 1) - 1 = m /\ Filled(t[m], FirstOf(q, m), seg)
    BY <1>2, <1>9, <2>1
  <2>. DEFINE a == q[m + 1]
              B == FirstOf(q, m)
  <2>3. t[m + 1] = Pass1(t[m], a, seg)
    BY <1>7, <2>2 DEF Passes
  <2>4. a \in live /\ B \subseteq live /\ FirstOf(q, m + 1) = B \cup {a}
    BY <1>2, <1>6, <2>2 DEF FirstOf
  <2>5. ASSUME NEW b \in B PROVE b.addr <= a.addr
    <3>1. PICK i \in 1 .. m : b = q[i]
      BY DEF FirstOf
    <3>2. i \in 1 .. n /\ i < m + 1
      BY <1>2, <2>2
    <3>3. <<b, a>> \in R /\ b \in live
      BY <1>6, <2>2, <3>1, <3>2
    <3>. QED  BY <1>5, <2>4, <3>3
  <2>. HIDE DEF a, B
  <2>6. Filled(t[m], B, seg)
    BY <2>2 DEF B
  <2>7. \A b \in B : b.addr \in Nat /\ b.size \in Nat
    BY <1>4, <2>4
  <2>8. a.addr \in Nat /\ a.size \in Nat /\ a.size > 0 /\ Within(a, seg)
    BY <1>4, <2>4
  <2>9. Filled(Pass1(t[m], a, seg), B \cup {a}, seg)
    BY ONLY <1>4, <2>5, <2>6, <2>7, <2>8, FilledStep
  <2>. QED  BY <2>3, <2>4, <2>9
<1>10. n \in H
  <2>. HIDE DEF H
  <2>. QED  BY <1>2, <1>8, <1>9, SetInduction
<1>11. FirstOf(q, n) = live
  BY <1>6 DEF FirstOf
<1>. QED  BY <1>2, <1>7, <1>10, <1>11 DEF Passes

(* The fill of a segment is read off the cursor.                           *)
LEMMA SegmentFillIs ==
    ASSUME NEW live, NEW seg, NEW f, f = FillOf(live, seg)
    PROVE  /\ SegmentFill(live, seg).active = f.covered
           /\ SegmentFill(live, seg).free = seg.size - f.covered
           /\ SegmentFill(live, seg).largest = Max({f.largest, seg.addr + seg.size - f.cursor})
BY DEF SegmentFill

(* The fill of a segment counts its covered and its free addresses, and    *)
(* the longest stretch of free ones.                                       *)
LEMMA SegmentFillTrue ==
    ASSUME NEW live, NEW seg, InSegment(live, seg)
    PROVE  /\ SegmentFill(live, seg).active = Cardinality(CoveredBy(live, seg))
           /\ SegmentFill(live, seg).free = Cardinality(Addrs(seg) \ CoveredBy(live, seg))
           /\ LongestIs(SegmentFill(live, seg).largest, Addrs(seg) \ CoveredBy(live, seg))
<1>. DEFINE f == FillOf(live, seg)
            C == CoveredBy(live, seg)
            c == f.cursor
            F == (seg.addr .. c - 1) \ C
            end == seg.addr + seg.size
            s == SegmentFill(live, seg)
<1>1. s.active = f.covered /\ s.free = seg.size - f.covered
      /\ s.largest = Max({f.largest, seg.addr + seg.size - c})
  <2>1. f = FillOf(live, seg)
    OBVIOUS
  <2>. HIDE DEF f
  <2>. QED  BY ONLY <2>1, SegmentFillIs
<1>2. Filled(f, live, seg)
  BY FillTrue
<1>. HIDE DEF f, s
<1>3. /\ seg.addr \in Nat /\ seg.size \in Nat /\ c \in Int /\ seg.addr <= c /\ c <= end /\ end \in Int
      /\ \A x \in C : x < c /\ x \in Addrs(seg) /\ x \in Int
  BY <1>2 DEF Filled, InSegment, CoveredBy, Addrs
<1>10. s.largest = Max({f.largest, end - c})
  <2>1. seg.addr + seg.size - c = end - c
    BY ONLY <1>3
  <2>. QED  BY ONLY <1>1, <2>1
<1>4. c = seg.addr \/ c - 1 \in C
  <2>1. ASSUME NEW b \in live, b.addr < c, b.addr .. c - 1 \subseteq C PROVE c - 1 \in C
    <3>1. b.addr \in Int
      BY DEF InSegment
    <3>2. c - 1 \in b.addr .. c - 1
      BY ONLY <3>1, <1>3, <2>1
    <3>. QED  BY <2>1, <3>2
  <2>. QED  BY <1>2, <2>1 DEF Filled
<1>5. IsFiniteSet(C) /\ f.covered = Cardinality(C) /\ LongestIs(f.largest, F)
  BY <1>2 DEF Filled
<1>. HIDE DEF C, c
<1>6. F \in SUBSET Int /\ \A x \in F : x < c - 1
  <2>1. ASSUME NEW x \in F PROVE x \in Int /\ x < c - 1
    <3>1. x \in Int /\ seg.addr <= x /\ x <= c - 1 /\ x \notin C
      BY <1>3
    <3>2. x # c - 1
      BY <1>3, <1>4, <3>1
    <3>. QED  BY <1>3, <3>1, <3>2
  <2>. QED  BY <2>1
<1>7. Addrs(seg) \ C = F \cup (c .. end - 1)
  <2>1. \A x \in Int : x \in Addrs(seg) \ C <=> x \in F \/ x \in c .. end - 1
    BY <1>3 DEF Addrs
  <2>2. \A x \in Addrs(seg) : x \in Int
    BY <1>3 DEF Addrs
  <2>3. \A x \in F \cup (c .. end - 1) : x \in Int
    BY <1>3
  <2>. HIDE DEF F, end
  <2>. QED  BY <2>1, <2>2, <2>3
<1>8. LongestIs(s.largest, Addrs(seg) \ C)
  <2>1. c \in Int /\ end \in Int
    BY <1>3
  <2>2. LongestIs(f.largest, F)
    BY <1>5
  <2>. HIDE DEF F, end
  <2>3. LongestIs(Max({f.largest, end - c}), F \cup (c .. end - 1))
    BY ONLY <1>6, <2>1, <2>2, LongestOfBoth
  <2>. QED  BY <1>7, <1>10, <2>3
<1>9. s.free = Cardinality(Addrs(seg) \ C)
  <2>1. IsFiniteSet(Addrs(seg)) /\ Cardinality(Addrs(seg)) = seg.size
    <3>1. seg.addr \in Int /\ seg.addr + seg.size - 1 \in Int
      BY <1>3
    <3>2. IsFiniteSet(Addrs(seg))
          /\ Cardinality(Addrs(seg)) = IF seg.addr <= seg.addr + seg.size - 1
                                       THEN (seg.addr + seg.size - 1) - seg.addr + 1 ELSE 0
      BY <3>1, IntervalSize DEF Addrs
    <3>. QED  BY <1>3, <3>2
  <2>2. Addrs(seg) \cap C = C
    BY <1>3
  <2>3. Cardinality(Addrs(seg) \ C) = Cardinality(Addrs(seg)) - Cardinality(Addrs(seg) \cap C)
    BY <2>1, FS_Difference
  <2>. QED  BY <1>1, <1>5, <2>1, <2>2, <2>3
<1>. QED  BY <1>1, <1>5, <1>8, <1>9 DEF s, C

(* The longest stretch is the maximum of the lengths.                      *)
LEMMA LongestIsMax ==
    ASSUME NEW m, NEW F \in SUBSET Int, LongestIs(m, F)
    PROVE  Max({0} \cup {p[2] - p[1] + 1 : p \in Runs(F)}) = m
<1>. DEFINE V == {0} \cup {p[2] - p[1] + 1 : p \in Runs(F)}
<1>1. \A p \in Runs(F) : p[2] - p[1] + 1 \in Int
  <2>1. ASSUME NEW p \in Runs(F) PROVE p[1] \in Int /\ p[2] \in Int
    <3>1. p \in F \X F
      BY DEF Runs
    <3>. QED  BY <3>1
  <2>. QED  BY <2>1
<1>2. V \in SUBSET Int
  BY <1>1
<1>3. m \in V /\ \A y \in V : m >= y
  <2>1. m \in V
    BY DEF LongestIs
  <2>2. ASSUME NEW y \in V PROVE m >= y
    BY <1>1 DEF LongestIs
  <2>. QED  BY <2>1, <2>2
<1>. HIDE DEF V
<1>4. Max(V) = m
  BY <1>2, <1>3, MaxIs
<1>. QED  BY <1>4 DEF V

(* What is drawn of a segment at the peak is what lives in it then.        *)
AtPeak(w, s, o) == {a \in InWin(w) : Within(a, s) /\ LiveIn(a, w, o)}

(* The layout of an entry is the fill of each segment at the peak.         *)
LEMMA EntryLayout ==
    ASSUME NEW w, NEW s \in GraphSegments
    PROVE  Entry(w).metrics.layout[s] = SegmentFill(AtPeak(w, s, Entry(w).metrics.ord), s)
BY DEF Entry, WindowMetrics, InWin, AtPeak

(* What the layout is made of is what is live at the peak.                 *)
LEMMA AtPeakIsLive ==
    ASSUME Read, NEW w \in Windows, UsableWindow(w), NEW o \in w.begin .. w.end - 1, NEW s \in GraphSegments
    PROVE  /\ AtPeak(w, s, o) = {a \in Graph : Within(a, s) /\ a.alloc <= o /\ o < a.free}
           /\ InSegment(AtPeak(w, s, o), s)
           /\ Covered(s, o) = CoveredBy(AtPeak(w, s, o), s)
<1>1. Lives(InWin(w), w, o) = {a \in Graph : a.alloc <= o /\ o < a.free}
  BY LivesAreLive
<1>2. \A a \in InWin(w) : a \in Graph /\ (LiveIn(a, w, o) <=> Begins(a, w).ord <= o /\ o < Ends(a, w).ord)
  <2>1. \A a \in InWin(w) : a \in Graph /\ a.alloc \in Nat /\ a.free \in Nat
    BY GraphTyped DEF InWin
  <2>2. w.begin \in Nat /\ w.end \in Nat
    BY UsableTyped
  <2>. QED  BY <2>1, <2>2, ClippedIs DEF LiveIn
<1>3. AtPeak(w, s, o) = {a \in Lives(InWin(w), w, o) : Within(a, s)}
  BY <1>2 DEF AtPeak, Lives
<1>4. AtPeak(w, s, o) = {a \in Graph : Within(a, s) /\ a.alloc <= o /\ o < a.free}
  BY <1>1, <1>3
<1>5. InSegment(AtPeak(w, s, o), s)
  <2>1. s.addr \in Nat /\ s.size \in Nat
    BY SegmentsAssumption
  <2>2. AtPeak(w, s, o) \subseteq Graph
    BY <1>4
  <2>3. IsFiniteSet(AtPeak(w, s, o))
    BY ONLY <2>2, Read, GraphTyped, FS_Subset
  <2>4. \A a \in AtPeak(w, s, o) : Within(a, s)
    BY <1>4
  <2>. QED  BY <2>1, <2>2, <2>3, <2>4, GraphTyped DEF InSegment
<1>6. Covered(s, o) = CoveredBy(AtPeak(w, s, o), s)
  BY <1>4 DEF Covered, CoveredBy, Addrs
<1>. QED  BY <1>4, <1>5, <1>6

(* Every entry has the layout of its segments.                             *)
LEMMA ReportsInvLayout == ReportsInv => LayoutAtPeakIsExact
<1>. SUFFICES ASSUME ReportsInv, NEW e \in Entries, NEW s \in GraphSegments,
                     e.metrics.peak > 0, e.window.begin < e.window.end
     PROVE  LET fill == e.metrics.layout[s]
                used == Covered(s, e.metrics.ord)
                free == (s.addr .. s.addr + s.size - 1) \ used
            IN  /\ fill.active = Cardinality(used)
                /\ fill.free = Cardinality(free)
                /\ fill.largest = Max({0} \cup {p[2] - p[1] + 1 : p \in Runs(free)})
  BY DEF LayoutAtPeakIsExact
<1>1. PICK w \in Windows : UsableWindow(w) /\ e = Entry(w)
  BY EntriesUsable
<1>. DEFINE o == e.metrics.ord
            live == AtPeak(w, s, o)
<1>2. e.window = w
  BY <1>1 DEF Entry
<1>3. Read
  BY DEF ReportsInv
<1>4. o \in w.begin .. w.end - 1
  <2>1. PeakIsReached
    BY ReportsInvPeak
  <2>. QED  BY <1>2, <2>1 DEF PeakIsReached
<1>5. e.metrics.layout[s] = SegmentFill(live, s)
  BY <1>1, EntryLayout
<1>6. InSegment(live, s) /\ Covered(s, o) = CoveredBy(live, s)
  BY <1>1, <1>3, <1>4, AtPeakIsLive
<1>. DEFINE free == Addrs(s) \ CoveredBy(live, s)
<1>7. /\ SegmentFill(live, s).active = Cardinality(CoveredBy(live, s))
      /\ SegmentFill(live, s).free = Cardinality(free)
      /\ LongestIs(SegmentFill(live, s).largest, free)
  <2>. HIDE DEF live
  <2>. QED  BY <1>6, SegmentFillTrue
<1>8. Max({0} \cup {p[2] - p[1] + 1 : p \in Runs(free)}) = SegmentFill(live, s).largest
  <2>1. free \in SUBSET Int
    BY SegmentsAssumption DEF Addrs
  <2>2. LongestIs(SegmentFill(live, s).largest, free)
    BY <1>7
  <2>. HIDE DEF live, free
  <2>. QED  BY ONLY <2>1, <2>2, LongestIsMax
<1>. QED  BY <1>5, <1>6, <1>7, <1>8 DEF Addrs

(* For any allocations, also such that overlap each other or reach past    *)
(* their segment, the layout at the peak counts the addresses covered      *)
(* then, those not covered, and the longest stretch of these               *)
(* (_segment_fill_at_peak).                                                *)
THEOREM LayoutExact == MapSpec => []LayoutAtPeakIsExact
<1>1. ReportsInv => LayoutAtPeakIsExact
  BY ReportsInvLayout
<1>. QED  BY <1>1, MapImplementsReports, ReportsInvariant, PTL

-----------------------------------------------------------------------------
(* Segments that do not overlap, the addresses in them, and how many of     *)
(* those are below an address: its place when they are packed.              *)

BytesOf(s) == s.addr .. s.addr + s.size - 1

Apart(S) ==
    /\ IsFiniteSet(S)
    /\ \A s \in S : s.addr \in Nat /\ s.size \in Nat /\ s.size > 0
    /\ \A s, t \in S : s # t => s.addr + s.size <= t.addr \/ t.addr + t.size <= s.addr

AddressesOf(S) == UNION {BytesOf(s) : s \in S}

PlaceIn(p, S) == Cardinality({q \in AddressesOf(S) : q < p})

(* The bytes of one are its size.                                          *)
LEMMA BytesOfOne ==
    ASSUME NEW x, x.size \in Nat
    PROVE  Sized({x}) /\ BytesIn({x}) = x.size
<1>1. Sized({x})
  BY FS_Singleton DEF Sized
<1>. DEFINE f == SizeIn({x})
<1>2. BytesIn({x}) = SumFunctionOnSet(f, {x}) /\ f[x] \in Int /\ f[x] = x.size
  <2>1. {x} \in SUBSET {x} /\ x \in {x}
    OBVIOUS
  <2>. QED  BY <1>1, <2>1, BytesSum
<1>. HIDE DEF f
<1>3. SumFunctionOnSet(f, {} \cup {x}) = f[x] + SumFunctionOnSet(f, {})
  <2>1. IsFiniteSet({}) /\ \A y \in {} : f[y] \in Int
    BY FS_EmptySet
  <2>2. x \notin {}
    OBVIOUS
  <2>. QED  BY ONLY <1>2, <2>1, <2>2, SumWithOneMore
<1>4. SumFunctionOnSet(f, {}) = 0
  BY SumOfNothing
<1>5. {} \cup {x} = {x}
  OBVIOUS
<1>. QED  BY ONLY <1>1, <1>2, <1>3, <1>4, <1>5

(* Some of them do not overlap either.                                     *)
LEMMA PartApart ==
    ASSUME NEW S, Apart(S), NEW T \in SUBSET S
    PROVE  Apart(T) /\ AddressesOf(T) \subseteq AddressesOf(S)
<1>1. IsFiniteSet(T)
  BY FS_Subset DEF Apart
<1>. QED  BY <1>1 DEF Apart, AddressesOf

(* Different ones have no address in common.                               *)
LEMMA NoneShared ==
    ASSUME NEW S, Apart(S), NEW s \in S, NEW t \in S, NEW p, p \in BytesOf(s), p \in BytesOf(t)
    PROVE  s = t
<1>1. /\ s.addr \in Nat /\ s.size \in Nat /\ t.addr \in Nat /\ t.size \in Nat
      /\ s # t => s.addr + s.size <= t.addr \/ t.addr + t.size <= s.addr
  BY DEF Apart
<1>2. /\ p \in Int /\ s.addr <= p /\ p < s.addr + s.size
      /\ t.addr <= p /\ p < t.addr + t.size
  BY <1>1 DEF BytesOf
<1>. QED  BY ONLY <1>1, <1>2

(* The addresses are as many as the bytes.                                 *)
LEMMA AddressesCounted ==
    ASSUME NEW S, Apart(S)
    PROVE  /\ IsFiniteSet(AddressesOf(S)) /\ AddressesOf(S) \subseteq Nat
           /\ Sized(S) /\ Cardinality(AddressesOf(S)) = BytesIn(S)
<1>. DEFINE G == {T \in SUBSET S : IsFiniteSet(AddressesOf(T))
                                   /\ Cardinality(AddressesOf(T)) = BytesIn(T)}
<1>1. {} \in G
  <2>1. AddressesOf({}) = {}
    BY DEF AddressesOf
  <2>. QED  BY <2>1, FS_EmptySet, BytesOfNothing
<1>2. ASSUME NEW T \in SUBSET S, NEW x \in S, T \in G, x \notin T
      PROVE  T \cup {x} \in G
  <2>1. AddressesOf(T \cup {x}) = AddressesOf(T) \cup BytesOf(x)
    BY DEF AddressesOf
  <2>2. AddressesOf(T) \cap BytesOf(x) = {}
    <3>1. ASSUME NEW p \in AddressesOf(T), p \in BytesOf(x) PROVE FALSE
      <4>1. PICK t \in T : p \in BytesOf(t)
        BY DEF AddressesOf
      <4>2. t = x
        BY <3>1, <4>1, NoneShared
      <4>. QED  BY <1>2, <4>2
    <3>. QED  BY <3>1
  <2>3. x.addr \in Nat /\ x.size \in Nat /\ x.size > 0
    BY DEF Apart
  <2>4. IsFiniteSet(BytesOf(x)) /\ Cardinality(BytesOf(x)) = x.size
    <3>. DEFINE e == x.addr + x.size - 1
    <3>1. x.addr \in Int /\ e \in Int /\ x.addr <= e /\ (e - x.addr) + 1 = x.size
      BY <2>3
    <3>. HIDE DEF e
    <3>2. IsFiniteSet(x.addr .. e) /\ Cardinality(x.addr .. e) = (e - x.addr) + 1
      BY ONLY <3>1, IntervalSize
    <3>. QED  BY <3>1, <3>2 DEF BytesOf, e
  <2>5. /\ IsFiniteSet(AddressesOf(T \cup {x}))
        /\ Cardinality(AddressesOf(T \cup {x}))
             = Cardinality(AddressesOf(T)) + Cardinality(BytesOf(x)) - Cardinality({})
    <3>. DEFINE A == AddressesOf(T)
                B == BytesOf(x)
    <3>1. IsFiniteSet(A) /\ IsFiniteSet(B)
      BY <1>2, <2>4
    <3>2. AddressesOf(T \cup {x}) = A \cup B /\ A \cap B = {}
      BY <2>1, <2>2
    <3>. HIDE DEF A, B
    <3>3. /\ IsFiniteSet(A \cup B)
          /\ Cardinality(A \cup B) = Cardinality(A) + Cardinality(B) - Cardinality(A \cap B)
      BY ONLY <3>1, FS_Union
    <3>. QED  BY <3>2, <3>3 DEF A, B
  <2>6. Sized({x}) /\ BytesIn({x}) = x.size
    BY <2>3, BytesOfOne
  <2>7. Sized(T)
    <3>1. Apart(T)
      BY PartApart
    <3>. QED  BY <3>1 DEF Apart, Sized
  <2>8. BytesIn(T \cup {x}) = BytesIn(T) + BytesIn({x})
    <3>1. T \cap {x} = {}
      BY <1>2
    <3>. QED  BY ONLY <2>6, <2>7, <3>1, BytesOfBoth
  <2>9. Cardinality(AddressesOf(T)) \in Nat
    BY <1>2, FS_CardinalityType
  <2>10. Cardinality({}) = 0
    BY FS_EmptySet
  <2>11. Cardinality(AddressesOf(T \cup {x})) = BytesIn(T \cup {x})
    BY ONLY <1>2, <2>3, <2>4, <2>5, <2>6, <2>8, <2>9, <2>10
  <2>. QED  BY <2>5, <2>11
<1>3. S \in G
  <2>1. IsFiniteSet(S)
    BY DEF Apart
  <2>. HIDE DEF G
  <2>2. \A T \in SUBSET S : T \in G
    BY ONLY <1>1, <1>2, <2>1, FiniteInduction
  <2>. QED  BY <2>2
<1>4. AddressesOf(S) \subseteq Nat
  BY DEF AddressesOf, BytesOf, Apart
<1>5. Sized(S)
  BY DEF Sized, Apart
<1>. QED  BY <1>3, <1>4, <1>5

(* Places are in the order of addresses.                                   *)
LEMMA PlacesInOrder ==
    ASSUME NEW S, Apart(S), NEW p \in AddressesOf(S), NEW q \in Int, p < q
    PROVE  PlaceIn(p, S) \in Nat /\ PlaceIn(q, S) \in Nat /\ PlaceIn(p, S) < PlaceIn(q, S)
<1>. DEFINE A == AddressesOf(S)
            P == {a \in A : a < p}
            Q == {a \in A : a < q}
<1>1. IsFiniteSet(A) /\ A \subseteq Nat
  BY AddressesCounted
<1>2. P \subseteq Q /\ Q \subseteq A /\ p \in Q /\ p \notin P
  BY <1>1
<1>. HIDE DEF A, P, Q
<1>3. IsFiniteSet(Q) /\ IsFiniteSet(P)
  BY ONLY <1>1, <1>2, FS_Subset
<1>4. Cardinality(P) <= Cardinality(Q) /\ Cardinality(P) # Cardinality(Q)
  BY ONLY <1>2, <1>3, FS_Subset
<1>5. Cardinality(P) \in Nat /\ Cardinality(Q) \in Nat
  BY <1>3, FS_CardinalityType
<1>. QED  BY <1>4, <1>5 DEF PlaceIn, P, Q, A

(* Over addresses without a gap they go up by one.                         *)
LEMMA PlacesInRun ==
    ASSUME NEW S, Apart(S), NEW p \in Int, NEW q \in Int, p <= q, p .. q - 1 \subseteq AddressesOf(S)
    PROVE  PlaceIn(p, S) \in Nat /\ PlaceIn(q, S) = PlaceIn(p, S) + (q - p)
<1>. DEFINE A == AddressesOf(S)
            P == {a \in A : a < p}
            Q == {a \in A : a < q}
<1>1. IsFiniteSet(A) /\ A \subseteq Nat
  BY AddressesCounted
<1>2. Q = P \cup (p .. q - 1) /\ P \cap (p .. q - 1) = {}
  BY <1>1
<1>3. P \subseteq A
  OBVIOUS
<1>. HIDE DEF A, P, Q
<1>4. IsFiniteSet(P)
  BY ONLY <1>1, <1>3, FS_Subset
<1>5. IsFiniteSet(p .. q - 1) /\ Cardinality(p .. q - 1) = q - p
  <2>1. q - 1 \in Int /\ (p <= q - 1 => (q - 1) - p + 1 = q - p) /\ (~(p <= q - 1) => q - p = 0)
    OBVIOUS
  <2>. QED  BY <2>1, IntervalSize
<1>6. Cardinality(Q) = Cardinality(P) + Cardinality(p .. q - 1) - Cardinality({})
  BY ONLY <1>2, <1>4, <1>5, FS_Union
<1>7. Cardinality(P) \in Nat /\ Cardinality({}) = 0
  BY <1>4, FS_CardinalityType, FS_EmptySet
<1>8. q - p \in Int
  OBVIOUS
<1>9. Cardinality(Q) = Cardinality(P) + (q - p)
  BY ONLY <1>5, <1>6, <1>7, <1>8
<1>. QED  BY <1>7, <1>9 DEF PlaceIn, P, Q, A

(* x_of gives an address of a segment its place.                           *)
LEMMA XOfIsPlace ==
    ASSUME NEW S, Apart(S), NEW p \in AddressesOf(S)
    PROVE  Anchored(p, S) /\ p \in Nat /\ XOf(p, S) = PlaceIn(p, S)
<1>1. PICK s \in S : p \in BytesOf(s)
  BY DEF AddressesOf
<1>2. s.addr \in Nat /\ s.size \in Nat /\ s.size > 0
  BY DEF Apart
<1>3. p \in Nat /\ s.addr <= p /\ p < s.addr + s.size
  BY <1>1, <1>2 DEF BytesOf
<1>4. Anchored(p, S)
  BY <1>3 DEF Anchored
<1>5. \A t \in S : t.addr <= p /\ p < t.addr + t.size => t = s
  <2>1. ASSUME NEW t \in S, t.addr <= p /\ p < t.addr + t.size PROVE t = s
    <3>1. t.addr \in Nat /\ t.size \in Nat
      BY DEF Apart
    <3>2. p \in BytesOf(t)
      BY <1>3, <2>1, <3>1 DEF BytesOf
    <3>. QED  BY <1>1, <3>2, NoneShared
  <2>. QED  BY <2>1
<1>6. SegmentAt(p, S) = s
  BY <1>3, <1>5 DEF SegmentAt
<1>. DEFINE T == {t \in S : t.addr < s.addr}
            A == {q \in AddressesOf(S) : q < s.addr}
<1>7. A = AddressesOf(T)
  <2>1. ASSUME NEW q \in A PROVE q \in AddressesOf(T)
    <3>1. PICK t \in S : q \in BytesOf(t)
      BY DEF AddressesOf
    <3>2. t.addr <= q /\ q < s.addr /\ t.addr \in Nat /\ q \in Int
      BY <3>1 DEF BytesOf, Apart
    <3>3. t.addr < s.addr
      BY <1>2, <3>2
    <3>. QED  BY <3>1, <3>3 DEF AddressesOf
  <2>2. ASSUME NEW q \in AddressesOf(T) PROVE q \in A
    <3>1. PICK t \in T : q \in BytesOf(t)
      BY DEF AddressesOf
    <3>2. /\ t.addr \in Nat /\ t.size \in Nat /\ t # s
          /\ t.addr + t.size <= s.addr \/ s.addr + s.size <= t.addr
      BY <1>2 DEF Apart
    <3>3. q \in Int /\ t.addr <= q /\ q < t.addr + t.size
      BY <3>1, <3>2 DEF BytesOf
    <3>4. t.addr < s.addr
      OBVIOUS
    <3>5. q < s.addr
      BY ONLY <1>2, <3>2, <3>3, <3>4
    <3>6. q \in AddressesOf(S)
      BY <3>1 DEF AddressesOf
    <3>. QED  BY <3>5, <3>6
  <2>. QED  BY <2>1, <2>2
<1>8. Cardinality(A) = BytesIn(T)
  <2>1. T \in SUBSET S
    OBVIOUS
  <2>. HIDE DEF T, A
  <2>2. Apart(T)
    BY <2>1, PartApart
  <2>. QED  BY <1>7, <2>2, AddressesCounted
<1>9. s.addr .. p - 1 \subseteq AddressesOf(S)
  <2>1. s.addr .. p - 1 \subseteq BytesOf(s)
    BY <1>2, <1>3 DEF BytesOf
  <2>. QED  BY <2>1 DEF AddressesOf
<1>10. PlaceIn(s.addr, S) \in Nat /\ PlaceIn(p, S) = PlaceIn(s.addr, S) + (p - s.addr)
  <2>1. s.addr \in Int /\ p \in Int /\ s.addr <= p
    BY <1>2, <1>3
  <2>. QED  BY ONLY <1>9, <2>1, PlacesInRun, Apart(S)
<1>11. Packed(s, S) = PlaceIn(s.addr, S)
  BY <1>8 DEF Packed, PlaceIn
<1>12. Packed(s, S) + p - s.addr = PlaceIn(p, S)
  BY ONLY <1>2, <1>3, <1>10, <1>11
<1>. QED  BY <1>3, <1>4, <1>6, <1>12 DEF XOf

(* run_end_of is the first address behind that is in no segment.           *)
LEMMA RunEndIsGap ==
    ASSUME NEW S, Apart(S), NEW p \in AddressesOf(S)
    PROVE  /\ RunEndOf(p, S) \in Nat /\ p < RunEndOf(p, S)
           /\ p .. RunEndOf(p, S) - 1 \subseteq AddressesOf(S)
           /\ RunEndOf(p, S) \notin AddressesOf(S)
<1>. DEFINE A == AddressesOf(S)
            E == {s.addr + s.size : s \in S}
            C == {s.addr + s.size : s \in {t \in S : t.addr + t.size > p
                                               /\ \A u \in S : u.addr # t.addr + t.size}}
<1>0. \A s \in S : s.addr \in Nat /\ s.size \in Nat /\ s.size > 0 /\ s.addr + s.size \in Nat
  BY DEF Apart
<1>1. p \in Nat /\ A \subseteq Nat
  BY XOfIsPlace, AddressesCounted
<1>2. E \in SUBSET Int /\ C \in SUBSET E
  BY <1>0
<1>3. IsFiniteSet(E)
  <2>. DEFINE f == [s \in S |-> s.addr + s.size]
  <2>1. f \in Surjection(S, E)
    BY DEF Surjection
  <2>2. IsFiniteSet(S)
    BY DEF Apart
  <2>. HIDE DEF f, E
  <2>. QED  BY ONLY <2>1, <2>2, FS_Surjection
<1>4. IsFiniteSet(C) /\ C \in SUBSET Int
  <2>. HIDE DEF E, C
  <2>. QED  BY ONLY <1>2, <1>3, FS_Subset
<1>5. PICK s0 \in S : p \in BytesOf(s0)
  BY DEF AddressesOf
<1>6. s0.addr <= p /\ p < s0.addr + s0.size
  BY <1>0, <1>5 DEF BytesOf
<1>7. C # {}
  <2>1. E # {}
    BY <1>5
  <2>2. Max(E) \in E /\ \A y \in E : Max(E) >= y
    <3>. HIDE DEF E
    <3>. QED  BY ONLY <1>2, <1>3, <2>1, MaxExists
  <2>3. PICK m \in S : Max(E) = m.addr + m.size
    BY <2>2
  <2>4. \A t \in S : m.addr + m.size >= t.addr + t.size
    BY <2>2, <2>3
  <2>5. m.addr + m.size > p
    BY <1>0, <1>1, <1>6, <2>4
  <2>6. ASSUME NEW u \in S PROVE u.addr # m.addr + m.size
    BY <1>0, <2>4
  <2>7. m.addr + m.size \in C
    BY <2>5, <2>6
  <2>. QED  BY <2>7
<1>. DEFINE e == RunEndOf(p, S)
<1>8. e \in C /\ \A y \in C : e <= y
  <2>1. e = Min(C)
    BY DEF RunEndOf
  <2>. HIDE DEF C, e
  <2>. QED  BY ONLY <1>4, <1>7, <2>1, MinExists
<1>9. PICK t \in S : e = t.addr + t.size /\ t.addr + t.size > p /\ \A u \in S : u.addr # t.addr + t.size
  <2>. HIDE DEF e
  <2>. QED  BY ONLY <1>8
<1>. HIDE DEF e
<1>10. e \in Nat /\ p < e
  BY <1>0, <1>1, <1>9
<1>11. e \notin A
  <2>1. SUFFICES ASSUME e \in A PROVE FALSE
    OBVIOUS
  <2>2. PICK u \in S : e \in BytesOf(u)
    BY <2>1 DEF AddressesOf
  <2>3. u.addr <= e /\ e < u.addr + u.size
    BY <1>0, <1>10, <2>2 DEF BytesOf
  <2>4. u.addr # e
    BY <1>9
  <2>5. u # t /\ (u.addr + u.size <= t.addr \/ t.addr + t.size <= u.addr)
    <3>1. u # t
      BY <1>9, <2>3, <1>0
    <3>. QED  BY <3>1 DEF Apart
  <2>6. u.addr \in Nat /\ u.size \in Nat /\ t.addr \in Nat /\ t.size \in Nat
    BY <1>0
  <2>. QED  BY ONLY <1>9, <1>10, <2>3, <2>4, <2>5, <2>6
<1>12. p .. e - 1 \subseteq A
  <2>. DEFINE H == {q \in p .. e - 1 : q \notin A}
  <2>1. SUFFICES ASSUME H # {} PROVE FALSE
    OBVIOUS
  <2>2. H \in SUBSET Int /\ H \in SUBSET (p .. e - 1)
    BY <1>1, <1>10
  <2>3. IsFiniteSet(p .. e - 1)
    <3>1. p \in Int /\ e - 1 \in Int
      BY <1>1, <1>10
    <3>. QED  BY ONLY <3>1, FS_Interval
  <2>4. IsFiniteSet(H)
    <3>. HIDE DEF H
    <3>. QED  BY ONLY <2>2, <2>3, FS_Subset
  <2>. DEFINE q == Min(H)
  <2>5. q \in H /\ \A y \in H : q <= y
    <3>. HIDE DEF H, q
    <3>1. Min(H) \in H /\ \A y \in H : Min(H) <= y
      BY ONLY <2>1, <2>2, <2>4, MinExists
    <3>. QED  BY ONLY <3>1 DEF q
  <2>. HIDE DEF q
  <2>6. q \in Int /\ p <= q /\ q <= e - 1 /\ q \notin A
    BY <2>5, <1>1, <1>10
  <2>7. q - 1 \in A
    <3>1. q # p
      BY <2>6
    <3>2. q - 1 \in p .. e - 1 /\ ~(q <= q - 1)
      BY <2>6, <3>1, <1>1, <1>10
    <3>. QED  BY <2>5, <3>2
  <2>8. PICK v \in S : q - 1 \in BytesOf(v)
    BY <2>7 DEF AddressesOf
  <2>9. q \notin BytesOf(v) /\ \A u \in S : q \notin BytesOf(u)
    BY <2>6 DEF AddressesOf
  <2>10. v.addr \in Nat /\ v.size \in Nat
    BY <1>0
  <2>11. q = v.addr + v.size
    BY ONLY <2>6, <2>8, <2>9, <2>10 DEF BytesOf
  <2>12. \A u \in S : u.addr # q
    BY <1>0, <2>6, <2>9 DEF BytesOf
  <2>13. q \in C
    <3>1. v.addr + v.size > p
      <4>1. q > p
        <5>1. q # p
          BY <2>6
        <5>. QED  BY ONLY <5>1, <2>6, <1>1
      <4>. QED  BY ONLY <4>1, <2>11
    <3>. QED  BY <2>11, <2>12, <3>1
  <2>14. e <= q
    BY <1>8, <2>13
  <2>. QED  BY ONLY <1>10, <2>6, <2>14
<1>. QED  BY <1>10, <1>11, <1>12 DEF e

(* A rectangle covers the places of the addresses its allocation has on    *)
(* the map, and no others.                                                 *)
LEMMA RectWide ==
    ASSUME NEW S, Apart(S), NEW b, b.addr \in AddressesOf(S), b.size \in Nat, b.size > 0,
           NEW p \in AddressesOf(S)
    PROVE  /\ XOf(b.addr, S) <= PlaceIn(p, S) /\ PlaceIn(p, S) < XOf(b.addr, S) + DrawSize(b, S)
                <=> p \in b.addr .. b.addr + b.size - 1 /\ b.addr .. p \subseteq AddressesOf(S)
<1>. DEFINE a == b.addr
            A == AddressesOf(S)
            e == RunEndOf(a, S)
            w == DrawSize(b, S)
<1>1. a \in Nat /\ p \in Nat /\ Anchored(a, S) /\ XOf(a, S) = PlaceIn(a, S)
  BY XOfIsPlace
<1>2. e \in Nat /\ a < e /\ a .. e - 1 \subseteq A /\ e \notin A
  BY RunEndIsGap
<1>3. w = IF b.size <= e - a THEN b.size ELSE e - a
  <2>1. w = Min({b.size, e - a})
    BY <1>1 DEF DrawSize
  <2>2. b.size \in Int /\ e - a \in Int
    BY <1>1, <1>2
  <2>. HIDE DEF w, e, a
  <2>. QED  BY ONLY <2>1, <2>2, OfTwo
<1>4. b.size \in Nat /\ b.size > 0 /\ p \in A /\ a \in A
  OBVIOUS
<1>. HIDE DEF e, w
<1>5. w \in Nat /\ w > 0 /\ w <= b.size /\ a + w <= e
  BY ONLY <1>1, <1>2, <1>3, <1>4
<1>6. a .. a + w - 1 \subseteq A
  <2>1. a .. a + w - 1 \subseteq a .. e - 1
    BY ONLY <1>1, <1>2, <1>5
  <2>. QED  BY ONLY <1>2, <2>1
<1>7. p \in a .. a + b.size - 1 /\ a .. p \subseteq A <=> a <= p /\ p < a + w
  <2>1. ASSUME p \in a .. a + b.size - 1, a .. p \subseteq A PROVE a <= p /\ p < a + w
    <3>1. a <= p /\ p <= a + b.size - 1
      BY ONLY <2>1, <1>1, <1>4
    <3>2. ~(e <= p)
      <4>1. e <= p => e \in a .. p
        BY ONLY <1>1, <1>2
      <4>. QED  BY ONLY <2>1, <4>1, <1>2
    <3>. QED  BY ONLY <1>1, <1>2, <1>3, <1>4, <3>1, <3>2
  <2>2. ASSUME a <= p, p < a + w PROVE p \in a .. a + b.size - 1 /\ a .. p \subseteq A
    <3>1. p \in a .. a + b.size - 1
      BY ONLY <2>2, <1>1, <1>4, <1>5
    <3>2. a .. p \subseteq a .. a + w - 1
      BY ONLY <2>2, <1>1, <1>5
    <3>. QED  BY ONLY <1>6, <3>1, <3>2
  <2>. QED  BY <2>1, <2>2
<1>8. PlaceIn(a, S) <= PlaceIn(p, S) /\ PlaceIn(p, S) < PlaceIn(a, S) + w <=> a <= p /\ p < a + w
  <2>1. CASE p < a
    <3>1. PlaceIn(p, S) \in Nat /\ PlaceIn(a, S) \in Nat /\ PlaceIn(p, S) < PlaceIn(a, S)
      BY <1>1, <2>1, PlacesInOrder
    <3>. QED  BY ONLY <1>1, <2>1, <3>1
  <2>2. CASE a <= p /\ p < a + w
    <3>1. a .. p - 1 \subseteq A
      <4>1. a .. p - 1 \subseteq a .. a + w - 1
        BY ONLY <1>1, <1>5, <2>2
      <4>. QED  BY ONLY <4>1, <1>6
    <3>2. PlaceIn(a, S) \in Nat /\ PlaceIn(p, S) = PlaceIn(a, S) + (p - a)
      <4>1. a \in Int /\ p \in Int
        BY <1>1
      <4>. QED  BY ONLY <4>1, <2>2, <3>1, PlacesInRun, Apart(S)
    <3>. QED  BY ONLY <1>1, <1>5, <2>2, <3>2
  <2>3. CASE a + w <= p
    <3>. DEFINE l == a + w - 1
    <3>1. l \in A /\ l \in Int /\ a <= l /\ l < p
      BY <1>1, <1>5, <1>6, <2>3
    <3>2. a .. l - 1 \subseteq A
      <4>1. a .. l - 1 \subseteq a .. a + w - 1
        BY ONLY <1>1, <1>5, <3>1 DEF l
      <4>. QED  BY ONLY <4>1, <1>6
    <3>3. l - a = w - 1
      BY ONLY <1>1, <1>5
    <3>. HIDE DEF l
    <3>4. PlaceIn(a, S) \in Nat /\ PlaceIn(l, S) = PlaceIn(a, S) + (l - a)
      <4>1. a \in Int
        BY <1>1
      <4>. QED  BY ONLY <4>1, <3>1, <3>2, PlacesInRun, Apart(S)
    <3>5. PlaceIn(l, S) \in Nat /\ PlaceIn(p, S) \in Nat /\ PlaceIn(l, S) < PlaceIn(p, S)
      BY <1>1, <3>1, PlacesInOrder
    <3>. QED  BY ONLY <1>1, <1>5, <2>3, <3>3, <3>4, <3>5
  <2>. QED  BY ONLY <1>1, <1>5, <2>1, <2>2, <2>3
<1>. QED  BY <1>1, <1>7, <1>8 DEF w

-----------------------------------------------------------------------------
(* The rows of the map: time is the rank among the breakpoints.            *)

(* A later breakpoint has the greater rank.                                *)
LEMMA RanksInOrder ==
    ASSUME NEW P, IsFiniteSet(P), P \subseteq Int, NEW p \in P, NEW q \in P
    PROVE  Rank(p, P) \in Nat /\ (p <= q <=> Rank(p, P) <= Rank(q, P))
<1>1. ASSUME NEW x \in P, NEW y \in P
      PROVE  Rank(x, P) \in Nat /\ (x < y => Rank(x, P) < Rank(y, P))
  <2>. DEFINE X == {z \in P : z < x}
              Y == {z \in P : z < y}
  <2>1. X \in SUBSET P /\ Y \in SUBSET P
    OBVIOUS
  <2>2. x < y => X \in SUBSET Y /\ x \in Y /\ x \notin X
    <3>1. x \in Int /\ y \in Int /\ \A z \in P : z \in Int
      OBVIOUS
    <3>2. x < y => \A z \in P : z < x => z < y
      BY ONLY <3>1
    <3>3. ~(x < x)
      BY ONLY <3>1
    <3>. QED  BY <3>2, <3>3
  <2>. HIDE DEF X, Y
  <2>3. IsFiniteSet(X) /\ IsFiniteSet(Y)
    BY ONLY <2>1, IsFiniteSet(P), FS_Subset
  <2>4. Cardinality(X) \in Nat /\ Cardinality(Y) \in Nat
    BY ONLY <2>3, FS_CardinalityType
  <2>5. x < y => Cardinality(X) <= Cardinality(Y) /\ Cardinality(X) # Cardinality(Y)
    BY ONLY <2>2, <2>3, FS_Subset
  <2>. QED  BY <2>4, <2>5 DEF Rank, X, Y
<1>2. /\ Rank(p, P) \in Nat /\ Rank(q, P) \in Nat
      /\ p < q => Rank(p, P) < Rank(q, P)
      /\ q < p => Rank(q, P) < Rank(p, P)
  BY <1>1
<1>3. p \in Int /\ q \in Int
  OBVIOUS
<1>. QED  BY ONLY <1>2, <1>3

(* Every rank below their number is one breakpoint's.                      *)
LEMMA RanksReached ==
    ASSUME NEW P, IsFiniteSet(P), P \subseteq Int, NEW k \in 0 .. Cardinality(P) - 1
    PROVE  \E p \in P : Rank(p, P) = k
<1>. DEFINE R == {p \in P \X P : p[1] < p[2]}
            n == Cardinality(P)
<1>1. TotallyOrders(R, P)
  BY DEF TotallyOrders
<1>2. \A u, v \in P : <<u, v>> \in R <=> u < v
  OBVIOUS
<1>3. n \in Nat
  BY FS_CardinalityType
<1>4. k + 1 \in 1 .. n /\ (k + 1) - 1 = k
  BY <1>3
<1>. DEFINE f == SortedBy(P, R)
            m == k + 1
<1>. HIDE DEF R, n, m
<1>5. Lists(f, n, P, R)
  BY <1>1, SortedLists DEF n
<1>. HIDE DEF f
<1>6. f[m] \in P
  BY <1>4, <1>5 DEF Lists, m
<1>7. m \in 1 .. n /\ m - 1 = k
  BY <1>4 DEF m
<1>8. Cardinality({y \in P : <<y, f[m]>> \in R}) = m - 1
  BY ONLY <1>1, <1>3, <1>5, <1>7, RankInList
<1>9. {y \in P : <<y, f[m]>> \in R} = {y \in P : y < f[m]}
  BY <1>2, <1>6
<1>10. Rank(f[m], P) = k
  BY ONLY <1>7, <1>8, <1>9 DEF Rank
<1>. QED  BY <1>6, <1>10

(* The rows between the ranks of two breakpoints are those that begin       *)
(* between them.                                                           *)
LEMMA RowsBetween ==
    ASSUME NEW P, IsFiniteSet(P), P \subseteq Int, NEW p \in P, NEW q \in P, NEW r \in P,
           NEW row, Rank(r, P) = row
    PROVE  Rank(p, P) <= row /\ row < Rank(q, P) <=> p <= r /\ r < q
<1>1. /\ p <= r <=> Rank(p, P) <= Rank(r, P)
      /\ q <= r <=> Rank(q, P) <= Rank(r, P)
      /\ Rank(p, P) \in Nat /\ Rank(q, P) \in Nat /\ Rank(r, P) \in Nat
  BY RanksInOrder
<1>2. p \in Int /\ q \in Int /\ r \in Int
  OBVIOUS
<1>. QED  BY ONLY <1>1, <1>2, Rank(r, P) = row

(* What a finite list holds is finite.                                     *)
LEMMA HeldFinite ==
    ASSUME NEW D, NEW s \in Seq(D)
    PROVE  IsFiniteSet(ToSet(s)) /\ ToSet(s) \subseteq D
<1>1. Len(s) \in Nat /\ DOMAIN s = 1 .. Len(s) /\ \A i \in 1 .. Len(s) : s[i] \in D
  OBVIOUS
<1>2. IsFiniteSet(1 .. Len(s))
  BY <1>1, FS_Interval
<1>3. s \in Surjection(1 .. Len(s), ToSet(s))
  <2>1. s \in [1 .. Len(s) -> ToSet(s)]
    BY <1>1 DEF ToSet
  <2>. QED  BY <1>1, <2>1 DEF ToSet, Surjection
<1>4. IsFiniteSet(ToSet(s))
  BY ONLY <1>2, <1>3, FS_Surjection
<1>. QED  BY <1>1, <1>4 DEF ToSet

(* What becomes of the elements of a finite set is a finite set.           *)
LEMMA ImageFinite ==
    ASSUME NEW S, IsFiniteSet(S), NEW f, NEW T, \A y \in T : \E x \in S : y = f[x]
    PROVE  IsFiniteSet(T)
<1>. DEFINE g == [x \in {z \in S : f[z] \in T} |-> f[x]]
            U == {z \in S : f[z] \in T}
<1>1. U \in SUBSET S
  OBVIOUS
<1>2. g \in Surjection(U, T)
  BY DEF Surjection
<1>. HIDE DEF g, U
<1>3. IsFiniteSet(U)
  BY ONLY <1>1, IsFiniteSet(S), FS_Subset
<1>. QED  BY ONLY <1>2, <1>3, FS_Surjection

(* There are finitely many entries.                                        *)
LEMMA EntriesFinite ==
    ASSUME ReportsInv
    PROVE  IsFiniteSet(Entries)
<1>. DEFINE f == [r \in AllRunners |-> ToSet(reports[r])]
            T == {ToSet(reports[r]) : r \in AllRunners}
<1>1. \A r \in AllRunners : reports[r] \in Seq(UsableEntries)
  BY DEF ReportsInv, Placed
<1>2. IsFiniteSet(AllRunners)
  <2>1. AllRunners = {} \cup {"standard"} \cup {"eagle_draft"} \cup {"eagle_draft_extend"}
                        \cup {"eagle_ml_draft_extend"} \cup {"piecewise"} \cup {"breakable"}
    BY DEF AllRunners, StandardLike
  <2>. QED  BY <2>1, FS_EmptySet, FS_AddElement
<1>3. \A t \in T : \E r \in AllRunners : t = f[r]
  OBVIOUS
<1>4. IsFiniteSet(T)
  <2>. HIDE DEF T, f
  <2>. QED  BY ONLY <1>2, <1>3, ImageFinite
<1>5. \A t \in T : IsFiniteSet(t)
  BY <1>1, HeldFinite
<1>6. Entries = UNION T
  BY DEF Entries
<1>. HIDE DEF T
<1>. QED  BY ONLY <1>4, <1>5, <1>6, FS_UNION

(* The bands of the page begin and end at ordinals.                        *)
LEMMA TracksTyped ==
    ASSUME ReportsInv
    PROVE  /\ IsFiniteSet(Tracks)
           /\ \A t \in Tracks : t.begin \in Int /\ t.end \in Int
<1>1. CASE Entries = {}
  <2>. DEFINE end == Max({End, 1})
              nb == Min({TimeBands, end})
              step == Max({1, (end + nb - 1) \div nb})
              L == {x \in 0 .. end - 1 : x % step = 0}
              band == [lo \in L |-> [begin |-> lo, end |-> Min({lo + step, end})]]
  <2>1. End \in Int /\ 1 \in Int /\ TimeBands \in Int /\ TimeBands > 0
    <3>1. End \in Nat
      BY InputsTyped DEF ReportsInv
    <3>. QED  BY <3>1, PageAssumption
  <2>2. end \in Nat /\ end > 0
    BY <2>1, OfTwo
  <2>3. nb \in Nat /\ nb > 0
    <3>. HIDE DEF end
    <3>. QED  BY <2>1, <2>2, OfTwo
  <2>4. step \in Int
    <3>. HIDE DEF end, nb
    <3>1. (end + nb - 1) \div nb \in Int
      BY <2>2, <2>3
    <3>. QED  BY <3>1, OfTwo
  <2>. HIDE DEF end, nb, step
  <2>5. \A lo \in L : lo \in Int /\ Min({lo + step, end}) \in Int
    <3>1. ASSUME NEW lo \in L PROVE lo \in Int /\ Min({lo + step, end}) \in Int
      <4>1. lo \in Int /\ lo + step \in Int /\ end \in Int
        BY <2>2, <2>4
      <4>. QED  BY <4>1, OfTwo
    <3>. QED  BY <3>1
  <2>6. Tracks = BandsOf(end, step)
    BY <1>1 DEF Tracks, UniformBands, end, nb, step
  <2>7. Tracks = {[begin |-> lo, end |-> Min({lo + step, end})] : lo \in L}
    BY <2>6 DEF BandsOf
  <2>8. IsFiniteSet(L)
    <3>1. IsFiniteSet(0 .. end - 1)
      BY <2>2, FS_Interval
    <3>2. L \in SUBSET (0 .. end - 1)
      OBVIOUS
    <3>. HIDE DEF L
    <3>. QED  BY ONLY <3>1, <3>2, FS_Subset
  <2>9. IsFiniteSet(Tracks)
    <3>1. \A t \in Tracks : \E lo \in L : t = band[lo]
      BY <2>7
    <3>. HIDE DEF L, band
    <3>. QED  BY ONLY <2>8, <3>1, ImageFinite
  <2>10. \A t \in Tracks : \E lo \in L : t.begin = lo /\ t.end = Min({lo + step, end})
    <3>. HIDE DEF L
    <3>. QED  BY ONLY <2>7
  <2>. QED  BY <2>5, <2>9, <2>10
<1>2. CASE Entries # {}
  <2>1. Tracks = {[begin |-> e.window.begin, end |-> e.window.end] : e \in Entries}
    BY <1>2 DEF Tracks
  <2>. DEFINE band == [e \in Entries |-> [begin |-> e.window.begin, end |-> e.window.end]]
  <2>2. \A t \in Tracks : \E e \in Entries : t = band[e]
    BY <2>1
  <2>3. IsFiniteSet(Tracks)
    <3>1. IsFiniteSet(Entries)
      BY EntriesFinite
    <3>. HIDE DEF band
    <3>. QED  BY ONLY <2>2, <3>1, ImageFinite
  <2>4. ASSUME NEW e \in Entries PROVE e.window.begin \in Int /\ e.window.end \in Int
    <3>1. PICK w \in Windows : UsableWindow(w) /\ e = Entry(w)
      BY EntriesUsable
    <3>2. e.window = w
      BY <3>1 DEF Entry
    <3>. QED  BY <3>1, <3>2, UsableTyped
  <2>. QED  BY <2>1, <2>3, <2>4
<1>. QED  BY <1>1, <1>2

(* There are finitely many breakpoints.                                    *)
LEMMA BreakpointsTyped ==
    ASSUME ReportsInv, NEW bars \in SUBSET allocs
    PROVE  /\ IsFiniteSet(Breakpoints(bars)) /\ Breakpoints(bars) \subseteq Int
           /\ \A b \in bars : b.alloc \in Breakpoints(bars) /\ b.free \in Breakpoints(bars)
<1>1. IsFiniteSet(bars) /\ \A b \in bars : b.alloc \in Int /\ b.free \in Int
  <2>1. IsFiniteSet(allocs) /\ allocs \subseteq [addr : Nat, size : Nat \ {0}, alloc : Nat, free : Nat]
    BY InputsTyped DEF ReportsInv
  <2>2. IsFiniteSet(bars)
    BY <2>1, FS_Subset
  <2>. QED  BY <2>1, <2>2
<1>2. IsFiniteSet(Tracks) /\ \A t \in Tracks : t.begin \in Int /\ t.end \in Int
  BY TracksTyped
<1>. DEFINE A == {{b.alloc, b.free} : b \in bars}
            B == {{t.begin, t.end} : t \in Tracks}
            f == [b \in bars |-> {b.alloc, b.free}]
            g == [t \in Tracks |-> {t.begin, t.end}]
<1>3. (\A y \in A : \E b \in bars : y = f[b]) /\ (\A y \in B : \E t \in Tracks : y = g[t])
  OBVIOUS
<1>4. IsFiniteSet(A) /\ IsFiniteSet(B)
  <2>. HIDE DEF A, B, f, g
  <2>1. IsFiniteSet(bars) /\ IsFiniteSet(Tracks)
    BY <1>1, <1>2
  <2>2. IsFiniteSet(A)
    BY ONLY <1>3, <2>1, ImageFinite
  <2>3. IsFiniteSet(B)
    BY ONLY <1>3, <2>1, ImageFinite
  <2>. QED  BY <2>2, <2>3
<1>5. \A u, v : IsFiniteSet({u, v})
  <2>1. ASSUME NEW u, NEW v PROVE IsFiniteSet({u, v})
    <3>1. IsFiniteSet({u}) /\ {u} \cup {v} = {u, v}
      BY FS_Singleton
    <3>. QED  BY <3>1, FS_AddElement
  <2>. QED  BY <2>1
<1>6. (\A y \in A : IsFiniteSet(y)) /\ (\A y \in B : IsFiniteSet(y))
  BY <1>5
<1>7. Breakpoints(bars) = (UNION A) \cup (UNION B)
  BY DEF Breakpoints
<1>8. UNION A \subseteq Int /\ UNION B \subseteq Int
  BY <1>1, <1>2
<1>9. \A b \in bars : b.alloc \in UNION A /\ b.free \in UNION A
  OBVIOUS
<1>. HIDE DEF A, B
<1>10. IsFiniteSet(UNION A) /\ IsFiniteSet(UNION B)
  BY ONLY <1>4, <1>6, FS_UNION
<1>. DEFINE U == UNION A
            V == UNION B
<1>11. IsFiniteSet(U) /\ IsFiniteSet(V)
  BY <1>10
<1>12. U \subseteq Int /\ V \subseteq Int /\ \A b \in bars : b.alloc \in U /\ b.free \in U
  BY <1>8, <1>9
<1>13. Breakpoints(bars) = U \cup V
  BY <1>7
<1>. HIDE DEF U, V
<1>14. IsFiniteSet(U \cup V)
  BY ONLY <1>11, FS_Union
<1>. QED  BY ONLY <1>12, <1>13, <1>14

-----------------------------------------------------------------------------
(* The page, once drawn, is of the reports as they are.                    *)

MapInv == ReportsInv /\ (page # None => Done /\ \E all \in BOOLEAN : page = Page(all))

(* What would be drawn depends on the reports only.                        *)
LEMMA PageKept ==
    ASSUME UNCHANGED vars, NEW all
    PROVE  Page(all)' = Page(all)
<1>1. /\ Graph' = Graph /\ Entries' = Entries /\ Flagged' = Flagged
      /\ allocs' = allocs /\ findings' = findings
  BY DEF vars, input, Graph, Entries, Flagged
<1>2. Tracks' = Tracks
  BY <1>1 DEF Tracks
<1>3. StrongImpact' = StrongImpact
  BY <1>1 DEF StrongImpact
<1>4. Strong' = Strong
  BY <1>1, <1>3 DEF Strong
<1>5. \A bars : Ordered(bars)' = Ordered(bars) /\ Breakpoints(bars)' = Breakpoints(bars)
  BY <1>2, <1>4 DEF Ordered, Breakpoints
<1>. QED  BY <1>1, <1>3, <1>5 DEF Page

(* Nothing is looked at once the page is drawn, and it is drawn once.      *)
LEMMA MapInvStep == MapInv /\ [MapNext]_mapVars => MapInv'
<1>. SUFFICES ASSUME MapInv, [MapNext]_mapVars PROVE MapInv'
  OBVIOUS
<1>1. ReportsInv'
  <2>1. [Next]_vars
    BY MapStepOfReports
  <2>. QED  BY <2>1, ReportsInvStep DEF MapInv
<1>2. ASSUME UNCHANGED vars PROVE Done' = Done
  BY <1>2 DEF vars, input, Done
<1>3. CASE LookAtCapture \/ LookAtSegment
  <2>0. Len(captures) \in Nat /\ Len(segments) \in Nat /\ at \in Int
    <3>1. captures \in Seq(Windows) /\ segments \in Seq(Windows)
      BY InputsTyped DEF MapInv, ReportsInv
    <3>2. Len(captures) \in Nat /\ Len(segments) \in Nat
      BY ONLY <3>1
    <3>. QED  BY <3>2 DEF MapInv, ReportsInv, Placed
  <2>2. ~Done /\ at' = at + 1
    <3>1. (at < Len(captures) \/ at < Len(captures) + Len(segments)) /\ at' = at + 1
      BY <1>3 DEF LookAtCapture, LookAtSegment
    <3>. QED  BY ONLY <2>0, <3>1 DEF Done
  <2>1. page' = page
    <3>1. ~(\E all \in BOOLEAN : Draw(all))
      BY <2>2 DEF Draw
    <3>2. ~(UNCHANGED mapVars)
      <4>1. at' # at
        BY ONLY <2>0, <2>2
      <4>. QED  BY <4>1 DEF mapVars, vars
    <3>. QED  BY <3>1, <3>2 DEF MapNext
  <2>. QED  BY <1>1, <2>1, <2>2 DEF MapInv
<1>4. CASE \E all \in BOOLEAN : Draw(all)
  <2>1. PICK all \in BOOLEAN : Draw(all)
    BY <1>4
  <2>2. Done /\ page' = Page(all) /\ UNCHANGED vars
    BY <2>1 DEF Draw
  <2>3. Page(all)' = Page(all)
    BY <2>2, PageKept
  <2>. QED  BY <1>1, <1>2, <2>2, <2>3 DEF MapInv
<1>5. CASE UNCHANGED mapVars
  <2>1. page' = page /\ UNCHANGED vars
    BY <1>5 DEF mapVars
  <2>2. \A all : Page(all)' = Page(all)
    BY <2>1, PageKept
  <2>. QED  BY <1>1, <1>2, <2>1, <2>2 DEF MapInv
<1>. QED  BY <1>3, <1>4, <1>5 DEF MapNext

(* At first there is no page.                                              *)
LEMMA MapInvInit == MapInit => MapInv
BY ReportsInvInit DEF MapInit, MapInv

(* What is drawn stays drawn, and of what was analysed.                     *)
THEOREM MapInvariant == MapSpec => []MapInv
BY MapInvInit, MapInvStep, PTL DEF MapSpec

-----------------------------------------------------------------------------
(* Which allocations get a rectangle.                                      *)

Priority(bars) ==
    {p \in bars \X bars :
        \/ p[1] \in Strong /\ p[2] \notin Strong
        \/ (p[1] \in Strong <=> p[2] \in Strong) /\ Larger(p[1], p[2])}

ShownOf(bars) == ToSet(SubSeq(Ordered(bars), 1, Min({MaxRects, Len(Ordered(bars))})))

(* The order in which allocations get rectangles is total.                 *)
LEMMA PriorityIs ==
    ASSUME ReportsInv, NEW bars \in SUBSET allocs
    PROVE  /\ IsFiniteSet(bars) /\ TotallyOrders(Priority(bars), bars)
           /\ \A a, b \in bars : <<a, b>> \in Priority(bars) <=>
                 \/ a \in Strong /\ b \notin Strong
                 \/ (a \in Strong <=> b \in Strong) /\ Larger(a, b)
           /\ Lists(Ordered(bars), Cardinality(bars), bars, Priority(bars))
<1>1. /\ IsFiniteSet(allocs) /\ End \in Nat
      /\ allocs \subseteq [addr : Nat, size : Nat \ {0}, alloc : Nat, free : Nat]
      /\ \A a \in allocs : a.alloc < a.free /\ a.free <= End
      /\ \A a, b \in allocs : a # b => {a.alloc, a.free} \cap {b.alloc, b.free} \subseteq {End}
  BY InputsTyped DEF ReportsInv
<1>2. \A a \in allocs : a.size \in Nat /\ a.alloc \in Nat /\ a.free \in Nat /\ a.alloc < End
  <2>1. \A a \in allocs : a.size \in Nat /\ a.alloc \in Nat /\ a.free \in Nat
    BY <1>1
  <2>. QED  BY ONLY <1>1, <2>1
<1>3. \A a, b \in allocs : a # b => a.alloc # b.alloc
  <2>1. ASSUME NEW a \in allocs, NEW b \in allocs, a # b, a.alloc = b.alloc PROVE FALSE
    <3>1. a.alloc \in {a.alloc, a.free} \cap {b.alloc, b.free}
      BY <2>1
    <3>2. a.alloc = End
      BY ONLY <1>1, <2>1, <3>1
    <3>. QED  BY <1>1, <1>2, <3>2
  <2>. QED  BY <2>1
<1>. DEFINE R == Priority(bars)
<1>4. \A a, b \in bars : <<a, b>> \in R <=>
         \/ a \in Strong /\ b \notin Strong
         \/ (a \in Strong <=> b \in Strong) /\ Larger(a, b)
  BY DEF Priority
<1>5. /\ \A a \in bars : ~Larger(a, a)
      /\ \A a, b, c \in bars : Larger(a, b) /\ Larger(b, c) => Larger(a, c)
      /\ \A a, b \in bars : a # b => Larger(a, b) \/ Larger(b, a)
  <2>1. \A a \in bars : a.size \in Nat /\ a.alloc \in Nat
    BY <1>2
  <2>2. \A a, b \in bars : a # b => a.alloc # b.alloc
    BY <1>3
  <2>. QED  BY ONLY <2>1, <2>2 DEF Larger
<1>. HIDE DEF R
<1>6. TotallyOrders(R, bars)
  BY ONLY <1>4, <1>5 DEF TotallyOrders
<1>7. IsFiniteSet(bars)
  BY ONLY <1>1, bars \in SUBSET allocs, FS_Subset
<1>8. Ordered(bars) = SortedBy(bars, R)
  BY DEF Ordered, R, Priority
<1>9. Lists(Ordered(bars), Cardinality(bars), bars, R)
  BY ONLY <1>6, <1>7, <1>8, SortedLists
<1>. QED  BY <1>4, <1>6, <1>7, <1>9 DEF R

(* They are the first of the order, as many as there may be.               *)
LEMMA ShownAre ==
    ASSUME ReportsInv, NEW bars \in SUBSET allocs
    PROVE  /\ ShownOf(bars) \subseteq bars
           /\ \A i \in 1 .. Cardinality(bars) : i <= MaxRects => Ordered(bars)[i] \in ShownOf(bars)
           /\ \A a \in ShownOf(bars) : \E i \in 1 .. Cardinality(bars) :
                 i <= MaxRects /\ a = Ordered(bars)[i]
<1>. DEFINE n == Cardinality(bars)
            f == Ordered(bars)
            m == Min({MaxRects, Len(f)})
            s == SubSeq(f, 1, m)
<1>1. n \in Nat
  BY PriorityIs, FS_CardinalityType
<1>2. f \in [1 .. n -> bars]
  BY PriorityIs DEF Lists
<1>. HIDE DEF n, f
<1>3. f \in Seq(bars) /\ Len(f) = n
  BY <1>1, <1>2
<1>4. MaxRects \in Nat
  BY PageAssumption
<1>5. m = IF MaxRects <= n THEN MaxRects ELSE n
  <2>1. MaxRects \in Int /\ n \in Int
    BY <1>1, <1>4
  <2>. QED  BY <1>3, <2>1, OfTwo
<1>. HIDE DEF m
<1>6. m \in Nat /\ m <= n
  BY <1>1, <1>4, <1>5
<1>7. DOMAIN s = 1 .. m /\ \A i \in 1 .. m : s[i] = f[i]
  BY <1>1, <1>3, <1>6
<1>8. ShownOf(bars) = ToSet(s)
  BY DEF ShownOf, s, m, f
<1>. HIDE DEF s
<1>9. \A a : a \in ShownOf(bars) <=> \E i \in 1 .. m : a = f[i]
  BY <1>7, <1>8 DEF ToSet
<1>10. \A i \in 1 .. n : i <= MaxRects <=> i \in 1 .. m
  BY <1>1, <1>4, <1>5, <1>6
<1>11. 1 .. m \subseteq 1 .. n
  BY <1>1, <1>6
<1>. QED  BY <1>2, <1>9, <1>10, <1>11 DEF n, f

(* What a page has.                                                        *)
LEMMA PageHas ==
    ASSUME MapInv, Drawn
    PROVE  /\ ReportsInv /\ Read
           /\ page.bars \in SUBSET allocs /\ Graph \subseteq page.bars
           /\ Apart(page.segs)
           /\ page.rects = {Rect(b, Points, page.segs) : b \in ShownOf(page.bars)}
           /\ page.tinted = {b \in ShownOf(page.bars) \cap Flagged : Impact(b) < StrongImpact}
           /\ page.under = Underlay({Rect(b, Points, page.segs) : b \in page.bars \ ShownOf(page.bars)},
                                    Max({1, BytesIn(page.segs)}), Points)
<1>1. ReportsInv /\ Read
  BY DEF MapInv, ReportsInv
<1>2. PICK all \in BOOLEAN : page = Page(all)
  BY DEF MapInv, Drawn
<1>3. /\ page.bars = (IF all THEN allocs ELSE Graph)
      /\ page.segs = Rendered(page.bars)
      /\ page.rects = {Rect(b, Breakpoints(page.bars), page.segs) : b \in ShownOf(page.bars)}
      /\ page.tinted = {b \in ShownOf(page.bars) \cap Flagged : Impact(b) < StrongImpact}
      /\ page.under = Underlay({Rect(b, Breakpoints(page.bars), page.segs) :
                                   b \in page.bars \ ShownOf(page.bars)},
                               Max({1, BytesIn(page.segs)}), Breakpoints(page.bars))
  BY <1>2 DEF Page, ShownOf
<1>4. Graph \subseteq allocs
  BY DEF Graph
<1>5. page.bars \in SUBSET allocs /\ Graph \subseteq page.bars
  BY <1>3, <1>4
<1>6. Apart(page.segs)
  <2>. DEFINE S == GraphSegments \cup OtherSegments
  <2>1. IsFiniteSet(S)
    BY SegmentsAssumption, PageAssumption, FS_Union
  <2>2. \A s \in S : s.addr \in Nat /\ s.size \in Nat /\ s.size > 0
    BY SegmentsAssumption, PageAssumption
  <2>3. \A s, t \in S : s # t => s.addr + s.size <= t.addr \/ t.addr + t.size <= s.addr
    BY SegmentsAssumption, PageAssumption
  <2>4. page.segs \in SUBSET S
    BY <1>3 DEF Rendered
  <2>. HIDE DEF S
  <2>5. Apart(S)
    BY ONLY <2>1, <2>2, <2>3 DEF Apart
  <2>. QED  BY ONLY <2>4, <2>5, PartApart
<1>. QED  BY <1>1, <1>3, <1>5, <1>6 DEF Points

(* The definitions the property uses.                                      *)
LEMMA PageMeans ==
    ASSUME MapInv, Drawn
    PROVE  /\ Addresses = AddressesOf(page.segs)
           /\ \A p : Place(p) = PlaceIn(p, page.segs)
           /\ IsFiniteSet(Points) /\ Points \subseteq Int
           /\ \A b \in page.bars : /\ b.alloc \in Points /\ b.free \in Points
                                   /\ b.addr \in Nat /\ b.size \in Nat /\ b.size > 0
           /\ \A row \in Rows : BeginOf(row) \in Points /\ Rank(BeginOf(row), Points) = row
<1>1. Addresses = AddressesOf(page.segs)
  BY DEF Addresses, AddressesOf, BytesOf
<1>2. \A p : Place(p) = PlaceIn(p, page.segs)
  BY <1>1 DEF Place, PlaceIn
<1>3. ReportsInv /\ Read /\ page.bars \in SUBSET allocs
  BY PageHas
<1>4. /\ IsFiniteSet(Points) /\ Points \subseteq Int
      /\ \A b \in page.bars : b.alloc \in Points /\ b.free \in Points
  BY <1>3, BreakpointsTyped DEF Points
<1>5. \A b \in page.bars : b.addr \in Nat /\ b.size \in Nat /\ b.size > 0
  <2>1. allocs \subseteq [addr : Nat, size : Nat \ {0}, alloc : Nat, free : Nat]
    BY <1>3, InputsTyped
  <2>2. \A b \in allocs : b.addr \in Nat /\ b.size \in Nat \ {0}
    BY ONLY <2>1
  <2>. QED  BY ONLY <1>3, <2>2
<1>6. ASSUME NEW row \in Rows PROVE BeginOf(row) \in Points /\ Rank(BeginOf(row), Points) = row
  <2>1. Cardinality(Points) \in Nat
    BY <1>4, FS_CardinalityType
  <2>2. row \in 0 .. Cardinality(Points) - 1
    BY <2>1 DEF Rows
  <2>3. \E p \in Points : Rank(p, Points) = row
    BY ONLY <1>4, <2>2, RanksReached
  <2>. QED  BY <2>3 DEF BeginOf
<1>. QED  BY <1>1, <1>2, <1>4, <1>5, <1>6

(* The rows of a rectangle are those its allocation lives in.              *)
LEMMA RectTall ==
    ASSUME MapInv, Drawn, NEW b \in page.bars, NEW row \in Rows
    PROVE  Rank(b.alloc, Points) <= row /\ row < Rank(b.free, Points) <=> LivesIn(b, row)
<1>1. /\ IsFiniteSet(Points) /\ Points \subseteq Int /\ b.alloc \in Points /\ b.free \in Points
      /\ BeginOf(row) \in Points /\ Rank(BeginOf(row), Points) = row
  BY PageMeans
<1>. DEFINE r == BeginOf(row)
<1>. HIDE DEF r
<1>2. r \in Points /\ Rank(r, Points) = row
  BY <1>1 DEF r
<1>3. Rank(b.alloc, Points) <= row /\ row < Rank(b.free, Points) <=> b.alloc <= r /\ r < b.free
  BY ONLY <1>1, <1>2, RowsBetween
<1>. QED  BY <1>3 DEF LivesIn, r

(* The rectangles of a page cover what they should.                        *)
LEMMA RectsTrue == MapInv => RectsAreTrue
<1>. SUFFICES ASSUME MapInv, Drawn, NEW r \in page.rects, r.of.addr \in Addresses,
                     NEW p \in Addresses, NEW row \in Rows
     PROVE  (r.x <= Place(p) /\ Place(p) < r.x + r.width /\ r.top <= row /\ row < r.bottom)
                <=> p \in OnMap(r.of) /\ LivesIn(r.of, row)
  BY DEF RectsAreTrue
<1>. DEFINE S == page.segs
<1>1. PICK b \in ShownOf(page.bars) : r = Rect(b, Points, S)
  BY PageHas
<1>2. b \in page.bars
  BY PageHas, ShownAre
<1>3. /\ r.of = b /\ r.x = XOf(b.addr, S) /\ r.width = DrawSize(b, S)
      /\ r.top = Rank(b.alloc, Points) /\ r.bottom = Rank(b.free, Points)
  BY <1>1 DEF Rect
<1>4. Apart(S) /\ b.addr \in AddressesOf(S) /\ p \in AddressesOf(S) /\ Place(p) = PlaceIn(p, S)
      /\ b.size \in Nat /\ b.size > 0 /\ Addresses = AddressesOf(S)
  BY <1>2, <1>3, PageHas, PageMeans
<1>5. r.top <= row /\ row < r.bottom <=> LivesIn(b, row)
  BY <1>2, <1>3, RectTall
<1>6. p \in OnMap(b) <=> p \in b.addr .. b.addr + b.size - 1 /\ b.addr .. p \subseteq AddressesOf(S)
  BY <1>4 DEF OnMap
<1>. HIDE DEF S
<1>7. r.x <= Place(p) /\ Place(p) < r.x + r.width
         <=> p \in b.addr .. b.addr + b.size - 1 /\ b.addr .. p \subseteq AddressesOf(S)
  <2>1. /\ XOf(b.addr, S) <= PlaceIn(p, S) /\ PlaceIn(p, S) < XOf(b.addr, S) + DrawSize(b, S)
             <=> p \in b.addr .. b.addr + b.size - 1 /\ b.addr .. p \subseteq AddressesOf(S)
    BY ONLY <1>4, RectWide
  <2>. QED  BY ONLY <1>3, <1>4, <2>1
<1>. QED  BY ONLY <1>3, <1>5, <1>6, <1>7

(* A rectangle covers what its allocation has of the map while it lives.    *)
THEOREM RectanglesTrue == MapSpec => []RectsAreTrue
BY MapInvariant, RectsTrue, PTL

-----------------------------------------------------------------------------
(* The findings of the highest impact.                                     *)

AtLeast(v) == {f \in findings : Impact(f.of) >= v}
Enough     == Min({TopFindings, Cardinality(findings)})
Impacts    == {Impact(f.of) : f \in findings}

(* Findings are of the graph pool and have an impact.                      *)
LEMMA FindingsTyped ==
    ASSUME Read
    PROVE  /\ IsFiniteSet(findings) /\ Cardinality(findings) \in Nat
           /\ \A f \in findings : Impact(f.of) \in Nat /\ f.of \in Graph
           /\ IsFiniteSet(Impacts) /\ Impacts \subseteq Nat
           /\ \A v : AtLeast(v) \subseteq findings /\ IsFiniteSet(AtLeast(v))
                     /\ Cardinality(AtLeast(v)) \in Nat
           /\ TopFindings \in Nat /\ TopFindings > 0
           /\ Enough = IF TopFindings <= Cardinality(findings) THEN TopFindings ELSE Cardinality(findings)
<1>1. /\ IsFiniteSet(findings)
      /\ \A f \in findings : f.of \in allocs /\ \E s \in GraphSegments : Within(f.of, s)
      /\ allocs \subseteq [addr : Nat, size : Nat \ {0}, alloc : Nat, free : Nat]
  BY InputsTyped
<1>2. Cardinality(findings) \in Nat
  BY <1>1, FS_CardinalityType
<1>3. ASSUME NEW f \in findings PROVE Impact(f.of) \in Nat /\ f.of \in Graph
  <2>1. f.of \in allocs
    BY <1>1
  <2>. DEFINE a == f.of
              l == Max({1, a.free - a.alloc})
  <2>2. a.size \in Nat /\ a.free - a.alloc \in Int
    BY <1>1, <2>1
  <2>. HIDE DEF a
  <2>3. l \in Nat
    <3>1. 1 \in Int
      OBVIOUS
    <3>2. l = IF 1 >= a.free - a.alloc THEN 1 ELSE a.free - a.alloc
      BY ONLY <2>2, <3>1, OfTwo
    <3>. QED  BY ONLY <2>2, <3>2
  <2>4. Impact(a) = a.size * l
    BY DEF Impact
  <2>. HIDE DEF l
  <2>5. a.size * l \in Nat
    BY ONLY <2>2, <2>3
  <2>6. f.of \in Graph
    BY <1>1 DEF Graph
  <2>. QED  BY <2>4, <2>5, <2>6 DEF a
<1>4. IsFiniteSet(Impacts)
  <2>. DEFINE g == [f \in findings |-> Impact(f.of)]
  <2>1. \A v \in Impacts : \E f \in findings : v = g[f]
    BY DEF Impacts
  <2>. HIDE DEF g
  <2>. QED  BY ONLY <1>1, <2>1, ImageFinite
<1>5. ASSUME NEW v
      PROVE  AtLeast(v) \subseteq findings /\ IsFiniteSet(AtLeast(v)) /\ Cardinality(AtLeast(v)) \in Nat
  <2>1. AtLeast(v) \in SUBSET findings
    BY DEF AtLeast
  <2>2. IsFiniteSet(AtLeast(v))
    BY ONLY <1>1, <2>1, FS_Subset
  <2>. QED  BY <2>1, <2>2, FS_CardinalityType
<1>6. TopFindings \in Nat /\ TopFindings > 0
  BY PageAssumption
<1>7. Enough = IF TopFindings <= Cardinality(findings) THEN TopFindings ELSE Cardinality(findings)
  <2>1. TopFindings \in Int /\ Cardinality(findings) \in Int
    BY <1>2, <1>6
  <2>. QED  BY <2>1, OfTwo DEF Enough
<1>8. Impacts \subseteq Nat
  BY <1>3 DEF Impacts
<1>. QED  BY <1>1, <1>2, <1>3, <1>4, <1>5, <1>6, <1>7, <1>8

(* The impact from which on a finding is strong: enough have it, and there  *)
(* is no higher one that enough have.                                      *)
LEMMA StrongImpactIs ==
    ASSUME Read, findings # {}
    PROVE  /\ StrongImpact \in Impacts /\ Cardinality(AtLeast(StrongImpact)) >= Enough
           /\ \A v \in Impacts : Cardinality(AtLeast(v)) >= Enough => v <= StrongImpact
<1>. DEFINE V == {v \in Impacts : Cardinality(AtLeast(v)) >= Enough}
            W == {0} \cup V
<1>1. IsFiniteSet(Impacts) /\ Impacts \subseteq Nat /\ Impacts # {}
  BY FindingsTyped DEF Impacts
<1>2. StrongImpact = Max(W)
  BY DEF StrongImpact, AtLeast, Enough, Impacts
<1>3. V # {}
  <2>1. Impacts \in SUBSET Int
    BY <1>1
  <2>2. Min(Impacts) \in Impacts /\ \A y \in Impacts : Min(Impacts) <= y
    BY ONLY <1>1, <2>1, MinExists
  <2>3. AtLeast(Min(Impacts)) = findings
    <3>1. ASSUME NEW f \in findings PROVE Impact(f.of) >= Min(Impacts)
      <4>1. Impact(f.of) \in Impacts
        BY DEF Impacts
      <4>2. Min(Impacts) <= Impact(f.of) /\ Min(Impacts) \in Int /\ Impact(f.of) \in Int
        <5>. DEFINE x == Impact(f.of)
                    y == Min(Impacts)
        <5>1. x \in Impacts /\ y \in Impacts /\ \A z \in Impacts : y <= z
          BY <2>2, <4>1
        <5>. HIDE DEF x, y
        <5>2. y <= x /\ x \in Int /\ y \in Int
          BY ONLY <1>1, <5>1
        <5>. QED  BY <5>2 DEF x, y
      <4>. QED  BY ONLY <4>2
    <3>. QED  BY <3>1 DEF AtLeast
  <2>4. Cardinality(findings) >= Enough
    <3>1. /\ Cardinality(findings) \in Nat /\ TopFindings \in Nat
          /\ Enough = IF TopFindings <= Cardinality(findings) THEN TopFindings ELSE Cardinality(findings)
      BY FindingsTyped
    <3>. QED  BY ONLY <3>1
  <2>. QED  BY <2>2, <2>3, <2>4
<1>4. W \in SUBSET Int /\ W # {} /\ V \in SUBSET Impacts
  <2>1. V \in SUBSET Impacts
    OBVIOUS
  <2>. HIDE DEF V
  <2>. QED  BY ONLY <1>1, <2>1
<1>5. IsFiniteSet(W)
  <2>. HIDE DEF V
  <2>1. IsFiniteSet(V)
    BY ONLY <1>1, <1>4, FS_Subset
  <2>. QED  BY <2>1, FS_Singleton, FS_Union
<1>6. Max(W) \in W /\ \A y \in W : Max(W) >= y
  <2>. HIDE DEF W
  <2>. QED  BY ONLY <1>4, <1>5, MaxExists
<1>. DEFINE m == Max(W)
<1>. HIDE DEF m
<1>7. m \in V /\ \A y \in V : m >= y
  <2>1. m \in {0} \cup V /\ \A y \in V : m >= y
    BY <1>6 DEF m
  <2>2. PICK v \in V : TRUE
    BY <1>3
  <2>3. v \in Nat /\ m >= v
    BY <1>1, <2>1, <2>2
  <2>4. CASE m = 0
    <3>1. v = m
      BY ONLY <2>3, <2>4
    <3>. QED  BY <2>1, <2>2, <3>1
  <2>. QED  BY <2>1, <2>4
<1>8. StrongImpact = m
  BY <1>2 DEF m
<1>9. \A y \in V : y <= m
  <2>1. \A y \in V : m \in Int /\ y \in Int /\ m >= y
    BY <1>1, <1>7
  <2>. QED  BY ONLY <2>1
<1>. QED  BY <1>7, <1>8, <1>9

Higher(f) == {g \in findings : Impact(g.of) > Impact(f.of)}
Top       == {f.of : f \in {g \in findings : Cardinality(Higher(g)) < TopFindings}}

(* A finding is strong if fewer than the top ones have a higher impact.     *)
LEMMA StrongAreTop ==
    ASSUME Read, NEW f \in findings
    PROVE  Impact(f.of) >= StrongImpact <=> Cardinality(Higher(f)) < TopFindings
<1>. DEFINE i(g) == Impact(g.of)
            s == StrongImpact
            n == Cardinality(findings)
<1>1. /\ s \in Impacts /\ Cardinality(AtLeast(s)) >= Enough
      /\ \A v \in Impacts : Cardinality(AtLeast(v)) >= Enough => v <= s
  BY StrongImpactIs
<1>2. /\ IsFiniteSet(findings) /\ n \in Nat
      /\ \A g \in findings : i(g) \in Nat
      /\ IsFiniteSet(Impacts) /\ Impacts \subseteq Nat
      /\ \A v : AtLeast(v) \subseteq findings /\ IsFiniteSet(AtLeast(v)) /\ Cardinality(AtLeast(v)) \in Nat
      /\ TopFindings \in Nat /\ TopFindings > 0
      /\ Enough = IF TopFindings <= n THEN TopFindings ELSE n
  BY FindingsTyped
<1>3. Higher(f) \in SUBSET findings /\ f \notin Higher(f)
  BY <1>2 DEF Higher
<1>4. IsFiniteSet(Higher(f)) /\ Cardinality(Higher(f)) \in Nat
  <2>1. IsFiniteSet(Higher(f))
    BY ONLY <1>2, <1>3, FS_Subset
  <2>. QED  BY <2>1, FS_CardinalityType
<1>5. s \in Nat /\ i(f) \in Nat
  BY <1>1, <1>2
<1>. HIDE DEF s, n
<1>6. ASSUME ~(i(f) >= s) PROVE Cardinality(Higher(f)) >= TopFindings
  <2>1. AtLeast(s) \in SUBSET Higher(f)
    <3>1. ASSUME NEW g \in findings, i(g) >= s PROVE i(g) > i(f)
      BY <1>2, <1>5, <1>6, <3>1
    <3>. QED  BY <3>1 DEF AtLeast, Higher
  <2>2. Cardinality(AtLeast(s)) <= Cardinality(Higher(f))
    BY ONLY <1>4, <2>1, FS_Subset
  <2>3. Cardinality(Higher(f)) <= n /\ Cardinality(Higher(f)) # n
    <3>1. Cardinality(Higher(f)) <= Cardinality(findings)
          /\ (Cardinality(findings) = Cardinality(Higher(f)) => findings = Higher(f))
      BY ONLY <1>2, <1>3, FS_Subset
    <3>. QED  BY <1>3, <3>1 DEF n
  <2>. QED  BY ONLY <1>1, <1>2, <1>4, <2>2, <2>3
<1>7. ASSUME i(f) >= s, Cardinality(Higher(f)) >= TopFindings PROVE FALSE
  <2>. DEFINE U == {i(g) : g \in Higher(f)}
  <2>1. U \in SUBSET Impacts
    BY <1>3 DEF Impacts
  <2>2. Higher(f) # {}
    <3>1. Cardinality(Higher(f)) # 0
      BY ONLY <1>2, <1>4, <1>7
    <3>. QED  BY <3>1, FS_EmptySet
  <2>3. U # {}
    BY <2>2
  <2>. DEFINE u == Min(U)
  <2>4. u \in U /\ \A y \in U : u <= y
    <3>. HIDE DEF U, u
    <3>1. IsFiniteSet(U)
      BY ONLY <1>2, <2>1, FS_Subset
    <3>2. U \in SUBSET Int
      BY ONLY <1>2, <2>1
    <3>3. Min(U) \in U /\ \A y \in U : Min(U) <= y
      BY ONLY <2>3, <3>1, <3>2, MinExists
    <3>. QED  BY ONLY <3>3 DEF u
  <2>. HIDE DEF u
  <2>5. PICK h \in Higher(f) : u = i(h)
    BY <2>4
  <2>6. h \in findings /\ u \in Nat /\ u > i(f)
    BY <1>2, <2>5 DEF Higher
  <2>7. Higher(f) \in SUBSET AtLeast(u)
    <3>1. ASSUME NEW g \in Higher(f) PROVE i(g) >= u /\ g \in findings
      <4>1. u <= i(g) /\ g \in findings
        BY <1>3, <2>4
      <4>2. i(g) \in Nat
        BY <1>2, <4>1
      <4>. QED  BY ONLY <2>6, <4>1, <4>2
    <3>. QED  BY <3>1 DEF AtLeast
  <2>8. Cardinality(Higher(f)) <= Cardinality(AtLeast(u)) /\ Cardinality(AtLeast(u)) \in Nat
    <3>1. IsFiniteSet(AtLeast(u)) /\ Cardinality(AtLeast(u)) \in Nat
      BY <1>2
    <3>. QED  BY ONLY <2>7, <3>1, FS_Subset
  <2>9. u \in Impacts
    BY <2>1, <2>4
  <2>10. Cardinality(AtLeast(u)) >= Enough
    BY ONLY <1>2, <1>4, <1>7, <2>8
  <2>11. u <= s
    BY <1>1, <2>9, <2>10
  <2>. QED  BY ONLY <1>5, <1>7, <2>6, <2>11
<1>8. TopFindings \in Nat
  BY <1>2
<1>9. i(f) >= s <=> Cardinality(Higher(f)) < TopFindings
  BY ONLY <1>4, <1>6, <1>7, <1>8
<1>. QED  BY <1>9 DEF s

(* The strong allocations are those of the top findings.                   *)
LEMMA StrongIsTop ==
    ASSUME Read
    PROVE  /\ Strong = Top /\ \A a \in Flagged : a \in Top <=> Impact(a) >= StrongImpact
           /\ IsFiniteSet(Top) /\ Top \subseteq Graph
<1>1. ASSUME NEW a \in Flagged PROVE a \in Top <=> Impact(a) >= StrongImpact
  <2>1. PICK f \in findings : a = f.of
    BY DEF Flagged
  <2>2. a \in Top <=> \E g \in findings : a = g.of /\ Cardinality(Higher(g)) < TopFindings
    BY DEF Top
  <2>. QED  BY <2>1, <2>2, StrongAreTop
<1>2. Top \subseteq Flagged
  BY DEF Top, Flagged
<1>3. Strong = {a \in Flagged : Impact(a) >= StrongImpact}
  BY DEF Strong
<1>4. Flagged \subseteq Graph
  BY FindingsTyped DEF Flagged
<1>5. IsFiniteSet(Top)
  <2>1. IsFiniteSet(Graph)
    BY GraphTyped
  <2>2. Top \in SUBSET Graph
    BY <1>2, <1>4
  <2>. QED  BY ONLY <2>1, <2>2, FS_Subset
<1>. QED  BY <1>1, <1>2, <1>3, <1>4, <1>5

(* Strong ones come first, so that they have places up to their number.     *)
LEMMA StrongFirst ==
    ASSUME ReportsInv, NEW bars \in SUBSET allocs, Graph \subseteq bars,
           Cardinality(Top) <= MaxRects
    PROVE  Top \subseteq ShownOf(bars)
<1>. DEFINE n == Cardinality(bars)
            f == Ordered(bars)
            R == Priority(bars)
<1>0. Read
  BY DEF ReportsInv
<1>1. Strong = Top /\ IsFiniteSet(Top) /\ Top \subseteq bars
  BY <1>0, StrongIsTop
<1>2. /\ IsFiniteSet(bars) /\ TotallyOrders(R, bars)
      /\ \A a, b \in bars : <<a, b>> \in R <=>
                 \/ a \in Strong /\ b \notin Strong
                 \/ (a \in Strong <=> b \in Strong) /\ Larger(a, b)
      /\ Lists(f, n, bars, R)
  BY PriorityIs
<1>3. n \in Nat /\ Cardinality(Top) \in Nat
  BY <1>1, <1>2, FS_CardinalityType
<1>. HIDE DEF n, f, R
<1>4. ASSUME NEW a \in Top PROVE a \in ShownOf(bars)
  <2>1. PICK k \in 1 .. n : f[k] = a
    BY <1>1, <1>2 DEF Lists
  <2>. DEFINE B == {y \in bars : <<y, f[k]>> \in R}
  <2>2. Cardinality(B) = k - 1
    BY ONLY <1>2, <1>3, RankInList
  <2>3. B \in SUBSET Top /\ a \notin B
    <3>1. ASSUME NEW y \in B PROVE y \in Top
      BY <1>1, <1>2, <2>1
    <3>2. <<a, a>> \notin R
      BY <1>1, <1>2 DEF TotallyOrders
    <3>. QED  BY <2>1, <3>1, <3>2
  <2>4. Cardinality(B) <= Cardinality(Top) /\ Cardinality(B) # Cardinality(Top)
    <3>. HIDE DEF B
    <3>1. Cardinality(B) <= Cardinality(Top) /\ (Cardinality(Top) = Cardinality(B) => Top = B)
      BY ONLY <1>1, <2>3, FS_Subset
    <3>. QED  BY <2>3, <3>1
  <2>5. MaxRects \in Nat
    BY PageAssumption
  <2>6. k <= MaxRects
    BY ONLY <1>3, <2>2, <2>4, <2>5, Cardinality(Top) <= MaxRects, k \in 1 .. n
  <2>. QED  BY <2>1, <2>6, ShownAre DEF n, f
<1>. QED  BY <1>4

(* On a page the top findings stand out.                                   *)
LEMMA TopStandOut == MapInv => TopFindingsStandOut
<1>. SUFFICES ASSUME MapInv, Drawn
     PROVE  /\ Cardinality(Top) <= MaxRects => Top \subseteq WithRect
            /\ page.tinted = WithRect \cap (Flagged \ Top)
  BY DEF TopFindingsStandOut, Top, Higher
<1>1. /\ ReportsInv /\ Read /\ page.bars \in SUBSET allocs /\ Graph \subseteq page.bars
      /\ page.rects = {Rect(b, Points, page.segs) : b \in ShownOf(page.bars)}
      /\ page.tinted = {b \in ShownOf(page.bars) \cap Flagged : Impact(b) < StrongImpact}
  BY PageHas
<1>2. \A b : Rect(b, Points, page.segs).of = b
  BY DEF Rect
<1>3. WithRect = ShownOf(page.bars)
  BY <1>1, <1>2 DEF WithRect
<1>4. Cardinality(Top) <= MaxRects => Top \subseteq WithRect
  BY <1>1, <1>3, StrongFirst
<1>5. ASSUME NEW b \in Flagged PROVE Impact(b) < StrongImpact <=> b \notin Top
  <2>1. b \in Top <=> Impact(b) >= StrongImpact
    BY <1>1, StrongIsTop
  <2>2. PICK f \in findings : b = f.of
    BY DEF Flagged
  <2>3. Impact(b) \in Nat
    BY <1>1, <2>2, FindingsTyped
  <2>4. StrongImpact \in Nat
    BY <1>1, <2>2, FindingsTyped, StrongImpactIs
  <2>. QED  BY ONLY <2>1, <2>3, <2>4
<1>. QED  BY <1>1, <1>3, <1>4, <1>5

(* The findings of the highest impact survive the cap, and they alone are   *)
(* drawn in full colour.                                                   *)
THEOREM FindingsStandOut == MapSpec => []TopFindingsStandOut
BY MapInvariant, TopStandOut, PTL

-----------------------------------------------------------------------------
(* The gray below: a column's intervals, merged.                            *)

Intervals == {i \in [top : Int, bottom : Int] : i.top <= i.bottom}
Joined    == [done : SUBSET Intervals, cur : Intervals]

(* A place in one of them, or in a gap of at most half between two.        *)
Near(y, I, half) ==
    \E i, j \in I : /\ i.top <= y
                    /\ y <= i.bottom \/ (y <= j.top /\ j.top <= i.bottom + half)

(* As merged they reach over every interval, and over no place that is not *)
(* near; each ends where one does.                                         *)
Merged(M, I, half) ==
    /\ M \subseteq Intervals
    /\ \A i \in I : \E m \in M : m.top <= i.top /\ i.bottom <= m.bottom
    /\ \A m \in M : \E i \in I : i.bottom = m.bottom
    /\ \A m \in M : \A y \in Int : m.top <= y /\ y <= m.bottom => Near(y, I, half)

AllOf(s) == s.done \cup {s.cur}

(* Joining one interval more keeps the merged ones true.                   *)
LEMMA JoinKeeps ==
    ASSUME NEW half \in Nat, NEW s \in Joined, NEW i \in Intervals, NEW F \in SUBSET Intervals,
           Merged(AllOf(s), F, half), s.cur.top <= i.top
    PROVE  /\ Join(s, i, half) \in Joined /\ Join(s, i, half).cur.top <= i.top
           /\ Merged(AllOf(Join(s, i, half)), F \cup {i}, half)
<1>. DEFINE c == s.cur
            t == Join(s, i, half)
<1>1. /\ c \in Intervals /\ s.done \subseteq Intervals
      /\ c.top \in Int /\ c.bottom \in Int /\ i.top \in Int /\ i.bottom \in Int
      /\ c.top <= c.bottom /\ i.top <= i.bottom
  BY DEF Joined, Intervals
<1>2. /\ \A f \in F : f.top \in Int /\ f.bottom \in Int /\ f.top <= f.bottom
      /\ \A m \in AllOf(s) : m.top \in Int /\ m.bottom \in Int
  BY DEF Merged, Intervals
<1>3. CASE i.top <= c.bottom + half
  <2>. DEFINE x == Max({c.bottom, i.bottom})
              d == [top |-> c.top, bottom |-> x]
  <2>1. x = IF c.bottom >= i.bottom THEN c.bottom ELSE i.bottom
    BY ONLY <1>1, OfTwo
  <2>. HIDE DEF x
  <2>2. t = [done |-> s.done, cur |-> d]
    BY <1>3 DEF Join, x
  <2>3. d \in Intervals /\ d.top = c.top /\ d.bottom = x
    <3>1. c.top \in Int /\ x \in Int /\ c.top <= x
      BY ONLY <1>1, <2>1
    <3>. QED  BY <3>1 DEF Intervals
  <2>. HIDE DEF d
  <2>4. t \in Joined /\ t.cur = d /\ AllOf(t) = s.done \cup {d}
    BY <1>1, <2>2, <2>3 DEF Joined, AllOf
  <2>5. AllOf(s) = s.done \cup {c}
    BY DEF AllOf
  <2>. HIDE DEF c, t
  <2>6. ASSUME NEW f \in F \cup {i}
        PROVE  \E m \in AllOf(t) : m.top <= f.top /\ f.bottom <= m.bottom
    <3>1. CASE f = i
      <4>1. d.top <= i.top /\ i.bottom <= d.bottom
        BY <1>1, <2>1, <2>3 DEF c
      <4>. QED  BY <2>4, <3>1, <4>1
    <3>2. CASE f \in F
      <4>1. PICK m \in AllOf(s) : m.top <= f.top /\ f.bottom <= m.bottom
        BY <3>2 DEF Merged
      <4>2. CASE m \in s.done
        BY <2>4, <4>1, <4>2
      <4>3. CASE m = c
        <5>1. d.top <= f.top /\ f.bottom <= d.bottom
          BY ONLY <1>1, <1>2, <2>1, <2>3, <3>2, <4>1, <4>3
        <5>. QED  BY <2>4, <5>1
      <4>. QED  BY <2>5, <4>2, <4>3
    <3>. QED  BY <3>1, <3>2
  <2>7. ASSUME NEW m \in AllOf(t), NEW y \in Int, m.top <= y, y <= m.bottom
        PROVE  Near(y, F \cup {i}, half)
    <3>1. CASE m \in s.done
      <4>1. m \in AllOf(s)
        BY <2>5, <3>1
      <4>2. Near(y, F, half)
        BY <2>7, <4>1 DEF Merged
      <4>. QED  BY <4>2 DEF Near
    <3>2. CASE m = d
      <4>0. c.top <= y /\ y <= x
        BY <2>3, <2>7, <3>2
      <4>1. CASE y <= c.bottom
        <5>1. Near(y, F, half)
          BY <2>5, <4>0, <4>1 DEF Merged
        <5>. QED  BY <5>1 DEF Near
      <4>2. CASE ~(y <= c.bottom) /\ i.top <= y
        <5>1. y <= i.bottom
          BY ONLY <1>1, <2>1, <4>0, <4>2
        <5>. QED  BY <4>2, <5>1 DEF Near
      <4>3. CASE ~(y <= c.bottom) /\ ~(i.top <= y)
        <5>1. PICK f \in F : f.bottom = c.bottom
          BY <2>5 DEF Merged
        <5>2. f.top <= y /\ y <= i.top /\ i.top <= f.bottom + half
          BY ONLY <1>1, <1>2, <1>3, <4>3, <5>1, y \in Int, half \in Nat
        <5>. QED  BY <5>2 DEF Near
      <4>. QED  BY <4>1, <4>2, <4>3
    <3>. QED  BY <2>4, <3>1, <3>2
  <2>10. ASSUME NEW m \in AllOf(t)
         PROVE  \E f \in F \cup {i} : f.bottom = m.bottom
    <3>1. CASE m \in s.done
      BY <2>5, <3>1 DEF Merged
    <3>2. CASE m = d
      <4>1. x = c.bottom \/ x = i.bottom
        BY <2>1
      <4>2. \E f \in F : f.bottom = c.bottom
        BY <2>5 DEF Merged
      <4>. QED  BY <2>3, <3>2, <4>1, <4>2
    <3>. QED  BY <2>4, <3>1, <3>2
  <2>8. AllOf(t) \subseteq Intervals
    BY <1>1, <2>3, <2>4
  <2>9. t.cur.top <= i.top
    BY <2>3, <2>4 DEF c
  <2>. QED  BY <2>4, <2>6, <2>7, <2>8, <2>9, <2>10 DEF Merged, t
<1>4. CASE ~(i.top <= c.bottom + half)
  <2>1. t = [done |-> s.done \cup {c}, cur |-> i]
    BY <1>4 DEF Join
  <2>2. t \in Joined /\ t.cur = i /\ AllOf(t) = AllOf(s) \cup {i}
    BY <1>1, <2>1 DEF Joined, AllOf
  <2>. HIDE DEF t
  <2>3. i.top <= i.top /\ i.bottom <= i.bottom
    BY <1>1
  <2>4. Merged(AllOf(s), F, half)
    OBVIOUS
  <2>5. AllOf(t) \subseteq Intervals
    BY <2>2, <2>4 DEF Merged
  <2>6. ASSUME NEW f \in F \cup {i}
        PROVE  \E m \in AllOf(t) : m.top <= f.top /\ f.bottom <= m.bottom
    BY <2>2, <2>3, <2>4 DEF Merged
  <2>7. ASSUME NEW m \in AllOf(t)
        PROVE  /\ \E f \in F \cup {i} : f.bottom = m.bottom
               /\ \A y \in Int : m.top <= y /\ y <= m.bottom => Near(y, F \cup {i}, half)
    <3>1. CASE m = i
      BY <3>1 DEF Near
    <3>2. CASE m \in AllOf(s)
      <4>1. \A y \in Int : m.top <= y /\ y <= m.bottom => Near(y, F, half)
        BY <2>4, <3>2 DEF Merged
      <4>2. \A y \in Int : m.top <= y /\ y <= m.bottom => Near(y, F \cup {i}, half)
        BY <4>1 DEF Near
      <4>. QED  BY <2>4, <3>2, <4>2 DEF Merged
    <3>. QED  BY <2>2, <3>1, <3>2
  <2>8. Merged(AllOf(t), F \cup {i}, half)
    BY ONLY <2>5, <2>6, <2>7 DEF Merged
  <2>. QED  BY <2>2, <2>3, <2>8 DEF t
<1>. QED  BY <1>3, <1>4

JoinsUp(t, n, q, base, half) ==
    /\ t \in [0 .. n -> Joined]
    /\ t[0] = base /\ FoldLeft(LAMBDA s, i : Join(s, i, half), base, q) = t[n]
    /\ \A k \in 1 .. n : t[k] = Join(t[k - 1], q[k], half)

(* The fold, one interval at a time.                                       *)
LEMMA JoinSteps ==
    ASSUME NEW half \in Nat, NEW n \in Nat, NEW q, DOMAIN q = 1 .. n, \A i \in 1 .. n : q[i] \in Intervals,
           NEW base \in Joined
    PROVE  \E t : JoinsUp(t, n, q, base, half)
<1>. DEFINE step == [p \in Joined \X Intervals |-> Join(p[1], p[2], half)]
            Eq(it) == it = [T \in SUBSET DOMAIN q |->
                             IF T = {} THEN base ELSE Join(it[T \ {Max(T)}], q[Max(T)], half)]
            iter == CHOOSE it : Eq(it)
<1>1. ASSUME NEW s \in Joined, NEW i \in Intervals PROVE Join(s, i, half) \in Joined
  <2>1. /\ s.done \subseteq Intervals /\ s.cur \in Intervals
        /\ s.cur.top \in Int /\ s.cur.bottom \in Int /\ i.bottom \in Int
    BY DEF Joined, Intervals
  <2>2. Max({s.cur.bottom, i.bottom}) \in Int
    BY ONLY <2>1, OfTwo
  <2>3. s.cur.top <= Max({s.cur.bottom, i.bottom})
    <3>1. s.cur.top <= s.cur.bottom
      BY DEF Joined, Intervals
    <3>2. Max({s.cur.bottom, i.bottom}) = IF s.cur.bottom >= i.bottom THEN s.cur.bottom ELSE i.bottom
      BY ONLY <2>1, OfTwo
    <3>. QED  BY ONLY <2>1, <3>1, <3>2
  <2>. DEFINE d == [top |-> s.cur.top, bottom |-> Max({s.cur.bottom, i.bottom})]
  <2>4. d \in Intervals
    BY <2>1, <2>2, <2>3 DEF Intervals
  <2>. HIDE DEF d
  <2>5. \/ Join(s, i, half) = [done |-> s.done, cur |-> d]
        \/ Join(s, i, half) = [done |-> s.done \cup {s.cur}, cur |-> i]
    BY DEF Join, d
  <2>. QED  BY <2>1, <2>4, <2>5 DEF Joined
<1>2. step \in [Joined \X Intervals -> Joined]
  BY <1>1
<1>3. PICK it \in [SUBSET DOMAIN q -> Joined] :
         it = [T \in SUBSET DOMAIN q |->
                 IF T = {} THEN base ELSE step[<<it[T \ {Max(T)}], q[Max(T)]>>]]
  <2>1. n \in Nat /\ DOMAIN q = 1 .. n /\ base \in Joined /\ \A i \in 1 .. n : q[i] \in Intervals
    OBVIOUS
  <2>2. \E it : FoldsUp(it, q, Joined, base, step)
    <3>. HIDE DEF step
    <3>. QED  BY ONLY <1>2, <2>1, FoldExists
  <2>. HIDE DEF step
  <2>. QED  BY ONLY <2>2 DEF FoldsUp
<1>4. ASSUME NEW T \in SUBSET DOMAIN q, T # {}
      PROVE  step[<<it[T \ {Max(T)}], q[Max(T)]>>] = Join(it[T \ {Max(T)}], q[Max(T)], half)
  <2>1. Max(T) \in T
    <3>1. IsFiniteSet(T) /\ T \in SUBSET Int
      BY FS_Interval, FS_Subset
    <3>. QED  BY <1>4, <3>1, MaxExists
  <2>2. it[T \ {Max(T)}] \in Joined /\ q[Max(T)] \in Intervals
    BY <2>1, <1>3
  <2>. QED  BY <2>2
<1>5. Eq(it)
  <2>. HIDE DEF step
  <2>. QED  BY <1>3, <1>4
<1>6. Eq(iter)
  <2>. HIDE DEF Eq
  <2>. QED  BY <1>5
<1>7. FoldLeft(LAMBDA s, i : Join(s, i, half), base, q) = iter[DOMAIN q]
  BY DEF FoldLeft, MapThenFoldSet
<1>. DEFINE t == [k \in 0 .. n |-> iter[1 .. k]]
<1>. HIDE DEF iter
<1>8. iter[{}] = base
  BY <1>6
<1>9. ASSUME NEW k \in 1 .. n
      PROVE  iter[1 .. k] = Join(iter[1 .. k - 1], q[k], half)
  <2>1. 1 .. k \in SUBSET DOMAIN q /\ 1 .. k # {} /\ Max(1 .. k) = k /\ (1 .. k) \ {k} = 1 .. k - 1
    <3>1. k - 1 \in 0 .. n - 1 /\ (k - 1) + 1 = k
      OBVIOUS
    <3>. QED  BY <3>1, FirstPlaces
  <2>2. iter[1 .. k] = Join(iter[(1 .. k) \ {Max(1 .. k)}], q[Max(1 .. k)], half)
    BY <1>6, <2>1
  <2>. QED  BY <2>1, <2>2
<1>10. t[0] = base
  <2>1. 1 .. 0 = {}
    OBVIOUS
  <2>. QED  BY <1>8, <2>1
<1>11. \A k \in 1 .. n : t[k] = Join(t[k - 1], q[k], half)
  BY <1>9
<1>. HIDE DEF t
<1>12. ASSUME NEW k \in 0 .. n PROVE t[k] \in Joined
  <2>. DEFINE H == {m \in Nat : m \in 0 .. n => t[m] \in Joined}
  <2>1. 0 \in H
    BY <1>10
  <2>2. ASSUME NEW m \in Nat, m \in H PROVE m + 1 \in H
    <3>1. SUFFICES ASSUME m + 1 \in 0 .. n PROVE t[m + 1] \in Joined
      OBVIOUS
    <3>2. m + 1 \in 1 .. n /\ (m + 1) - 1 = m /\ m \in 0 .. n
      BY <3>1
    <3>3. t[m + 1] = Join(t[m], q[m + 1], half)
      BY <1>11, <3>2
    <3>. QED  BY <2>2, <3>2, <3>3, <1>1
  <2>3. k \in H
    <3>. HIDE DEF H
    <3>. QED  BY <2>1, <2>2, SetInduction
  <2>. QED  BY <2>3
<1>13. t = [k \in 0 .. n |-> t[k]] /\ t[n] = iter[DOMAIN q]
  BY DEF t
<1>14. t \in [0 .. n -> Joined]
  BY <1>12, <1>13
<1>. QED  BY <1>7, <1>10, <1>11, <1>13, <1>14 DEF JoinsUp

(* A column's intervals are merged truly.                                  *)
LEMMA MergeTrue ==
    ASSUME NEW half \in Nat, NEW I \in SUBSET Intervals, IsFiniteSet(I), I # {}
    PROVE  Merged(Merge(FromTop(I), half), I, half)
<1>. DEFINE R == {p \in I \X I : Above(p[1], p[2])}
            n == Cardinality(I)
            q == FromTop(I)
<1>1. /\ \A i \in I : i.top \in Int /\ i.bottom \in Int
      /\ \A i, j \in I : i.top = j.top /\ i.bottom = j.bottom => i = j
  BY DEF Intervals
<1>2. \A i, j \in I : <<i, j>> \in R <=> Above(i, j)
  OBVIOUS
<1>3. TotallyOrders(R, I)
  <2>. HIDE DEF R
  <2>. QED  BY ONLY <1>1, <1>2 DEF TotallyOrders, Above
<1>4. Lists(q, n, I, R)
  <2>1. q = SortedBy(I, R)
    BY DEF FromTop
  <2>. HIDE DEF R, q, n
  <2>. QED  BY ONLY <1>3, <2>1, IsFiniteSet(I), SortedLists DEF n
<1>5. n \in Nat /\ n > 0
  <2>1. Cardinality(I) \in Nat /\ Cardinality(I) # 0
    BY FS_CardinalityType, FS_EmptySet
  <2>. QED  BY <2>1
<1>. HIDE DEF n, q, R
<1>6. /\ q \in [1 .. n -> I] /\ \A x \in I : \E i \in 1 .. n : q[i] = x
      /\ \A i, j \in 1 .. n : i < j => q[i].top <= q[j].top
  <2>1. /\ q \in [1 .. n -> I] /\ \A x \in I : \E i \in 1 .. n : q[i] = x
        /\ \A i, j \in 1 .. n : i < j => <<q[i], q[j]>> \in R
    BY <1>4 DEF Lists
  <2>2. ASSUME NEW i \in 1 .. n, NEW j \in 1 .. n, i < j PROVE q[i].top <= q[j].top
    <3>1. q[i] \in I /\ q[j] \in I /\ <<q[i], q[j]>> \in R
      BY <2>1, <2>2
    <3>2. Above(q[i], q[j])
      BY <1>2, <3>1
    <3>. QED  BY <1>1, <3>1, <3>2 DEF Above
  <2>. QED  BY <2>1, <2>2
<1>7. q \in Seq(I) /\ Len(q) = n
  BY <1>5, <1>6
<1>. DEFINE r == Tail(q)
            m == n - 1
            base == [done |-> {}, cur |-> Head(q)]
<1>8. m \in Nat /\ DOMAIN r = 1 .. m /\ \A k \in 1 .. m : r[k] = q[k + 1]
  BY <1>5, <1>7
<1>9. Head(q) = q[1] /\ q[1] \in I
  BY <1>5, <1>6, <1>7
<1>10. base \in Joined
  BY <1>9 DEF Joined
<1>11. \A k \in 1 .. m : r[k] \in Intervals /\ k + 1 \in 1 .. n
  BY <1>5, <1>6, <1>8
<1>12. PICK t : JoinsUp(t, m, r, base, half)
  <2>1. \A k \in 1 .. m : r[k] \in Intervals
    BY <1>11
  <2>2. m \in Nat
    BY <1>8
  <2>3. DOMAIN r = 1 .. m
    BY <1>8
  <2>. HIDE DEF m, r, base
  <2>. QED  BY ONLY <1>10, <2>1, <2>2, <2>3, JoinSteps
<1>. HIDE DEF r
<1>19. /\ t \in [0 .. m -> Joined]
       /\ t[0] = base /\ FoldLeft(LAMBDA s, i : Join(s, i, half), base, r) = t[m]
       /\ \A k \in 1 .. m : t[k] = Join(t[k - 1], r[k], half)
  BY <1>12 DEF JoinsUp
<1>. DEFINE First(k) == {q[j] : j \in 1 .. k + 1}
            Good(k) == Merged(AllOf(t[k]), First(k), half) /\ t[k].cur.top <= q[k + 1].top
            H == {k \in Nat : k \in 0 .. m => Good(k)}
<1>13. 0 \in H
  <2>1. First(0) = {q[1]}
    BY <1>6
  <2>2. t[0] = [done |-> {}, cur |-> q[1]]
    BY <1>9, <1>19
  <2>3. AllOf(t[0]) = {q[1]} /\ t[0].cur.top = q[1].top
    BY <2>2 DEF AllOf
  <2>4. q[1].top \in Int /\ q[1].bottom \in Int /\ q[1] \in Intervals
    BY <1>1, <1>9
  <2>5. Merged({q[1]}, {q[1]}, half) /\ q[1].top <= q[1].top
    BY <2>4 DEF Merged, Near
  <2>6. 0 + 1 = 1
    OBVIOUS
  <2>. QED  BY <2>1, <2>3, <2>5, <2>6
<1>14. ASSUME NEW k \in Nat, k \in H PROVE k + 1 \in H
  <2>1. SUFFICES ASSUME k + 1 \in 0 .. m PROVE Good(k + 1)
    OBVIOUS
  <2>2. /\ k \in 0 .. m /\ k + 1 \in 1 .. m /\ (k + 1) - 1 = k
        /\ k + 1 \in 1 .. n /\ (k + 1) + 1 \in 1 .. n /\ k + 1 < (k + 1) + 1
    BY <1>5, <2>1
  <2>3. Good(k)
    BY <1>14, <2>2
  <2>. DEFINE i == q[(k + 1) + 1]
              s == t[k]
  <2>4. t[k + 1] = Join(s, i, half)
    BY <1>8, <1>19, <2>2
  <2>5. q[k + 1].top <= i.top /\ i \in I /\ q[k + 1] \in I
    BY <1>6, <2>2
  <2>6. s \in Joined /\ i \in Intervals
    BY <1>19, <2>2, <2>5
  <2>7. s.cur.top <= i.top
    <3>1. s.cur.top \in Int /\ q[k + 1].top \in Int /\ i.top \in Int
      BY <1>1, <2>5, <2>6 DEF Joined, Intervals
    <3>2. s.cur.top <= q[k + 1].top
      BY <2>3
    <3>. HIDE DEF i, s
    <3>. QED  BY ONLY <2>5, <3>1, <3>2
  <2>8. First(k + 1) = First(k) \cup {i}
    <3>1. 1 .. (k + 1) + 1 = (1 .. k + 1) \cup {(k + 1) + 1}
      OBVIOUS
    <3>. QED  BY <3>1
  <2>9. First(k) \in SUBSET Intervals
    <3>1. \A j \in 1 .. k + 1 : j \in 1 .. n
      BY <1>5, <2>2
    <3>. QED  BY <1>6, <3>1
  <2>10. Merged(AllOf(s), First(k), half)
    BY <2>3
  <2>. DEFINE F == First(k)
  <2>. HIDE DEF i, s, F
  <2>11. Join(s, i, half).cur.top <= i.top /\ Merged(AllOf(Join(s, i, half)), F \cup {i}, half)
    <3>1. F \in SUBSET Intervals /\ Merged(AllOf(s), F, half)
      BY <2>9, <2>10 DEF F
    <3>. QED  BY ONLY <2>6, <2>7, <3>1, JoinKeeps
  <2>. QED  BY <2>4, <2>8, <2>11 DEF i, F
<1>15. m \in H
  <2>. HIDE DEF H
  <2>. QED  BY <1>8, <1>13, <1>14, SetInduction
<1>16. Merged(AllOf(t[m]), First(m), half)
  BY <1>8, <1>15
<1>17. First(m) = I
  <2>1. 1 .. m + 1 = 1 .. n
    BY <1>5
  <2>. QED  BY <1>6, <2>1
<1>18. Merge(q, half) = AllOf(t[m])
  BY <1>19 DEF Merge, AllOf, r
<1>. QED  BY <1>16, <1>17, <1>18 DEF q

-----------------------------------------------------------------------------
(* The columns a rectangle touches.                                        *)

(* Division rounds down.                                                   *)
LEMMA DivIs ==
    ASSUME NEW n \in Int, NEW d \in Nat, d > 0
    PROVE  n \div d \in Int /\ (n \div d) * d <= n /\ n < (n \div d + 1) * d
OBVIOUS

(* Multiples are in the order of their factors.                            *)
LEMMA Multiples ==
    ASSUME NEW a \in Int, NEW b \in Int, NEW d \in Nat, d > 0
    PROVE  a * d \in Int /\ b * d \in Int /\ (a <= b <=> a * d <= b * d)
<1>1. a * d \in Int /\ b * d \in Int
  OBVIOUS
<1>2. ASSUME a <= b PROVE a * d <= b * d
  BY <1>2
<1>3. ASSUME ~(a <= b) PROVE ~(a * d <= b * d)
  <2>1. b + 1 <= a
    BY <1>3
  <2>2. (b + 1) * d <= a * d
    BY <2>1
  <2>3. (b + 1) * d = b * d + d
    OBVIOUS
  <2>. QED  BY ONLY <1>1, <2>2, <2>3, d \in Nat, d > 0
<1>. QED  BY <1>1, <1>2, <1>3

(* A column's bounds in bytes' shares of pixels.                           *)
LEMMA ColumnBounds ==
    ASSUME NEW x \in Nat, NEW w \in Nat, w > 0, NEW total \in Nat, total > 0, NEW c,
           NEW r, r.x = x, r.width = w
    PROVE  /\ PlotWidth \in Nat /\ PlotWidth > 0 /\ GridPx * total \in Nat /\ GridPx * total > 0
           /\ x * PlotWidth \in Nat /\ w * PlotWidth \in Nat
           /\ c \in Columns(r, total) <=>
                /\ c \in Int /\ x * PlotWidth < (c + 1) * (GridPx * total)
                /\ \/ c * (GridPx * total) <= x * PlotWidth + w * PlotWidth
                   \/ 2 * (c * (GridPx * total)) <= 2 * (x * PlotWidth) + total
<1>. DEFINE D == GridPx * total
            X == x * PlotWidth
            V == w * PlotWidth
            m == Max({2 * w * PlotWidth, total})
            lo == X \div D
            hi == (2 * X + m) \div (2 * D)
<1>1. PlotWidth \in Nat /\ PlotWidth > 0 /\ GridPx \in Nat /\ GridPx > 0
  BY PageAssumption
<1>2. D \in Nat /\ D > 0
  <2>1. D \in Nat
    BY <1>1
  <2>2. 1 * total <= GridPx * total
    BY <1>1
  <2>. QED  BY <2>1, <2>2
<1>3. X \in Nat /\ V \in Nat
  BY <1>1
<1>4. 2 * w * PlotWidth = 2 * V /\ 2 * x * PlotWidth = 2 * X /\ 2 * GridPx * total = 2 * D
  BY <1>1
<1>5. m = IF 2 * V >= total THEN 2 * V ELSE total
  <2>1. 2 * V \in Int /\ total \in Int
    BY <1>3
  <2>2. m = Max({2 * V, total})
    BY <1>4
  <2>. HIDE DEF V, m
  <2>3. Max({2 * V, total}) = IF 2 * V >= total THEN 2 * V ELSE total
    BY ONLY <2>1, OfTwo
  <2>. QED  BY <2>2, <2>3
<1>6. Columns(r, total) = ToZero(X, D) .. ToZero(2 * X + m, 2 * D)
  BY <1>4 DEF Columns
<1>. HIDE DEF D, X, V, m
<1>7. m \in Nat
  BY ONLY <1>3, <1>5, total \in Nat
<1>8. ToZero(X, D) = lo /\ ToZero(2 * X + m, 2 * D) = hi
  <2>1. ~(X < 0) /\ ~(2 * X + m < 0)
    BY ONLY <1>3, <1>7
  <2>. QED  BY <2>1 DEF ToZero
<1>9. lo \in Int /\ lo * D <= X /\ X < (lo + 1) * D
  <2>1. X \in Int
    BY <1>3
  <2>. QED  BY ONLY <1>2, <2>1, DivIs
<1>10. hi \in Int /\ hi * (2 * D) <= 2 * X + m /\ 2 * X + m < (hi + 1) * (2 * D)
  <2>. DEFINE N == 2 * X + m
              E == 2 * D
  <2>1. N \in Int /\ E \in Nat /\ E > 0
    BY <1>2, <1>3, <1>7
  <2>. HIDE DEF N, E
  <2>2. N \div E \in Int /\ (N \div E) * E <= N /\ N < (N \div E + 1) * E
    BY ONLY <2>1, DivIs
  <2>. QED  BY <2>2 DEF N, E
<1>. HIDE DEF lo, hi
<1>11. ASSUME NEW e \in Int PROVE lo <= e <=> X < (e + 1) * D
  <2>1. ASSUME lo <= e PROVE X < (e + 1) * D
    <3>1. lo + 1 \in Int /\ e + 1 \in Int /\ lo + 1 <= e + 1
      BY <1>9, <2>1
    <3>2. (lo + 1) * D <= (e + 1) * D /\ (lo + 1) * D \in Int /\ (e + 1) * D \in Int
      BY ONLY <1>2, <3>1, Multiples
    <3>. QED  BY ONLY <1>3, <1>9, <3>2
  <2>2. ASSUME ~(lo <= e) PROVE ~(X < (e + 1) * D)
    <3>1. e + 1 \in Int /\ e + 1 <= lo
      BY <1>9, <2>2
    <3>2. (e + 1) * D <= lo * D /\ (e + 1) * D \in Int /\ lo * D \in Int
      BY ONLY <1>2, <1>9, <3>1, Multiples
    <3>. QED  BY ONLY <1>3, <1>9, <3>2
  <2>. QED  BY <2>1, <2>2
<1>12. ASSUME NEW e \in Int PROVE e <= hi <=> 2 * (e * D) <= 2 * X + m
  <2>0. 2 * D \in Nat /\ 2 * D > 0 /\ e * (2 * D) = 2 * (e * D) /\ e * D \in Int
    BY <1>2
  <2>. DEFINE E == 2 * D
              N == 2 * X + m
  <2>3. N \in Int /\ E \in Nat /\ E > 0 /\ hi * E <= N /\ N < (hi + 1) * E
    BY <1>3, <1>7, <1>10, <2>0
  <2>4. e * E = 2 * (e * D)
    BY <2>0
  <2>. HIDE DEF E, N
  <2>1. ASSUME e <= hi PROVE e * E <= N
    <3>1. e * E <= hi * E /\ e * E \in Int /\ hi * E \in Int
      BY ONLY <1>10, <2>1, <2>3, e \in Int, Multiples
    <3>. QED  BY ONLY <2>3, <3>1
  <2>2. ASSUME ~(e <= hi) PROVE ~(e * E <= N)
    <3>1. hi + 1 \in Int /\ hi + 1 <= e
      BY <1>10, <2>2
    <3>2. (hi + 1) * E <= e * E /\ e * E \in Int /\ (hi + 1) * E \in Int
      BY ONLY <2>3, <3>1, e \in Int, Multiples
    <3>. QED  BY ONLY <2>3, <3>2
  <2>. QED  BY <2>1, <2>2, <2>4 DEF N
<1>13. ASSUME NEW e \in Int
       PROVE  2 * (e * D) <= 2 * X + m <=> (e * D <= X + V \/ 2 * (e * D) <= 2 * X + total)
  <2>1. e * D \in Int
    BY <1>2
  <2>. QED  BY ONLY <1>3, <1>5, <2>1, total \in Nat
<1>14. c \in Columns(r, total) <=> c \in Int /\ lo <= c /\ c <= hi
  BY ONLY <1>6, <1>8, <1>9, <1>10
<1>15. c \in Columns(r, total) <=>
         /\ c \in Int /\ X < (c + 1) * D
         /\ c * D <= X + V \/ 2 * (c * D) <= 2 * X + total
  BY ONLY <1>11, <1>12, <1>13, <1>14
<1>. QED  BY <1>1, <1>2, <1>3, <1>15 DEF D, X, V

(* The columns of one of its bytes are among them.                         *)
LEMMA ByteColumns ==
    ASSUME NEW x \in Nat, NEW w \in Nat, w > 0, NEW total \in Nat, total > 0,
           NEW r, r.x = x, r.width = w, NEW p \in Nat, x <= p, p < x + w,
           NEW c \in (p * PlotWidth) \div (GridPx * total)
                       .. ((p + 1) * PlotWidth - 1) \div (GridPx * total)
    PROVE  c \in Columns(r, total)
<1>. DEFINE D == GridPx * total
            W == PlotWidth
            lo == (p * W) \div D
            hi == ((p + 1) * W - 1) \div D
<1>1. /\ W \in Nat /\ W > 0 /\ D \in Nat /\ D > 0 /\ x * W \in Nat /\ w * W \in Nat
      /\ c \in Columns(r, total) <=>
                /\ c \in Int /\ x * W < (c + 1) * D
                /\ \/ c * D <= x * W + w * W
                   \/ 2 * (c * D) <= 2 * (x * W) + total
  BY ColumnBounds
<1>. HIDE DEF D, W
<1>2. x * W <= p * W /\ p * W \in Int
  <2>1. x \in Int /\ p \in Int
    OBVIOUS
  <2>. QED  BY ONLY <1>1, <2>1, x <= p, Multiples
<1>3. (p + 1) * W <= x * W + w * W /\ (p + 1) * W \in Int
  <2>1. x + w \in Int /\ p + 1 \in Int /\ p + 1 <= x + w
    OBVIOUS
  <2>2. (p + 1) * W <= (x + w) * W /\ (p + 1) * W \in Int
    BY ONLY <1>1, <2>1, Multiples
  <2>3. (x + w) * W = x * W + w * W
    BY <1>1
  <2>. QED  BY ONLY <2>2, <2>3
<1>4. lo \in Int /\ p * W < (lo + 1) * D
  BY ONLY <1>1, <1>2, DivIs
<1>5. hi \in Int /\ hi * D <= (p + 1) * W - 1
  <2>. DEFINE N == (p + 1) * W - 1
  <2>1. N \in Int
    BY <1>3
  <2>. HIDE DEF N
  <2>2. N \div D \in Int /\ (N \div D) * D <= N
    BY ONLY <1>1, <2>1, DivIs
  <2>. QED  BY <2>2 DEF N
<1>6. c \in lo .. hi
  BY DEF D, W
<1>. HIDE DEF lo, hi
<1>7. c \in Int /\ lo <= c /\ c <= hi
  BY ONLY <1>4, <1>5, <1>6
<1>8. (lo + 1) * D <= (c + 1) * D /\ (lo + 1) * D \in Int /\ (c + 1) * D \in Int
  <2>1. lo + 1 \in Int /\ c + 1 \in Int /\ lo + 1 <= c + 1
    BY ONLY <1>4, <1>7
  <2>. QED  BY ONLY <1>1, <2>1, Multiples
<1>9. c * D <= hi * D /\ c * D \in Int /\ hi * D \in Int
  BY ONLY <1>1, <1>5, <1>7, Multiples
<1>10. x * W < (c + 1) * D
  BY ONLY <1>1, <1>2, <1>4, <1>8
<1>11. c * D <= x * W + w * W
  BY ONLY <1>1, <1>3, <1>5, <1>9
<1>. QED  BY ONLY <1>1, <1>7, <1>10, <1>11

(* Each of them meets one of its bytes, within half a pixel.               *)
LEMMA ColumnsMeet ==
    ASSUME NEW x \in Nat, NEW w \in Nat, w > 0, NEW total \in Nat, total > 0,
           NEW r, r.x = x, r.width = w, NEW c \in Columns(r, total)
    PROVE  \E p \in Nat :
              /\ x <= p /\ p < x + w
              /\ p * PlotWidth <= (c + 1) * (GridPx * total)
              /\ 2 * c * (GridPx * total) <= 2 * (p + 1) * PlotWidth + total
<1>. DEFINE D == GridPx * total
            W == PlotWidth
<1>1. /\ W \in Nat /\ W > 0 /\ D \in Nat /\ D > 0 /\ x * W \in Nat /\ w * W \in Nat
      /\ c \in Int /\ x * W < (c + 1) * D
      /\ \/ c * D <= x * W + w * W
         \/ 2 * (c * D) <= 2 * (x * W) + total
  BY ColumnBounds
<1>. HIDE DEF D, W
<1>2. c * D \in Int /\ (c + 1) * D = c * D + D
  BY ONLY <1>1
<1>3. 2 * c * D = 2 * (c * D)
  BY ONLY <1>1
<1>4. \A p \in Nat : 2 * (p + 1) * W = 2 * (p * W) + 2 * W /\ p * W \in Nat
  BY ONLY <1>1
<1>. SUFFICES \E p \in Nat : x <= p /\ p < x + w /\ p * W <= (c + 1) * D
                             /\ 2 * (c * D) <= 2 * (p * W) + 2 * W + total
  BY <1>3, <1>4 DEF D, W
<1>5. CASE 2 * (c * D) <= 2 * (x * W) + total
  <2>1. x <= x /\ x < x + w /\ x * W <= (c + 1) * D /\ 2 * (c * D) <= 2 * (x * W) + 2 * W + total
    BY ONLY <1>1, <1>2, <1>5, x \in Nat, w \in Nat, w > 0, total \in Nat
  <2>. QED  BY <2>1
<1>6. CASE c * D <= x * W + w * W
  <2>. DEFINE H == {p \in x .. x + w - 1 : p * W <= (c + 1) * D}
              p == Max(H)
  <2>1. x \in H
    BY <1>1, <1>2
  <2>2. IsFiniteSet(H) /\ H \in SUBSET Int
    <3>1. IsFiniteSet(x .. x + w - 1) /\ H \in SUBSET (x .. x + w - 1)
      BY FS_Interval
    <3>2. H \in SUBSET Int
      OBVIOUS
    <3>. HIDE DEF H
    <3>. QED  BY ONLY <3>1, <3>2, FS_Subset
  <2>3. p \in H /\ \A y \in H : p >= y
    <3>. HIDE DEF H
    <3>. QED  BY <2>1, <2>2, MaxExists
  <2>. HIDE DEF p
  <2>4. p \in Nat /\ x <= p /\ p < x + w /\ p * W <= (c + 1) * D
    BY <2>3
  <2>5. CASE p + 1 = x + w
    <3>1. p * W + W = x * W + w * W
      <4>1. (p + 1) * W = p * W + W /\ (x + w) * W = x * W + w * W
        BY ONLY <1>1, <2>4, x \in Nat, w \in Nat
      <4>. QED  BY <2>5, <4>1
    <3>2. p * W \in Nat
      BY <1>4, <2>4
    <3>3. 2 * (c * D) <= 2 * (p * W) + 2 * W + total
      BY ONLY <1>1, <1>2, <1>6, <3>1, <3>2, total \in Nat
    <3>. QED  BY <2>4, <3>3
  <2>6. CASE p + 1 # x + w
    <3>1. p + 1 \in x .. x + w - 1 /\ ~(p >= p + 1)
      BY <2>4, <2>6
    <3>2. ~((p + 1) * W <= (c + 1) * D)
      BY <2>3, <3>1
    <3>3. (p + 1) * W = p * W + W /\ p * W \in Nat
      BY ONLY <1>1, <2>4
    <3>4. 2 * (c * D) <= 2 * (p * W) + 2 * W + total
      BY ONLY <1>1, <1>2, <3>2, <3>3, total \in Nat
    <3>. QED  BY <2>4, <3>4
  <2>. QED  BY <2>5, <2>6
<1>. QED  BY <1>1, <1>5, <1>6

-----------------------------------------------------------------------------
(* What is gray.                                                           *)

Total == Max({1, BytesIn(page.segs)})
Below == {Rect(b, Points, page.segs) : b \in WithoutRect}

(* Pixels keep the order of the ranks.                                     *)
LEMMA PixelsAre ==
    ASSUME NEW points, IsFiniteSet(points)
    PROVE  /\ HalfPixel(points) \in Nat /\ HalfPixel(points) > 0
           /\ \A a, b \in Int : /\ Down(a, points) \in Int
                                /\ a <= b => Down(a, points) <= Down(b, points)
<1>. DEFINE n == Cardinality(points) - 1
            h == HalfPixel(points)
            k == (8 * h) \div 5
            l == Min({k, MaxHeight})
            t == PlotHeight(points)
<1>1. n \in Int
  <2>1. Cardinality(points) \in Nat
    BY FS_CardinalityType
  <2>. QED  BY <2>1
<1>2. h = Max({n, 1})
  BY DEF HalfPixel
<1>3. t = Max({MinHeight, l})
  BY DEF PlotHeight
<1>4. MinHeight \in Nat /\ MaxHeight \in Nat
  BY PageAssumption
<1>. HIDE DEF n, h, t
<1>5. h = IF n >= 1 THEN n ELSE 1
  BY ONLY <1>1, <1>2, OfTwo
<1>6. h \in Nat /\ h > 0
  BY ONLY <1>1, <1>5
<1>7. k \in Int
  <2>1. 8 * h \in Int
    BY ONLY <1>6
  <2>. QED  BY <2>1, DivIs
<1>. HIDE DEF k
<1>8. l \in Int
  <2>1. l = IF k <= MaxHeight THEN k ELSE MaxHeight
    BY ONLY <1>4, <1>7, OfTwo
  <2>. QED  BY ONLY <1>4, <1>7, <2>1
<1>. HIDE DEF l
<1>9. t \in Nat
  <2>1. t = IF MinHeight >= l THEN MinHeight ELSE l
    BY ONLY <1>3, <1>4, <1>8, OfTwo
  <2>. QED  BY ONLY <1>4, <1>8, <2>1
<1>10. ASSUME NEW a \in Int, NEW b \in Int
       PROVE  /\ (2 * t) * a \in Int
              /\ a <= b => (2 * t) * a <= (2 * t) * b
  <2>. DEFINE u == 2 * t
  <2>1. u \in Nat
    BY ONLY <1>9
  <2>. HIDE DEF u
  <2>2. u * a \in Int /\ u * b \in Int
    BY <2>1
  <2>3. CASE u = 0
    <3>1. 0 * a = 0 /\ 0 * b = 0
      OBVIOUS
    <3>. QED  BY <2>3, <3>1 DEF u
  <2>4. CASE u > 0
    <3>1. a * u = u * a /\ b * u = u * b
      BY <2>1
    <3>2. a <= b => a * u <= b * u
      BY ONLY <2>1, <2>4, Multiples, a \in Int, b \in Int
    <3>. QED  BY <2>2, <3>1, <3>2 DEF u
  <2>. QED  BY <2>1, <2>3, <2>4 DEF u
<1>. QED  BY <1>6, <1>10 DEF Down, t, h

(* The interval of a rectangle below.                                      *)
LEMMA IntervalIs ==
    ASSUME NEW points, IsFiniteSet(points), NEW r, r.top \in Int, r.bottom \in Int
    PROVE  /\ Interval(r, points) \in Intervals
           /\ Interval(r, points).top = Down(r.top, points)
           /\ Down(r.bottom, points) <= Interval(r, points).bottom
           /\ Interval(r, points).bottom
                = Max({Down(r.bottom, points), Down(r.top, points) + HalfPixel(points)})
<1>. DEFINE t == Down(r.top, points)
            b == Down(r.bottom, points)
            h == HalfPixel(points)
            x == Max({b, t + h})
<1>1. t \in Int /\ b \in Int /\ h \in Nat
  <2>1. /\ h \in Nat
        /\ \A u, v \in Int : /\ Down(u, points) \in Int
                             /\ u <= v => Down(u, points) <= Down(v, points)
    BY ONLY IsFiniteSet(points), PixelsAre
  <2>2. r.top \in Int /\ r.bottom \in Int
    OBVIOUS
  <2>3. Down(r.top, points) \in Int /\ Down(r.bottom, points) \in Int
    BY ONLY <2>1, <2>2
  <2>. QED  BY <2>1, <2>3
<1>2. Interval(r, points) = [top |-> t, bottom |-> x]
  BY DEF Interval
<1>. HIDE DEF t, b, h
<1>3. x = IF b >= t + h THEN b ELSE t + h
  <2>1. t + h \in Int
    BY <1>1
  <2>. QED  BY ONLY <1>1, <2>1, OfTwo
<1>4. x \in Int /\ b <= x /\ t <= x
  BY ONLY <1>1, <1>3
<1>. HIDE DEF x
<1>5. Interval(r, points) \in Intervals
  BY <1>1, <1>2, <1>4 DEF Intervals
<1>. QED  BY <1>2, <1>4, <1>5 DEF t, b, h, x

(* The gray of a page is that of the allocations without a rectangle.      *)
LEMMA UnderlayIs ==
    ASSUME MapInv, Drawn
    PROVE  /\ IsFiniteSet(Below) /\ WithoutRect \subseteq page.bars
           /\ page.under = Underlay(Below, Total, Points)
           /\ Cardinality(Addresses) \in Nat /\ Total \in Nat /\ Total > 0
           /\ Cardinality(Addresses) > 0 => Total = Cardinality(Addresses)
           /\ \A r \in Below : r.top \in Int /\ r.bottom \in Int
<1>1. /\ page.bars \in SUBSET allocs /\ ReportsInv /\ Apart(page.segs)
      /\ page.rects = {Rect(b, Points, page.segs) : b \in ShownOf(page.bars)}
      /\ page.under = Underlay({Rect(b, Points, page.segs) : b \in page.bars \ ShownOf(page.bars)},
                                    Max({1, BytesIn(page.segs)}), Points)
  BY PageHas
<1>2. WithRect = ShownOf(page.bars)
  <2>1. \A b : Rect(b, Points, page.segs).of = b
    BY DEF Rect
  <2>. QED  BY <1>1, <2>1 DEF WithRect
<1>3. page.under = Underlay(Below, Total, Points) /\ WithoutRect \subseteq page.bars
  BY <1>1, <1>2 DEF WithoutRect, Below, Total
<1>4. IsFiniteSet(Below)
  <2>1. IsFiniteSet(page.bars)
    BY <1>1, PriorityIs
  <2>2. WithoutRect \in SUBSET page.bars
    BY <1>3
  <2>3. IsFiniteSet(WithoutRect)
    BY ONLY <2>1, <2>2, FS_Subset
  <2>. DEFINE g == [b \in WithoutRect |-> Rect(b, Points, page.segs)]
  <2>4. \A r \in Below : \E b \in WithoutRect : r = g[b]
    BY DEF Below
  <2>. HIDE DEF g
  <2>. QED  BY ONLY <2>3, <2>4, ImageFinite
<1>5. Cardinality(Addresses) = BytesIn(page.segs) /\ Cardinality(Addresses) \in Nat
  <2>1. Addresses = AddressesOf(page.segs)
    BY PageMeans
  <2>2. IsFiniteSet(AddressesOf(page.segs)) /\ Cardinality(AddressesOf(page.segs)) = BytesIn(page.segs)
    BY <1>1, AddressesCounted
  <2>. QED  BY <2>1, <2>2, FS_CardinalityType
<1>6. Total = IF 1 >= Cardinality(Addresses) THEN 1 ELSE Cardinality(Addresses)
  <2>1. 1 \in Int /\ Cardinality(Addresses) \in Int
    BY <1>5
  <2>. QED  BY <1>5, <2>1, OfTwo DEF Total
<1>7. Total \in Nat /\ Total > 0 /\ (Cardinality(Addresses) > 0 => Total = Cardinality(Addresses))
  BY ONLY <1>5, <1>6
<1>8. ASSUME NEW r \in Below PROVE r.top \in Int /\ r.bottom \in Int
  <2>1. PICK b \in WithoutRect : r = Rect(b, Points, page.segs)
    BY DEF Below
  <2>2. r.top = Rank(b.alloc, Points) /\ r.bottom = Rank(b.free, Points)
    BY <2>1 DEF Rect
  <2>3. IsFiniteSet(Points) /\ Points \subseteq Int /\ b.alloc \in Points /\ b.free \in Points
    BY <1>3, PageMeans
  <2>4. Rank(b.alloc, Points) \in Nat /\ Rank(b.free, Points) \in Nat
    <3>. DEFINE P == Points
    <3>. HIDE DEF P
    <3>1. IsFiniteSet(P) /\ P \subseteq Int /\ b.alloc \in P /\ b.free \in P
      BY <2>3 DEF P
    <3>2. Rank(b.alloc, P) \in Nat /\ Rank(b.free, P) \in Nat
      BY ONLY <3>1, RanksInOrder
    <3>. QED  BY <3>2 DEF P
  <2>. QED  BY <2>2, <2>4
<1>. QED  BY <1>3, <1>4, <1>5, <1>7, <1>8

TouchedBy(c) == {r \in Below : c \in Columns(r, Total)}
GrayOf(c)    == {Interval(r, Points) : r \in TouchedBy(c)}

(* A column is gray where a rectangle below that touches it is.            *)
LEMMA ColumnGray ==
    ASSUME MapInv, Drawn, NEW c
    PROVE  /\ c \in DOMAIN page.under <=> TouchedBy(c) # {}
           /\ c \in DOMAIN page.under => Merged(page.under[c], GrayOf(c), HalfPixel(Points))
<1>1. page.under = Underlay(Below, Total, Points) /\ IsFiniteSet(Below)
      /\ \A r \in Below : r.top \in Int /\ r.bottom \in Int
  BY UnderlayIs
<1>2. c \in DOMAIN page.under <=> TouchedBy(c) # {}
  BY <1>1 DEF Underlay, TouchedBy
<1>3. ASSUME c \in DOMAIN page.under PROVE Merged(page.under[c], GrayOf(c), HalfPixel(Points))
  <2>1. page.under[c] = Merge(FromTop(GrayOf(c)), HalfPixel(Points))
    BY <1>1, <1>3 DEF Underlay, GrayOf, TouchedBy
  <2>2. TouchedBy(c) \in SUBSET Below
    BY DEF TouchedBy
  <2>3. IsFiniteSet(TouchedBy(c))
    BY ONLY <1>1, <2>2, FS_Subset
  <2>4. IsFiniteSet(GrayOf(c))
    <3>. DEFINE g == [r \in TouchedBy(c) |-> Interval(r, Points)]
    <3>1. \A i \in GrayOf(c) : \E r \in TouchedBy(c) : i = g[r]
      BY DEF GrayOf
    <3>. HIDE DEF g
    <3>. QED  BY ONLY <2>3, <3>1, ImageFinite
  <2>0. IsFiniteSet(Points)
    BY PageMeans
  <2>5. GrayOf(c) \in SUBSET Intervals
    BY <1>1, <2>0, <2>2, IntervalIs DEF GrayOf
  <2>6. GrayOf(c) # {}
    BY <1>2, <1>3 DEF GrayOf
  <2>7. Merged(Merge(FromTop(GrayOf(c)), HalfPixel(Points)), GrayOf(c), HalfPixel(Points))
    <3>1. HalfPixel(Points) \in Nat
      BY <2>0, PixelsAre
    <3>. QED  BY ONLY <2>4, <2>5, <2>6, <3>1, MergeTrue
  <2>. QED  BY <2>1, <2>7
<1>. QED  BY <1>2, <1>3

(* A rectangle of an allocation that begins on the map has places there,    *)
(* and its columns are those of them.                                      *)
LEMMA PlacedRect ==
    ASSUME MapInv, Drawn, NEW b \in page.bars, b.addr \in Addresses
    PROVE  LET r == Rect(b, Points, page.segs) IN
           /\ r.x \in Nat /\ r.width \in Nat /\ r.width > 0
           /\ Total = Cardinality(Addresses) /\ Total \in Nat /\ Total > 0
           /\ \A p \in OnMap(b) : /\ Place(p) \in Nat /\ r.x <= Place(p)
                                  /\ Place(p) < r.x + r.width
           /\ \A k \in Nat : r.x <= k /\ k < r.x + r.width => \E p \in OnMap(b) : Place(p) = k
<1>. DEFINE S == page.segs
            a == b.addr
            x == XOf(a, S)
            w == DrawSize(b, S)
            e == RunEndOf(a, S)
<1>1. /\ Apart(S) /\ Addresses = AddressesOf(S) /\ a \in AddressesOf(S)
      /\ b.size \in Nat /\ b.size > 0
      /\ \A p : Place(p) = PlaceIn(p, S)
  BY PageHas, PageMeans
<1>2. Rect(b, Points, S).x = x /\ Rect(b, Points, S).width = w
  BY DEF Rect
<1>3. \A p : p \in OnMap(b) <=> p \in a .. a + b.size - 1 /\ a .. p \subseteq AddressesOf(S)
  BY <1>1 DEF OnMap
<1>4. Anchored(a, S) /\ a \in Nat /\ x = PlaceIn(a, S)
  BY <1>1, XOfIsPlace
<1>5. e \in Nat /\ a < e /\ a .. e - 1 \subseteq AddressesOf(S)
  BY <1>1, RunEndIsGap
<1>6. w = IF b.size <= e - a THEN b.size ELSE e - a
  <2>1. w = Min({b.size, e - a})
    BY <1>4 DEF DrawSize
  <2>2. b.size \in Int /\ e - a \in Int
    BY <1>1, <1>4, <1>5
  <2>. HIDE DEF w, e, a
  <2>. QED  BY ONLY <2>1, <2>2, OfTwo
<1>. HIDE DEF S, x, w, e
<1>7. w \in Nat /\ w > 0 /\ w <= b.size /\ a + w <= e
  BY ONLY <1>1, <1>4, <1>5, <1>6
<1>8. x \in Nat
  <2>1. IsFiniteSet(AddressesOf(S)) /\ {q \in AddressesOf(S) : q < a} \in SUBSET AddressesOf(S)
    BY <1>1, AddressesCounted
  <2>2. IsFiniteSet({q \in AddressesOf(S) : q < a})
    BY <2>1, FS_Subset
  <2>. QED  BY <1>4, <2>2, FS_CardinalityType DEF PlaceIn
<1>9. Total = Cardinality(Addresses) /\ Total \in Nat /\ Total > 0
  <2>1. /\ Cardinality(Addresses) \in Nat /\ Total \in Nat /\ Total > 0
        /\ Cardinality(Addresses) > 0 => Total = Cardinality(Addresses)
    BY UnderlayIs
  <2>2. IsFiniteSet(Addresses) /\ Addresses # {}
    BY <1>1, AddressesCounted
  <2>3. Cardinality(Addresses) # 0
    BY <2>2, FS_EmptySet
  <2>. QED  BY ONLY <2>1, <2>3
<1>10. ASSUME NEW p \in a .. a + w - 1
       PROVE  p \in OnMap(b) /\ Place(p) = x + (p - a)
  <2>1. p \in Int /\ a <= p /\ p <= e - 1 /\ p <= a + b.size - 1
    BY <1>1, <1>4, <1>5, <1>7
  <2>2. a .. p \subseteq a .. e - 1 /\ a .. p - 1 \subseteq a .. e - 1
    BY ONLY <1>4, <1>5, <2>1
  <2>3. a .. p \subseteq AddressesOf(S) /\ a .. p - 1 \subseteq AddressesOf(S)
    BY ONLY <1>5, <2>2
  <2>4. p \in OnMap(b)
    BY <1>1, <1>3, <1>4, <2>1, <2>3
  <2>5. PlaceIn(p, S) = PlaceIn(a, S) + (p - a)
    <3>1. a \in Int
      BY <1>4
    <3>. QED  BY ONLY <1>1, <2>1, <2>3, <3>1, PlacesInRun
  <2>. QED  BY <1>1, <1>4, <2>4, <2>5
<1>11. ASSUME NEW p \in OnMap(b)
       PROVE  Place(p) \in Nat /\ x <= Place(p) /\ Place(p) < x + w
  <2>1. p \in a .. a + b.size - 1 /\ a .. p \subseteq AddressesOf(S)
    BY <1>3
  <2>2. p \in AddressesOf(S)
    BY <1>1, <1>4, <2>1
  <2>3. XOf(a, S) <= PlaceIn(p, S) /\ PlaceIn(p, S) < XOf(a, S) + DrawSize(b, S)
    BY <1>1, <2>1, <2>2, RectWide
  <2>4. PlaceIn(p, S) \in Nat
    <3>1. XOf(p, S) = PlaceIn(p, S) /\ p \in Nat
      BY <1>1, <2>2, XOfIsPlace
    <3>2. IsFiniteSet(AddressesOf(S)) /\ {q \in AddressesOf(S) : q < p} \in SUBSET AddressesOf(S)
      BY <1>1, AddressesCounted
    <3>3. IsFiniteSet({q \in AddressesOf(S) : q < p})
      BY <3>2, FS_Subset
    <3>. QED  BY <3>3, FS_CardinalityType DEF PlaceIn
  <2>. QED  BY <1>1, <2>3, <2>4 DEF x, w
<1>12. ASSUME NEW k \in Nat, x <= k, k < x + w PROVE \E p \in OnMap(b) : Place(p) = k
  <2>1. a + (k - x) \in a .. a + w - 1 /\ x + ((a + (k - x)) - a) = k
    BY ONLY <1>4, <1>7, <1>8, <1>12, k \in Nat
  <2>. QED  BY <1>10, <2>1
<1>. QED  BY <1>2, <1>7, <1>8, <1>9, <1>11, <1>12 DEF S

(* Every byte without a rectangle is gray.                                 *)
LEMMA NoneFalse == MapInv /\ Drawn => NoFalseHoles
<1>. SUFFICES ASSUME MapInv, Drawn, NEW b \in WithoutRect, NEW p \in OnMap(b), NEW row \in Rows,
                     LivesIn(b, row),
                     NEW c \in (Place(p) * PlotWidth) \div ColumnWidth
                               .. ((Place(p) + 1) * PlotWidth - 1) \div ColumnWidth
     PROVE  GrayAt(c, row)
  BY DEF NoFalseHoles
<1>. DEFINE r == Rect(b, Points, page.segs)
<1>1. b \in page.bars
  BY UnderlayIs
<1>2. b.addr \in Addresses
  <2>1. b.addr \in Nat /\ p \in b.addr .. b.addr + b.size - 1 /\ b.addr .. p \subseteq Addresses
    BY <1>1, PageMeans DEF OnMap
  <2>. QED  BY <2>1
<1>3. /\ r.x \in Nat /\ r.width \in Nat /\ r.width > 0
      /\ Total = Cardinality(Addresses) /\ Total \in Nat /\ Total > 0
      /\ Place(p) \in Nat /\ r.x <= Place(p) /\ Place(p) < r.x + r.width
  BY <1>1, <1>2, PlacedRect
<1>4. r.top <= row /\ row < r.bottom
  <2>1. r.top = Rank(b.alloc, Points) /\ r.bottom = Rank(b.free, Points)
    BY DEF Rect
  <2>. QED  BY <1>1, <2>1, RectTall
<1>5. r \in Below
  BY DEF Below
<1>. HIDE DEF r
<1>6. c \in (Place(p) * PlotWidth) \div (GridPx * Total)
               .. ((Place(p) + 1) * PlotWidth - 1) \div (GridPx * Total)
  BY <1>3 DEF ColumnWidth
<1>7. c \in Columns(r, Total)
  <2>. DEFINE k == Place(p)
              x == r.x
              w == r.width
  <2>1. /\ x \in Nat /\ w \in Nat /\ w > 0 /\ r.x = x /\ r.width = w
        /\ k \in Nat /\ x <= k /\ k < x + w
        /\ c \in (k * PlotWidth) \div (GridPx * Total) .. ((k + 1) * PlotWidth - 1) \div (GridPx * Total)
    BY <1>3, <1>6
  <2>2. Total \in Nat /\ Total > 0
    BY <1>3
  <2>. HIDE DEF k, x, w
  <2>. QED  BY ONLY <2>1, <2>2, ByteColumns
<1>8. c \in DOMAIN page.under /\ Merged(page.under[c], GrayOf(c), HalfPixel(Points))
  <2>1. r \in TouchedBy(c)
    BY <1>5, <1>7 DEF TouchedBy
  <2>. QED  BY <2>1, ColumnGray
<1>0. IsFiniteSet(Points) /\ r.top \in Int /\ r.bottom \in Int /\ row \in Int
  BY <1>5, PageMeans, UnderlayIs DEF Rows
<1>9. /\ Interval(r, Points) \in GrayOf(c)
      /\ Interval(r, Points).top = Down(r.top, Points)
      /\ Down(r.bottom, Points) <= Interval(r, Points).bottom
      /\ Interval(r, Points) \in Intervals
  BY <1>0, <1>5, <1>7, IntervalIs DEF GrayOf, TouchedBy
<1>10. PICK m \in page.under[c] : /\ m.top <= Interval(r, Points).top
                                  /\ Interval(r, Points).bottom <= m.bottom
  BY <1>8, <1>9 DEF Merged
<1>11. m \in Intervals
  BY <1>8 DEF Merged
<1>12. /\ Down(r.top, Points) <= Down(row, Points) /\ Down(row + 1, Points) <= Down(r.bottom, Points)
       /\ Down(row, Points) \in Int /\ Down(row + 1, Points) \in Int
       /\ Down(r.top, Points) \in Int /\ Down(r.bottom, Points) \in Int
  <2>1. row + 1 \in Int /\ row + 1 <= r.bottom
    BY ONLY <1>0, <1>4
  <2>2. \A u, v \in Int : /\ Down(u, Points) \in Int
                          /\ u <= v => Down(u, Points) <= Down(v, Points)
    <3>. DEFINE P == Points
    <3>. HIDE DEF P
    <3>1. IsFiniteSet(P)
      BY <1>0 DEF P
    <3>2. \A u, v \in Int : /\ Down(u, P) \in Int
                            /\ u <= v => Down(u, P) <= Down(v, P)
      BY ONLY <3>1, PixelsAre
    <3>. QED  BY <3>2 DEF P
  <2>. QED  BY ONLY <1>0, <1>4, <2>1, <2>2
<1>13. m.top <= Down(row, Points) /\ Down(row + 1, Points) <= m.bottom
  <2>1. /\ m.top \in Int /\ m.bottom \in Int
        /\ Interval(r, Points).top \in Int /\ Interval(r, Points).bottom \in Int
    BY <1>9, <1>11 DEF Intervals
  <2>. QED  BY ONLY <1>9, <1>10, <1>12, <2>1
<1>. QED  BY <1>8, <1>13 DEF GrayAt

(* A column of a rectangle meets its allocation.                           *)
LEMMA ColumnMeets ==
    ASSUME MapInv, Drawn, NEW c, NEW b \in WithoutRect,
           c \in Columns(Rect(b, Points, page.segs), Total)
    PROVE  Meets(b, c)
<1>. DEFINE r == Rect(b, Points, page.segs)
<1>. SUFFICES ASSUME b.addr \in Addresses
              PROVE  \E p \in OnMap(b) :
                  /\ Place(p) * PlotWidth <= (c + 1) * ColumnWidth
                  /\ 2 * c * ColumnWidth <= 2 * (Place(p) + 1) * PlotWidth + Cardinality(Addresses)
  BY DEF Meets
<1>1. b \in page.bars
  BY UnderlayIs
<1>2. /\ r.x \in Nat /\ r.width \in Nat /\ r.width > 0
      /\ Total = Cardinality(Addresses) /\ Total \in Nat /\ Total > 0
      /\ \A k \in Nat : r.x <= k /\ k < r.x + r.width => \E p \in OnMap(b) : Place(p) = k
  BY <1>1, PlacedRect
<1>3. c \in Columns(r, Total)
  OBVIOUS
<1>. HIDE DEF r
<1>4. PICK k \in Nat :
            /\ r.x <= k /\ k < r.x + r.width
            /\ k * PlotWidth <= (c + 1) * (GridPx * Total)
            /\ 2 * c * (GridPx * Total) <= 2 * (k + 1) * PlotWidth + Total
  <2>. DEFINE x == r.x
              w == r.width
  <2>1. x \in Nat /\ w \in Nat /\ w > 0 /\ r.x = x /\ r.width = w /\ Total \in Nat /\ Total > 0
    BY <1>2
  <2>. HIDE DEF x, w
  <2>2. \E k \in Nat :
            /\ x <= k /\ k < x + w
            /\ k * PlotWidth <= (c + 1) * (GridPx * Total)
            /\ 2 * c * (GridPx * Total) <= 2 * (k + 1) * PlotWidth + Total
    BY ONLY <1>3, <2>1, ColumnsMeet
  <2>. QED  BY <2>2 DEF x, w
<1>5. PICK p \in OnMap(b) : Place(p) = k
  BY <1>2, <1>4
<1>. QED  BY <1>2, <1>4, <1>5 DEF ColumnWidth

(* Gray is only where such an allocation is near.                          *)
LEMMA NoneHidden == MapInv /\ Drawn => NoHiddenHoles
<1>. SUFFICES ASSUME MapInv, Drawn, NEW c \in DOMAIN page.under, NEW i \in page.under[c],
                     NEW y \in i.top .. i.bottom
     PROVE  \E a, b \in {d \in WithoutRect : Meets(d, c)} :
               /\ BeginsAt(a) <= y
               /\ \/ y <= EndsAt(a)
                  \/ y <= BeginsAt(b) /\ BeginsAt(b) <= EndsAt(a) + HalfPixel(Points)
  BY DEF NoHiddenHoles
<1>1. Merged(page.under[c], GrayOf(c), HalfPixel(Points))
  BY ColumnGray
<1>2. i.top \in Int /\ i.bottom \in Int
  BY <1>1 DEF Merged, Intervals
<1>3. y \in Int /\ i.top <= y /\ y <= i.bottom
  BY <1>2
<1>4. Near(y, GrayOf(c), HalfPixel(Points))
  BY <1>1, <1>3 DEF Merged
<1>5. ASSUME NEW j \in GrayOf(c)
      PROVE  \E d \in WithoutRect : Meets(d, c) /\ BeginsAt(d) = j.top /\ EndsAt(d) = j.bottom
  <2>1. PICK d \in WithoutRect : /\ c \in Columns(Rect(d, Points, page.segs), Total)
                                 /\ j = Interval(Rect(d, Points, page.segs), Points)
    BY DEF GrayOf, TouchedBy, Below
  <2>2. Meets(d, c)
    BY <2>1, ColumnMeets
  <2>3. j.top = BeginsAt(d) /\ j.bottom = EndsAt(d)
    BY <2>1 DEF Interval, Rect, BeginsAt, EndsAt
  <2>. QED  BY <2>2, <2>3
<1>6. PICK u \in GrayOf(c), v \in GrayOf(c) :
         /\ u.top <= y
         /\ y <= u.bottom \/ (y <= v.top /\ v.top <= u.bottom + HalfPixel(Points))
  BY <1>4 DEF Near
<1>7. PICK a \in WithoutRect : Meets(a, c) /\ BeginsAt(a) = u.top /\ EndsAt(a) = u.bottom
  BY <1>5
<1>8. PICK b \in WithoutRect : Meets(b, c) /\ BeginsAt(b) = v.top /\ EndsAt(b) = v.bottom
  BY <1>5
<1>. QED  BY <1>6, <1>7, <1>8

(* What has no rectangle is gray, and nothing else is.                     *)
THEOREM UnderlayTrue == MapSpec => []UnderlayIsTrue
<1>1. MapInv => UnderlayIsTrue
  BY NoneFalse, NoneHidden DEF UnderlayIsTrue
<1>. QED  BY <1>1, MapInvariant, PTL
=============================================================================
