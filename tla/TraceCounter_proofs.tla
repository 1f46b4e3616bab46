------------------------ MODULE TraceCounter_proofs ------------------------
(***************************************************************************)
(* Proofs about TraceCounter, for every number of devices, ring size and   *)
(* bound: its type, the accuracy of the calibration and the two action     *)
(* properties of the ordinals, from the inductive invariant IInv.          *)
(***************************************************************************)
EXTENDS TraceCounter, FiniteSetTheorems, TLAPS

(* What a ring holds after w more entries, and what fell out of it.        *)
LEMMA HeldFallen ==
    ASSUME NEW k \in 0 .. MaxEntries, NEW w \in Nat
    PROVE  /\ Held(k, w) \in 0 .. MaxEntries
           /\ Fallen(k, w) \in 0 .. w
BY MaxEntriesAssumption DEF Held, Fallen, LeastOf

(* A snapshot marker drops at most one entry per device.                   *)
LEMMA FullRings ==
    Cardinality({d \in Devices : kept[d] = MaxEntries}) \in 0 .. NDev
<1>1. IsFiniteSet(Devices) /\ Cardinality(Devices) = NDev
  BY FS_Interval, NDevAssumption DEF Devices
<1>2. {d \in Devices : kept[d] = MaxEntries} \subseteq Devices
  OBVIOUS
<1>. QED  BY <1>1, <1>2, FS_Subset, FS_CardinalityType, NDevAssumption

(* The markers that the formula counts grow by one per device.             *)
LEMMA OneMoreMarker ==
    ASSUME NEW n \in Nat
    PROVE  n * NDev \in Nat /\ (n + 1) * NDev = n * NDev + NDev
BY NDevAssumption

-----------------------------------------------------------------------------
(* The inductive invariant holds initially.                                *)
LEMMA InitIInv == Init => IInv
<1>. SUFFICES ASSUME Init PROVE IInv
  OBVIOUS
<1>1. TypeOK
  <2>1. kept \in [Devices -> 0 .. MaxEntries]
    BY MaxEntriesAssumption DEF Init
  <2>2. recording \in BOOLEAN
    BY DEF Init
  <2>. QED  BY <2>1, <2>2, NDevAssumption DEF Init, TypeOK
<1>2. RingBounds /\ CallInProgress
  BY DEF Init, RingBounds, CallInProgress
<1>3. CalibrationError /\ EarlierOrdinals
  BY DEF Init, CalibrationError, EarlierOrdinals, Calibrated
<1>. QED  BY <1>1, <1>2, <1>3 DEF IInv

(* Every step of the specification preserves it.                           *)
LEMMA NextIInv == IInv /\ [Next]_vars => IInv'
<1>. SUFFICES ASSUME IInv, [Next]_vars
              PROVE  IInv'
  OBVIOUS
<1>. USE NDevAssumption, MaxEntriesAssumption, NoneAssumption
<1>m. snapCalls * NDev \in Int
  BY OneMoreMarker DEF IInv, TypeOK
<1>1. ASSUME NEW d \in Devices, NEW w \in Weights, AllocatorEvent(d, w)
      PROVE  IInv'
  <2>1. /\ kept[d] \in 0 .. MaxEntries
        /\ Held(kept[d], w) \in 0 .. MaxEntries
        /\ Fallen(kept[d], w) \in 0 .. w
    BY HeldFallen DEF IInv, TypeOK, Weights
  <2>2. TypeOK' /\ RingBounds'
    BY <1>1, <2>1 DEF AllocatorEvent, IInv, TypeOK, RingBounds, Weights, ring, o1
  <2>3. CallInProgress'
    BY <1>1, <2>1 DEF AllocatorEvent, IInv, TypeOK, CallInProgress, Weights, Devices, ring, o1
  <2>4. Calibrated' => Calibrated /\ BaseError' = BaseError /\ BaseError \in Int
    BY <1>1, <1>m DEF AllocatorEvent, IInv, TypeOK, Calibrated, BaseError, Weights, ring, o1
  <2>5. CalibrationError' /\ EarlierOrdinals'
    <3>1. Calibrated' => CalibrationError'
      BY <1>1, <2>4 DEF AllocatorEvent, IInv, TypeOK, CalibrationError, Weights
    <3>2. Calibrated' => EarlierOrdinals'
      BY <1>1, <2>4 DEF AllocatorEvent, IInv, TypeOK, CallInProgress, EarlierOrdinals,
         Calibrated, Weights, ring, o1
    <3>3. ~Calibrated' => CalibrationError' /\ EarlierOrdinals'
      BY <1>1 DEF AllocatorEvent, IInv, CalibrationError, EarlierOrdinals, Calibrated, o1
    <3>. QED  BY <3>1, <3>2, <3>3
  <2>. QED  BY <2>2, <2>3, <2>5 DEF IInv
<1>2. CASE StartRecording
  BY <1>2 DEF StartRecording, FreshBase, IInv, TypeOK, RingBounds, CallInProgress,
     CalibrationError, EarlierOrdinals, Calibrated, call
<1>3. CASE StopRecording
  BY <1>3 DEF StopRecording, IInv, TypeOK, RingBounds, CallInProgress,
     CalibrationError, EarlierOrdinals, Calibrated, ring, o1, call, aux
<1>4. CASE Call
  BY <1>4, <1>m DEF Call, MustCalibrate, IInv, TypeOK, RingBounds, CallInProgress,
     CalibrationError, EarlierOrdinals, Calibrated, BaseError, ring, o1
<1>5. CASE ReadDevice
  BY <1>5, <1>m DEF ReadDevice, MoreDevices, IInv, TypeOK, RingBounds, CallInProgress,
     CalibrationError, EarlierOrdinals, Calibrated, BaseError, ring, o1, aux
<1>6. CASE FinishF0
  BY <1>6, <1>m DEF FinishF0, StatsLen, IInv, TypeOK, RingBounds, CallInProgress,
     CalibrationError, EarlierOrdinals, Calibrated, BaseError, ring, o1, aux
<1>7. CASE Snapshot
  <2>1. Cardinality({d \in Devices : kept[d] = MaxEntries}) \in 0 .. NDev
    BY FullRings
  <2>2. \A d \in Devices : Held(kept[d], 1) \in 0 .. MaxEntries
    BY HeldFallen DEF IInv, TypeOK
  <2>3. TypeOK' /\ RingBounds'
    BY <1>7, <2>1, <2>2 DEF Snapshot, IInv, TypeOK, RingBounds, CallInProgress
  <2>4. CallInProgress'
    BY <1>7 DEF Snapshot, IInv, TypeOK, RingBounds, CallInProgress
  <2>5. CalibrationError' /\ EarlierOrdinals'
    BY <1>7 DEF Snapshot, IInv, CallInProgress, CalibrationError, EarlierOrdinals, Calibrated
  <2>. QED  BY <2>3, <2>4, <2>5 DEF IInv
<1>8. CASE FinishF1
  <2>1. base' = real - (StatsLen - NDev) /\ base' \in Int
    BY <1>8, <1>m DEF FinishF1, Offset, StatsLen, IInv, TypeOK
  <2>2. recording /\ BaseError' = lost + raced - missed
    BY <1>8, <1>m, <2>1 DEF FinishF1, StatsLen, BaseError, IInv, TypeOK, CallInProgress, ring
  <2>3. TypeOK' /\ RingBounds' /\ CallInProgress'
    BY <1>8, <2>1 DEF FinishF1, IInv, TypeOK, RingBounds, CallInProgress, ring, aux
  <2>4. CalibrationError' /\ EarlierOrdinals'
    BY <1>8, <2>2 DEF FinishF1, IInv, TypeOK, CallInProgress, CalibrationError,
       EarlierOrdinals, ring, aux
  <2>. QED  BY <2>3, <2>4 DEF IInv
<1>9. CASE FinishFinal
  <2>1. Calibrated /\ result' = recorded - missed - BaseError /\ result' \in Int
    BY <1>9, <1>m DEF FinishFinal, StatsLen, BaseError, IInv, TypeOK, CallInProgress, Calibrated
  <2>2. TypeOK' /\ RingBounds' /\ CallInProgress'
    BY <1>9, <2>1 DEF FinishFinal, IInv, TypeOK, RingBounds, CallInProgress, ring, o1
  <2>3. Calibrated' /\ BaseError' = BaseError
    BY <1>9, <2>1 DEF FinishFinal, BaseError, Calibrated, ring, o1
  <2>4. CalibrationError' /\ EarlierOrdinals'
    BY <1>9, <1>m, <2>1, <2>3 DEF FinishFinal, IInv, TypeOK, CallInProgress, CalibrationError,
       EarlierOrdinals, BaseError, Calibrated, ring, o1
  <2>. QED  BY <2>2, <2>4 DEF IInv
<1>10. CASE Fail
  BY <1>10, <1>m DEF Fail, IInv, TypeOK, RingBounds, CallInProgress,
     CalibrationError, EarlierOrdinals, Calibrated, BaseError, ring, o1
<1>11. CASE UNCHANGED vars
  BY <1>11 DEF vars, ring, o1, call, aux, IInv, TypeOK, RingBounds, CallInProgress,
     CalibrationError, EarlierOrdinals, Calibrated, BaseError
<1>. QED  BY <1>1, <1>2, <1>3, <1>4, <1>5, <1>6, <1>7, <1>8, <1>9, <1>10, <1>11 DEF Next

(* The inductive invariant is an invariant of the specification.           *)
THEOREM Invariance == Spec => []IInv
BY InitIInv, NextIInv, PTL DEF Spec

(* Type correctness of the counter and of the call in progress.            *)
THEOREM TypeCorrect == Spec => []TypeOK
<1>1. IInv => TypeOK
  BY DEF IInv
<1>. QED  BY <1>1, Invariance, PTL

(* The offset _trace_len calibrates is never too high, and too low by at   *)
(* most what raced the calibration or had already left the rings.          *)
THEOREM CalibrationAccurate == Spec => []CalibrationError
<1>1. IInv => CalibrationError
  BY DEF IInv
<1>. QED  BY <1>1, Invariance, PTL

-----------------------------------------------------------------------------
(* The value a call returns, and the error of the offset it used.          *)
LEMMA OrdinalValue ==
    ASSUME IInv, FinishFinal
    PROVE  /\ Calibrated
           /\ BaseError \in Int
           /\ result' = recorded - missed - BaseError
<1>1. snapCalls * NDev \in Int
  BY OneMoreMarker DEF IInv, TypeOK
<1>2. Calibrated
  BY DEF FinishFinal, IInv, CallInProgress, Calibrated
<1>3. base \in Int
  BY <1>2 DEF IInv, TypeOK, Calibrated
<1>. QED  BY <1>1, <1>2, <1>3 DEF FinishFinal, StatsLen, BaseError, IInv, TypeOK

(* No boundary is dated before its call began or after it returned.        *)
THEOREM OrdinalsWithinCalls == Spec => OrdinalWithinCall
<1>1. IInv /\ [Next]_vars =>
        [FinishFinal => result' \in entry - BaseError .. recorded - BaseError]_vars
  <2>. SUFFICES ASSUME IInv, FinishFinal
                PROVE  result' \in entry - BaseError .. recorded - BaseError
    OBVIOUS
  <2>. QED  BY OrdinalValue DEF FinishFinal, IInv, TypeOK, CallInProgress
<1>. QED  BY <1>1, Invariance, PTL DEF Spec, OrdinalWithinCall

(* Ordinals of one recording never decrease.                               *)
THEOREM OrdinalsNeverGoBack == Spec => OrdinalsMonotone
<1>1. IInv /\ [Next]_vars => [FinishFinal => result' >= prev]_vars
  <2>. SUFFICES ASSUME IInv, FinishFinal
                PROVE  result' >= prev
    OBVIOUS
  <2>. QED  BY OrdinalValue DEF FinishFinal, IInv, TypeOK, CallInProgress, EarlierOrdinals
<1>. QED  BY <1>1, Invariance, PTL DEF Spec, OrdinalsMonotone

-----------------------------------------------------------------------------
(* Every step of the counter is a step of the clock, or none.              *)
LEMMA ClockStep == IInv /\ IInv' /\ [Next]_vars => [Clock!Next]_(Clock!vars)
<1>. SUFFICES ASSUME IInv, IInv', [Next]_vars
              PROVE  Clock!Next \/ UNCHANGED Clock!vars
  OBVIOUS
<1>. USE NDevAssumption, NoneAssumption
<1>m. snapCalls * NDev \in Nat /\ (snapCalls + 1) * NDev = snapCalls * NDev + NDev
  BY OneMoreMarker DEF IInv, TypeOK
<1>b. Calibrated => BaseError \in 0 .. recorded
  BY DEF IInv, TypeOK, CalibrationError, EarlierOrdinals
<1>1. ASSUME NEW d \in Devices, NEW w \in Weights, AllocatorEvent(d, w)
      PROVE  Clock!Next \/ UNCHANGED Clock!vars
  <2>1. Calibrated' <=> Calibrated
    BY <1>1 DEF AllocatorEvent, Calibrated, o1
  <2>2. Calibrated => BaseError' = BaseError
    BY <1>1, <1>m DEF AllocatorEvent, IInv, TypeOK, Calibrated, BaseError, Weights, ring, o1
  <2>3. CASE recording
    BY <1>1, <2>1, <2>2, <2>3 DEF AllocatorEvent, IInv, TypeOK, Weights, Clock!Next, Clock!Grow
  <2>4. CASE ~recording
    BY <1>1, <2>4 DEF AllocatorEvent, Calibrated, ring, o1, Clock!vars
  <2>. QED  BY <2>3, <2>4
<1>2. CASE StartRecording
  BY <1>2 DEF StartRecording, FreshBase, Calibrated, call, Clock!Next, Clock!Restart
<1>3. CASE StopRecording
  BY <1>3 DEF StopRecording, Calibrated, ring, call, aux, Clock!Next, Clock!Stop
<1>4. CASE Call
  <2>1. (Calibrated' <=> Calibrated) /\ BaseError' = BaseError
    BY <1>4 DEF Call, Calibrated, BaseError, ring, o1
  <2>. QED  BY <1>4, <2>1 DEF Call, ring, Clock!Next, Clock!Begin
<1>5. CASE ReadDevice
  BY <1>5 DEF ReadDevice, Calibrated, BaseError, ring, o1, aux, Clock!vars
<1>6. CASE FinishF0
  BY <1>6 DEF FinishF0, Calibrated, BaseError, ring, o1, aux, Clock!vars
<1>7. CASE Snapshot
  <2>1. ~Calibrated /\ ~Calibrated'
    BY <1>7 DEF Snapshot, IInv, CallInProgress, Calibrated
  <2>2. recording
    BY <1>7 DEF Snapshot, IInv, CallInProgress
  <2>. QED  BY <1>7, <2>1, <2>2 DEF Snapshot, IInv, TypeOK, Clock!Next, Clock!Grow
<1>8. CASE FinishF1
  <2>1. ~Calibrated
    BY <1>8 DEF FinishF1, IInv, CallInProgress, Calibrated
  <2>2. Calibrated' /\ recorded' = recorded
    BY <1>8 DEF FinishF1, IInv, CallInProgress, Calibrated, ring
  <2>3. BaseError' \in 0 .. recorded
    BY <2>2 DEF IInv, TypeOK, CalibrationError, EarlierOrdinals
  <2>. QED  BY <1>8, <2>1, <2>2, <2>3 DEF FinishF1, ring, aux, Clock!Next, Clock!Settle
<1>9. CASE FinishFinal
  <2>1. result' \in entry - BaseError .. recorded - BaseError
    BY <1>9, OrdinalValue DEF FinishFinal, IInv, TypeOK, CallInProgress
  <2>2. Calibrated /\ Calibrated' /\ BaseError' = BaseError /\ BaseError \in Int
    BY <1>9, OrdinalValue DEF FinishFinal, Calibrated, BaseError, ring, o1
  <2>. QED  BY <1>9, <2>1, <2>2 DEF FinishFinal, ring, Clock!Next, Clock!Answer
<1>10. CASE Fail
  BY <1>10 DEF Fail, Calibrated, BaseError, ring, o1, Clock!Next, Clock!GiveUp
<1>11. CASE UNCHANGED vars
  BY <1>11 DEF vars, ring, o1, call, aux, Calibrated, BaseError, Clock!vars
<1>. QED  BY <1>1, <1>2, <1>3, <1>4, <1>5, <1>6, <1>7, <1>8, <1>9, <1>10, <1>11 DEF Next

(* The O(1) counter implements the abstract clock: one slack per recording, *)
(* settled during a call, and every answer a length the trace had then.     *)
THEOREM CounterImplementsClock == Spec => ImplementsClock
<1>1. Init => Clock!Init
  BY DEF Init, Clock!Init, Calibrated
<1>. QED  BY <1>1, ClockStep, Invariance, PTL DEF Spec, ImplementsClock, Clock!Spec

=============================================================================
