------------------------- MODULE AwpWrapper_proofs -------------------------
(***************************************************************************)
(* Theorems about AwpWrapper: type correctness; no two calls of the TA     *)
(* compute for the same second while the offset is not negative; the       *)
(* firmware is blamed only for events that are due or set ahead; and       *)
(* mitigation goes on where the TA stopped, unless it was overtaken.       *)
(***************************************************************************)
EXTENDS AwpWrapper, TLAPS

-----------------------------------------------------------------------------
(* Ticks: a tick and the pulse it belongs to.                              *)

(* roundDownToSystemPulse and getTickOfNextTakeEffect.                     *)
LEMMA Pulse ==
  ASSUME NEW t \in Nat
  PROVE  /\ RoundDown(t) \in Nat /\ RoundDown(t) <= t
         /\ NextTakeEffect(t) \in Nat /\ t < NextTakeEffect(t)
         /\ NextTakeEffect(t) = RoundDown(t) + TaCallIntervallMs
<1>1. \A n \in Nat \ {0} : t % n \in 0 .. n - 1
  OBVIOUS
<1>2. t % TaCallIntervallMs \in 0 .. TaCallIntervallMs - 1
  BY <1>1, AwpAssumption
<1>3. t % TaCallIntervallMs <= t
  <2>1. \A n \in Nat \ {0} : t % n <= t
    OBVIOUS
  <2>2. QED BY <2>1, AwpAssumption
<1>4. QED BY <1>2, <1>3, AwpAssumption DEF RoundDown, NextTakeEffect

(* A later tick does not belong to an earlier pulse.                       *)
LEMMA PulsesAreInOrder ==
  ASSUME NEW t \in Nat, NEW u \in Nat, t <= u
  PROVE  NextTakeEffect(t) <= NextTakeEffect(u)
<1>1. ASSUME NEW n \in Nat, n # 0
      PROVE  /\ t - (t % n) <= u - (u % n)
             /\ t % n \in Int /\ u % n \in Int
  BY <1>1, Z3
<1>2. /\ t - (t % TaCallIntervallMs) <= u - (u % TaCallIntervallMs)
      /\ t % TaCallIntervallMs \in Int /\ u % TaCallIntervallMs \in Int
  BY <1>1, AwpAssumption
<1>3. t >= 0 /\ u >= 0 OBVIOUS
<1>4. RoundDown(t) <= RoundDown(u) BY <1>2, <1>3 DEF RoundDown
<1>5. RoundDown(t) \in Int /\ RoundDown(u) \in Int BY Pulse
<1>6. QED BY <1>4, <1>5, Pulse, AwpAssumption

(* A planned call is never before the tick its predecessor takes effect,   *)
(* unless the offset is negative.                                          *)
LEMMA PlannedAfterEffect ==
  ASSUME TypeOK, NEW t \in Nat, TaCallOffsetMs >= 0
  PROVE  NextCall(t) \in Nat /\ NextTakeEffect(t) <= NextCall(t)
<1>1. TaCallOffsetMs \in Nat BY DEF TypeOK
<1>2. QED BY <1>1, Pulse, AwpAssumption DEF NextCall

(* With any offset, and from any tick, it is a number.                     *)
LEMMA PlannedType ==
  ASSUME TypeOK, NEW t \in Int
  PROVE  NextCall(t) \in Int
<1>1. \A n \in Nat \ {0}, x \in Int : x % n \in Int
  OBVIOUS
<1>2. t % TaCallIntervallMs \in Int /\ (-t) % TaCallIntervallMs \in Int
  BY <1>1, AwpAssumption
<1>3. RoundDown(t) \in Int BY <1>2 DEF RoundDown
<1>4. QED BY <1>3, AwpAssumption DEF NextCall, TypeOK

-----------------------------------------------------------------------------
(* Type correctness.  A call is planned once AWP_Init was called, and not  *)
(* before the tick the last one takes effect, unless the page has set a    *)
(* negative offset, for which it must wait until AWP_Init was called.      *)

PlanInv ==
  /\ tickOfLastCall >= 0 => early \/ nextTakeEffectTick <= nextPlannedCall
  /\ tickOfLastCall < 0 => TaCallOffsetMs = 0
  /\ pc = "init" => tickOfLastCall < 0

LEMMA RemainderType ==
  ASSUME NEW n \in Int
  PROVE  n % CycleTime \in 0 .. CycleTime - 1
<1>1. \A c \in Nat \ {0} : n % c \in 0 .. c - 1
  OBVIOUS
<1>2. QED BY <1>1, AwpAssumption

(* The firmware's tick and TX, whatever it was told.                       *)
LEMMA AdvanceType ==
  ASSUME TypeOK, NEW d \in Steps, Advance(d)
  PROVE  /\ baseTicktime' \in Nat /\ baseTicktime' > baseTicktime
         /\ tx' \in 0 .. CycleTime - 1
         /\ FwKeeps \in [tx : -1 .. CycleTime - 1, at : Nat \cup {-1}]
<1>1. d \in Nat \ {0} BY AwpAssumption
<1>2. baseTicktime' \in Nat /\ baseTicktime' > baseTicktime
  BY <1>1 DEF Advance, TypeOK
<1>3. TxAfter(d) \in 0 .. CycleTime - 1
  <2>1. (tx + d) % CycleTime \in 0 .. CycleTime - 1
    <3>1. tx + d \in Int BY <1>1 DEF TypeOK
    <3>2. QED BY <3>1, RemainderType
  <2>2. fwTx.tx \in Int /\ fwTx.at \in Int BY DEF TypeOK
  <2>3. fwTx.tx + baseTicktime + d - fwTx.at \in Int
    BY <1>1, <2>2 DEF TypeOK
  <2>4. (fwTx.tx + baseTicktime + d - fwTx.at) % CycleTime \in 0 .. CycleTime - 1
    BY <2>3, RemainderType
  <2>5. QED BY <2>1, <2>4 DEF TxAfter
<1>4. -1 \in -1 .. CycleTime - 1 BY AwpAssumption
<1>5. NotSet \in [tx : -1 .. CycleTime - 1, at : Nat \cup {-1}]
  BY <1>4 DEF NotSet
<1>6. QED BY <1>2, <1>3, <1>5 DEF Advance, FwKeeps, TypeOK

(* What a call that is due does to the ticks (onSignalIndication).         *)
LEMMA CallDueType ==
  ASSUME TypeOK, PlanInv, CallDue
  PROVE  /\ baseTicktime' \in Nat /\ tx' \in 0 .. CycleTime - 1
         /\ FwKeeps \in [tx : -1 .. CycleTime - 1, at : Nat \cup {-1}]
         /\ tickOfLastCall' \in Nat
         /\ nextTakeEffectTick' \in Nat /\ nextPlannedCall' \in Int
         /\ early \/ nextTakeEffectTick <= baseTicktime'
         /\ baseTicktime' < nextTakeEffectTick'
         /\ nextTakeEffectTick' = NextTakeEffect(baseTicktime')
         /\ baseTicktime <= baseTicktime'
         /\ early' \in BOOLEAN /\ pc = "idle"
         /\ early' \/ nextTakeEffectTick' <= nextPlannedCall'
<1>1. PICK d \in Steps : Advance(d) BY DEF CallDue
<1>2. /\ baseTicktime' \in Nat /\ tx' \in 0 .. CycleTime - 1
      /\ FwKeeps \in [tx : -1 .. CycleTime - 1, at : Nat \cup {-1}]
      /\ baseTicktime <= baseTicktime'
  BY <1>1, AdvanceType DEF TypeOK
<1>3. early \/ nextTakeEffectTick <= nextPlannedCall
  BY DEF CallDue, PlanInv
<1>4. early \/ nextTakeEffectTick <= baseTicktime'
  BY <1>2, <1>3 DEF CallDue, TypeOK
<1>5. /\ NextTakeEffect(baseTicktime') \in Nat
      /\ baseTicktime' < NextTakeEffect(baseTicktime')
  BY <1>2, Pulse
<1>6. NextCall(baseTicktime') \in Int
  BY <1>2, PlannedType
<1>7. TaCallOffsetMs < 0 \/ NextTakeEffect(baseTicktime') <= NextCall(baseTicktime')
  BY <1>2, PlannedAfterEffect DEF TypeOK
<1>8. early' = (TaCallOffsetMs < 0) BY DEF CallDue
<1>9. early' \in BOOLEAN /\ (TaCallOffsetMs < 0 => early')
  <2>1. (TaCallOffsetMs < 0) \in BOOLEAN OBVIOUS
  <2>2. QED BY <1>8, <2>1, Zenon
<1>10. QED BY <1>2, <1>4, <1>5, <1>6, <1>7, <1>9 DEF CallDue

(* The ticks onAwpInitCalled starts from.                                  *)
LEMMA InitReturnsType ==
  ASSUME TypeOK, PlanInv, InitReturns
  PROVE  /\ tickOfLastCall' \in Nat /\ nextTakeEffectTick' \in Nat
         /\ nextPlannedCall' \in Nat /\ nextTakeEffectTick' <= nextPlannedCall'
         /\ nextTakeEffectTick' = NextTakeEffect(tickOfLastCall')
         /\ tickOfLastCall' <= baseTicktime
<1>1. baseTicktime \in Nat /\ TaCallOffsetMs = 0
  BY DEF TypeOK, PlanInv, InitReturns
<1>2. RoundDown(baseTicktime) \in Nat BY <1>1, Pulse
<1>3. tickOfLastCall' = RoundDown(baseTicktime) + TaCallOffsetMs
  BY <1>1, <1>2, AwpAssumption DEF InitReturns, NextCall
<1>4. nextPlannedCall' = tickOfLastCall' + TaCallIntervallMs
  BY <1>1, <1>2, <1>3, AwpAssumption DEF InitReturns, NextCall
<1>5. tickOfLastCall' \in Nat BY <1>1, <1>2, <1>3
<1>6. nextTakeEffectTick' = NextTakeEffect(tickOfLastCall')
  BY DEF InitReturns
<1>7. /\ NextTakeEffect(tickOfLastCall') \in Nat
      /\ RoundDown(tickOfLastCall') <= tickOfLastCall'
      /\ RoundDown(tickOfLastCall') \in Nat
      /\ NextTakeEffect(tickOfLastCall') = RoundDown(tickOfLastCall') + TaCallIntervallMs
  BY <1>5, Pulse
<1>8. tickOfLastCall' <= baseTicktime BY <1>1, <1>2, <1>3, Pulse
<1>9. nextTakeEffectTick' \in Nat BY <1>6, <1>7
<1>10. nextPlannedCall' \in Nat
  <2>1. TaCallIntervallMs \in Nat BY AwpAssumption
  <2>2. ASSUME NEW a \in Nat, NEW b \in Nat PROVE a + b \in Nat
    OBVIOUS
  <2>3. tickOfLastCall' + TaCallIntervallMs \in Nat BY <1>5, <2>1, <2>2
  <2>4. QED BY <1>4, <2>3
<1>11. NextTakeEffect(tickOfLastCall') <= nextPlannedCall'
  BY <1>4, <1>5, <1>7, AwpAssumption
<1>12. nextTakeEffectTick' <= nextPlannedCall' BY <1>6, <1>11
<1>13. QED BY <1>5, <1>6, <1>8, <1>9, <1>10, <1>12, Zenon

(* The place of an event is in the array, and its event is well-formed.    *)
LEMMA SlotType ==
  ASSUME TypeOK, NEW sg, pinsert < MaxEvents
  PROVE  /\ Slot(sg) \in 1 .. pinsert + 1 /\ Slot(sg) \in 1..MaxEvents
         /\ Slot(sg) # pinsert + 1 => events[Slot(sg)].sg = sg
         /\ Slot(sg) = pinsert + 1 => \A i \in 1..pinsert : events[i].sg # sg
<1> DEFINE found == {i \in 1..pinsert : events[i].sg = sg}
<1>1. pinsert \in Nat /\ MaxEvents \in Nat BY AwpAssumption DEF TypeOK
<1>2. CASE found = {}
  <2>1. Slot(sg) = pinsert + 1 BY <1>2 DEF Slot
  <2>2. QED BY <1>1, <1>2, <2>1
<1>3. CASE found # {}
  <2>1. Slot(sg) \in found BY <1>3 DEF Slot
  <2>2. QED BY <1>1, <2>1
<1>4. QED BY <1>2, <1>3

LEMMA EventType ==
  ASSUME TypeOK, NEW sg \in Sg, NEW color \in {"go", "stop", "other"},
         NEW ahead \in Ahead
  PROVE  Event(sg, color, ahead) \in
           [sg : Sg \cup {0}, color : {"go", "stop", "other"},
            start : Nat, valid : {0, ValidDuration}, ahead : Nat]
<1>1. ahead \in Nat /\ TaCallIntervallMs \in Nat BY AwpAssumption
<1>2. ahead * TaCallIntervallMs \in Nat BY <1>1
<1>3. nextTakeEffectTick + ahead * TaCallIntervallMs \in Nat
  BY <1>2 DEF TypeOK
<1>4. (IF color = "other" THEN 0 ELSE ValidDuration) \in {0, ValidDuration}
  OBVIOUS
<1>5. QED BY <1>1, <1>3, <1>4 DEF Event

-----------------------------------------------------------------------------
(* A mitigation's TX is one of the cycle.                                  *)
LEMMA TxTypes ==
  ASSUME TypeOK, NEW t \in -1 .. CycleTime - 1
  PROVE  RoundDown(NextProbableTx(t)) \in 0 .. CycleTime - 1
<1>1. t + TaCallIntervallMs \in Int BY AwpAssumption
<1>2. NextProbableTx(t) \in 0 .. CycleTime - 1
  BY <1>1, RemainderType DEF NextProbableTx
<1>3. QED BY <1>2, Pulse, AwpAssumption

LEMMA SetTxType ==
  ASSUME TypeOK, PlanInv, CallDue, NEW t \in 0 .. CycleTime - 1, SetTx(t)
  PROVE  fwTx' \in [tx : -1 .. CycleTime - 1, at : Nat \cup {-1}]
<1>1. t \in -1 .. CycleTime - 1 BY AwpAssumption
<1>2. QED BY <1>1, CallDueType DEF SetTx

TickInv == TypeOK /\ PlanInv

LEMMA InitTypes == Init => TickInv
<1> SUFFICES ASSUME Init PROVE TickInv
  OBVIOUS
<1>1. baseTicktime \in Nat BY AwpAssumption DEF Init
<1>2. NotSet \in [tx : -1 .. CycleTime - 1, at : Nat \cup {-1}]
  BY AwpAssumption DEF NotSet
<1>3. -1 \in -1 .. CycleTime - 1 BY AwpAssumption
<1>4. NoEvent \in [sg : Sg \cup {0}, color : {"go", "stop", "other"},
                   start : Nat, valid : {0, ValidDuration}, ahead : Nat]
  BY DEF NoEvent
<1>5. TypeOK
  <2>1. /\ isMitigate \in BOOLEAN /\ early \in BOOLEAN /\ overtaken \in BOOLEAN
    BY Zenon DEF Init
  <2>2. events \in [1..MaxEvents ->
                      [sg : Sg \cup {0}, color : {"go", "stop", "other"},
                       start : Nat, valid : {0, ValidDuration}, ahead : Nat]]
    BY <1>4, Zenon DEF Init
  <2>3. /\ tickOfLastCall \in Nat \cup {-1} /\ nextTakeEffectTick \in Nat
        /\ nextPlannedCall \in Int /\ TaCallOffsetMs \in Int
        /\ pinsert \in 0..MaxEvents /\ pLastSent \in 0..MaxEvents
        /\ txMitigate \in -1 .. CycleTime - 1 /\ txTaLastCalled \in -1 .. CycleTime - 1
    BY <1>3, AwpAssumption DEF Init
  <2>4. QED BY <1>1, <1>2, <2>1, <2>2, <2>3 DEF Init, TypeOK
<1>6. PlanInv BY DEF Init, PlanInv
<1>7. QED BY <1>5, <1>6 DEF TickInv

LEMMA StepTypes == TickInv /\ [Next]_vars => TickInv'
<1> SUFFICES ASSUME TypeOK, PlanInv, [Next]_vars PROVE TickInv'
  BY DEF TickInv
<1> USE DEF TickInv
<1>1. CASE CallInit
  <2>1. PICK d \in Steps : Advance(d) BY <1>1 DEF CallInit
  <2>2. QED
    BY <1>1, <2>1, AdvanceType
    DEF CallInit, TypeOK, PlanInv, callVars, eventVars, mitiVars, pageVars
<1>2. CASE InitReturns
  BY <1>2, InitReturnsType
  DEF InitReturns, TypeOK, PlanInv, fwVars, eventVars, mitiVars, pageVars
<1>3. CASE NoCall
  <2>1. PICK d \in Steps : Advance(d) BY <1>3 DEF NoCall
  <2>2. QED
    BY <1>3, <2>1, AdvanceType
    DEF NoCall, TypeOK, PlanInv, callVars, eventVars, mitiVars, pageVars
<1>4. CASE Mitigate
  <2>1. CallDue BY <1>4 DEF Mitigate
  <2>2. txMitigate' \in 0 .. CycleTime - 1
    <3>1. CASE txMitigate < 0
      <4>1. txTaLastCalled \in -1 .. CycleTime - 1 BY DEF TypeOK
      <4>2. QED BY <1>4, <3>1, <4>1, TxTypes DEF Mitigate
    <3>2. CASE ~(txMitigate < 0)
      BY <1>4, <3>2, AwpAssumption DEF Mitigate, TypeOK
    <3>3. QED BY <3>1, <3>2
  <2>3. fwTx' \in [tx : -1 .. CycleTime - 1, at : Nat \cup {-1}]
    BY <1>4, <2>1, <2>2, SetTxType DEF Mitigate
  <2>4. QED
    BY SMTT(30), <1>4, <2>1, <2>2, <2>3, CallDueType
    DEF Mitigate, TypeOK, PlanInv, eventVars, pageVars
<1>5. CASE MitigateEnd
  <2>1. CallDue BY <1>5 DEF MitigateEnd
  <2>2. txMitigate \in 0 .. CycleTime - 1 BY <1>5 DEF MitigateEnd, TypeOK
  <2>3. fwTx' \in [tx : -1 .. CycleTime - 1, at : Nat \cup {-1}]
    BY <1>5, <2>1, <2>2, SetTxType DEF MitigateEnd
  <2>4. QED
    BY SMTT(30), <1>5, <2>1, <2>3, CallDueType
    DEF MitigateEnd, TypeOK, PlanInv, eventVars, mitiVars, pageVars
<1>6. CASE CallFunction
  <2>1. CallDue BY <1>6 DEF CallFunction
  <2>2. txMitigate' \in -1 .. CycleTime - 1
    BY <1>6, AwpAssumption DEF CallFunction, TypeOK
  <2>3. overtaken' \in BOOLEAN
    <3>1. (txMitigate >= 0) \in BOOLEAN OBVIOUS
    <3>2. overtaken' = (txMitigate >= 0) \/ overtaken' = FALSE
      BY <1>6, Zenon DEF CallFunction
    <3>3. QED BY <3>1, <3>2, Zenon
  <2>4. pc' = "function" /\ UNCHANGED <<eventVars, pageVars>> /\ fwTx' = FwKeeps
        /\ txTaLastCalled' = tx'
    BY <1>6 DEF CallFunction
  <2>5. QED
    BY SMTT(30), <2>1, <2>2, <2>3, <2>4, CallDueType
    DEF TypeOK, PlanInv, eventVars, pageVars
<1>7. CASE SigWunschSetzenSig
  <2>1. PICK sg \in Sg, color \in {"go", "stop", "other"}, ahead \in Ahead :
          /\ events' = [events EXCEPT ![Slot(sg)] = Event(sg, color, ahead)]
          /\ pinsert' = IF Slot(sg) = pinsert + 1 THEN pinsert + 1 ELSE pinsert
    BY <1>7 DEF SigWunschSetzenSig
  <2>2. Slot(sg) \in 1..MaxEvents BY <1>7, SlotType DEF SigWunschSetzenSig
  <2>3. pinsert' \in 0..MaxEvents
    BY <1>7, <2>1, AwpAssumption DEF SigWunschSetzenSig, TypeOK
  <2>4. QED
    BY <1>7, <2>1, <2>2, <2>3, EventType
    DEF SigWunschSetzenSig, TypeOK, PlanInv, fwVars, callVars, mitiVars, pageVars
<1>8. CASE FunctionReturns
  BY <1>8, AwpAssumption
  DEF FunctionReturns, TypeOK, PlanInv, fwVars, callVars, mitiVars, pageVars
<1>9. CASE SetOffset
  BY <1>9, AwpAssumption
  DEF SetOffset, TypeOK, PlanInv, fwVars, callVars, eventVars, mitiVars
<1>10. CASE Slip
  <2>1. NextCall(nextPlannedCall) \in Int BY PlannedType DEF TypeOK
  <2>2. early' = (early \/ TaCallOffsetMs < 0) BY <1>10 DEF Slip
  <2>3. early' \in BOOLEAN BY <2>2
  <2>4. early' \/ nextTakeEffectTick <= NextCall(nextPlannedCall)
    <3>1. SUFFICES ASSUME ~early, ~(TaCallOffsetMs < 0)
                   PROVE  nextTakeEffectTick <= NextCall(nextPlannedCall)
      BY <2>2
    <3>2. nextTakeEffectTick <= nextPlannedCall BY <1>10, <3>1 DEF Slip, PlanInv
    <3>3. nextPlannedCall \in Nat BY <3>2 DEF TypeOK
    <3>4. TaCallOffsetMs >= 0 BY <3>1 DEF TypeOK
    <3>5. nextPlannedCall <= NextCall(nextPlannedCall)
      BY <3>3, <3>4, Pulse, PlannedAfterEffect
    <3>6. QED BY <2>1, <3>2, <3>3, <3>5 DEF TypeOK
  <2>5. QED
    BY <1>10, <2>1, <2>3, <2>4
    DEF Slip, TypeOK, PlanInv, fwVars, eventVars, mitiVars, pageVars
<1>11. CASE SetMitigate
  BY <1>11, AwpAssumption
  DEF SetMitigate, TypeOK, PlanInv, fwVars, callVars, eventVars, mitiVars
<1>12. CASE UNCHANGED vars
  BY <1>12
  DEF vars, TypeOK, PlanInv, fwVars, callVars, eventVars, mitiVars, pageVars
<1>13. QED
  BY <1>1, <1>2, <1>3, <1>4, <1>5, <1>6, <1>7, <1>8, <1>9, <1>10, <1>11, <1>12
  DEF Next

(* Every variable keeps its type.                                          *)
THEOREM TypesAreRight == Spec => []TypeOK
<1>1. TickInv => TypeOK BY DEF TickInv
<1>2. QED BY <1>1, InitTypes, StepTypes, PTL DEF Spec

(* A call's take effect tick is later than that of the call before,        *)
(* whatever slips and whatever the page changes, unless the call was       *)
(* planned with a negative offset (getTickOfNextTakeEffect).               *)
THEOREM SecondsAreDistinct == Spec => TakeEffectAdvances
<1> DEFINE Advances == pc = "idle" /\ pc' = "function" /\ ~early
                         => nextTakeEffectTick' > nextTakeEffectTick
<1>1. TickInv /\ [Next]_vars => [Advances]_vars
  <2> SUFFICES ASSUME TypeOK, PlanInv, Next, pc = "idle", pc' = "function",
                      ~early
               PROVE  nextTakeEffectTick' > nextTakeEffectTick
    BY DEF TickInv
  <2>1. CallFunction
    BY DEF Next, CallInit, InitReturns, NoCall, Mitigate, MitigateEnd,
           SigWunschSetzenSig, FunctionReturns, SetOffset, Slip, SetMitigate
  <2>2. QED BY SMTT(30), <2>1, CallDueType DEF CallFunction, TypeOK
<1>2. QED BY <1>1, InitTypes, StepTypes, PTL DEF Spec, TakeEffectAdvances

-----------------------------------------------------------------------------
(* An event set for the next take effect tick is due by the next call;     *)
(* what AWP_Init sets is due at once.  The take effect tick never goes     *)
(* back, as the firmware's ticks do not.                                   *)
StartInv ==
  /\ \A i \in 1..MaxEvents :
       events[i].ahead = 0 => events[i].start <= nextTakeEffectTick
  /\ tickOfLastCall < 0 \/ pc = "init" => nextTakeEffectTick = 0
  /\ nextTakeEffectTick <= NextTakeEffect(baseTicktime)

(* TX is set back only for an event that is due and has not expired, or    *)
(* one the TA set ahead (SigWunschSetzenSigAtTick), unless the call was    *)
(* planned with a negative offset (isLastSiSwitched).                      *)
THEOREM BlameIsDue == Spec => BlamesOnlyDue
<1>1. Init => StartInv
  <2> SUFFICES ASSUME Init PROVE StartInv
    OBVIOUS
  <2>1. baseTicktime \in Nat BY AwpAssumption DEF Init
  <2>2. NextTakeEffect(baseTicktime) \in Nat BY <2>1, Pulse
  <2>3. QED BY <2>2 DEF Init, StartInv, NoEvent
<1>2. StartInv /\ TickInv /\ [Next]_vars => StartInv'
  <2> SUFFICES ASSUME StartInv, TypeOK, PlanInv, [Next]_vars PROVE StartInv'
    BY DEF TickInv
  <2> USE DEF StartInv
  <2>a. /\ \A i \in 1..MaxEvents : events[i].start \in Nat /\ events[i].ahead \in Nat
        /\ nextTakeEffectTick \in Nat /\ baseTicktime \in Nat
    BY DEF TypeOK
  <2>b. NextTakeEffect(baseTicktime) \in Nat BY <2>a, Pulse
  <2>1. CASE FunctionReturns \/ Slip \/ SetOffset \/ SetMitigate \/ UNCHANGED vars
    BY <2>1 DEF FunctionReturns, Slip, SetOffset, SetMitigate,
       vars, fwVars, callVars, eventVars, NextTakeEffect, RoundDown
  <2>2. CASE CallInit \/ NoCall
    <3>1. PICK d \in Steps : Advance(d) BY <2>2 DEF CallInit, NoCall
    <3>2. baseTicktime' \in Nat /\ baseTicktime <= baseTicktime'
      BY <2>a, <3>1, AdvanceType
    <3>3. /\ NextTakeEffect(baseTicktime') \in Nat
          /\ NextTakeEffect(baseTicktime) <= NextTakeEffect(baseTicktime')
      BY <2>a, <3>2, Pulse, PulsesAreInOrder
    <3>4. UNCHANGED <<events, nextTakeEffectTick, tickOfLastCall>>
      BY <2>2 DEF CallInit, NoCall, callVars, eventVars
    <3>5. pc' = pc \/ tickOfLastCall < 0 BY <2>2 DEF CallInit, NoCall
    <3>6. nextTakeEffectTick <= NextTakeEffect(baseTicktime')
      BY <2>a, <2>b, <3>3
    <3>7. NextTakeEffect(baseTicktime)' = NextTakeEffect(baseTicktime')
      BY DEF NextTakeEffect, RoundDown
    <3>8. QED BY <3>4, <3>5, <3>6, <3>7
  <2>3. CASE InitReturns
    <3>1. /\ tickOfLastCall' \in Nat /\ nextTakeEffectTick' \in Nat
          /\ nextTakeEffectTick' = NextTakeEffect(tickOfLastCall')
          /\ tickOfLastCall' <= baseTicktime
      BY <2>3, InitReturnsType
    <3>2. pc' = "idle" /\ UNCHANGED <<events, baseTicktime>> /\ nextTakeEffectTick = 0
      BY <2>3 DEF InitReturns, eventVars, fwVars
    <3>3. nextTakeEffectTick' <= NextTakeEffect(baseTicktime)
      BY <2>a, <3>1, PulsesAreInOrder
    <3>4. NextTakeEffect(baseTicktime)' = NextTakeEffect(baseTicktime)
      BY <3>2 DEF NextTakeEffect, RoundDown
    <3>5. QED BY <2>a, <3>1, <3>2, <3>3, <3>4
  <2>4. CASE Mitigate \/ MitigateEnd \/ CallFunction
    <3>1. CallDue /\ UNCHANGED events
      BY <2>4 DEF Mitigate, MitigateEnd, CallFunction, eventVars
    <3>2. /\ nextTakeEffectTick' \in Nat /\ tickOfLastCall' \in Nat
          /\ nextTakeEffectTick' = NextTakeEffect(baseTicktime')
          /\ baseTicktime' \in Nat /\ baseTicktime <= baseTicktime'
      BY <3>1, CallDueType
    <3>3. nextTakeEffectTick <= nextTakeEffectTick'
      BY <2>a, <2>b, <3>2, PulsesAreInOrder
    <3>4. pc' # "init"
      BY <2>4, <3>1 DEF CallDue, Mitigate, MitigateEnd, CallFunction
    <3>5. NextTakeEffect(baseTicktime)' = NextTakeEffect(baseTicktime')
      BY DEF NextTakeEffect, RoundDown
    <3>6. QED BY <2>a, <3>1, <3>2, <3>3, <3>4, <3>5
  <2>5. CASE SigWunschSetzenSig
    <3>1. PICK sg \in Sg, color \in {"go", "stop", "other"}, ahead \in Ahead :
            events' = [events EXCEPT ![Slot(sg)] = Event(sg, color, ahead)]
      BY <2>5 DEF SigWunschSetzenSig
    <3>2. ahead = 0 => Event(sg, color, ahead).start = nextTakeEffectTick
      <4>1. SUFFICES ASSUME ahead = 0
                     PROVE  Event(sg, color, ahead).start = nextTakeEffectTick
        OBVIOUS
      <4>2. ahead * TaCallIntervallMs = 0 BY <4>1, AwpAssumption
      <4>3. QED BY <2>a, <4>2 DEF Event
    <3>3. Event(sg, color, ahead).ahead = ahead BY DEF Event
    <3>4. UNCHANGED <<nextTakeEffectTick, tickOfLastCall, pc, baseTicktime>>
      BY <2>5 DEF SigWunschSetzenSig, callVars, fwVars
    <3>5. NextTakeEffect(baseTicktime)' = NextTakeEffect(baseTicktime)
      BY <3>4 DEF NextTakeEffect, RoundDown
    <3>6. \A i \in 1..MaxEvents :
            events'[i].ahead = 0 => events'[i].start <= nextTakeEffectTick
      <4>1. SUFFICES ASSUME NEW i \in 1..MaxEvents, events'[i].ahead = 0
                     PROVE  events'[i].start <= nextTakeEffectTick
        OBVIOUS
      <4>2. CASE i = Slot(sg)
        <5>1. events'[i] = Event(sg, color, ahead) BY <3>1, <4>2 DEF TypeOK
        <5>2. QED BY <2>a, <3>2, <3>3, <4>1, <5>1
      <4>3. CASE i # Slot(sg)
        <5>1. events'[i] = events[i] BY <3>1, <4>3 DEF TypeOK
        <5>2. QED BY <4>1, <5>1
      <4>4. QED BY <4>2, <4>3
    <3>7. QED BY <3>4, <3>5, <3>6
  <2>6. QED BY <2>1, <2>2, <2>3, <2>4, <2>5 DEF Next
<1>3. StartInv /\ TickInv /\ [Next]_vars
        => [txMitigate < 0 /\ txMitigate' >= 0 /\ ~early
              => \E i \in 1..pLastSent : events[i].ahead > 0 \/ Due(events[i])']_vars
  <2> SUFFICES ASSUME StartInv, TypeOK, PlanInv, Next,
                      txMitigate < 0, txMitigate' >= 0, ~early
               PROVE  \E i \in 1..pLastSent : events[i].ahead > 0 \/ Due(events[i])'
    BY DEF TickInv
  <2>1. Mitigate
    BY DEF Next, CallInit, InitReturns, NoCall, MitigateEnd, CallFunction, mitiVars,
           SigWunschSetzenSig, FunctionReturns, SetOffset, Slip, SetMitigate, TypeOK
  <2>2. PICK shown \in Shown : ~LastSiSwitched(shown) BY <2>1 DEF Mitigate
  <2>3. PICK i \in 1..pLastSent : /\ events[i].valid # 0
                                  /\ ~(events[i].start + events[i].valid <= baseTicktime')
    BY <2>2 DEF LastSiSwitched
  <2>4. CallDue /\ UNCHANGED events BY <2>1 DEF Mitigate, eventVars
  <2>5. baseTicktime' \in Nat /\ nextTakeEffectTick <= baseTicktime'
    BY <2>4, CallDueType
  <2>6. i \in 1..MaxEvents BY AwpAssumption DEF TypeOK
  <2>7. /\ events[i].start \in Nat /\ events[i].valid \in Nat
        /\ events[i].ahead \in Nat
        /\ events[i].ahead = 0 => events[i].start <= nextTakeEffectTick
    BY <2>6, AwpAssumption DEF TypeOK, StartInv
  <2>8. CASE events[i].ahead = 0
    <3>1. Due(events[i])'
      BY <2>3, <2>4, <2>5, <2>7, <2>8 DEF Due, TypeOK
    <3>2. QED BY <3>1
  <2>9. CASE events[i].ahead > 0
    BY <2>9
  <2>10. QED BY <2>7, <2>8, <2>9
<1>4. QED BY <1>1, <1>2, <1>3, InitTypes, StepTypes, PTL DEF Spec, BlamesOnlyDue

-----------------------------------------------------------------------------
(* Events are sent only after a call, and what was sent before the first   *)
(* one is nothing.                                                         *)
TargetInv ==
  /\ pLastSent > 0 \/ pc = "function" => txTaLastCalled >= 0
  /\ MitigatesToNext

(* A mitigation leads to the TX that follows the one the TA processed      *)
(* last, unless the TA was called in between with mitigation switched off  *)
(* (onSignalIndication).                                                   *)
THEOREM TargetIsNext == Spec => []MitigatesToNext
<1>1. Init => TargetInv BY DEF Init, TargetInv, MitigatesToNext
<1>2. TargetInv /\ TickInv /\ [Next]_vars => TargetInv'
  <2> SUFFICES ASSUME TargetInv, TypeOK, PlanInv, [Next]_vars PROVE TargetInv'
    BY DEF TickInv
  <2> USE DEF TargetInv, MitigatesToNext
  <2>1. CASE CallInit \/ InitReturns \/ NoCall \/ SigWunschSetzenSig
                \/ SetOffset \/ Slip \/ UNCHANGED vars
    BY <2>1 DEF CallInit, InitReturns, NoCall, SigWunschSetzenSig, SetOffset, Slip,
       vars, eventVars, mitiVars, pageVars
  <2>2. CASE Mitigate
    <3>1. PICK shown \in Shown : ~LastSiSwitched(shown) BY <2>2 DEF Mitigate
    <3>2. pLastSent > 0 BY <3>1 DEF LastSiSwitched, TypeOK
    <3>3. CASE txMitigate < 0
      <4>1. txTaLastCalled >= 0 BY <3>2
      <4>2. txMitigate' = RoundDown(NextProbableTx(txTaLastCalled))
        BY <2>2, <3>3 DEF Mitigate
      <4>3. QED
        BY <2>2, <4>1, <4>2
        DEF Mitigate, CallDue, eventVars, pageVars, RoundDown, NextProbableTx
    <3>4. CASE ~(txMitigate < 0)
      <4>1. txMitigate >= 0 BY <3>4 DEF TypeOK
      <4>2. UNCHANGED <<txMitigate, txTaLastCalled, overtaken, pLastSent, pc>>
        BY <2>2, <3>4 DEF Mitigate, eventVars, pageVars
      <4>3. QED BY <4>1, <4>2 DEF RoundDown, NextProbableTx
    <3>5. QED BY <3>3, <3>4
  <2>3. CASE MitigateEnd
    BY <2>3 DEF MitigateEnd, eventVars, mitiVars, pageVars
  <2>4. CASE CallFunction
    <3>1. tx' >= 0
      <4>1. tx' \in 0 .. CycleTime - 1 BY <2>4, CallDueType DEF CallFunction
      <4>2. QED BY <4>1, AwpAssumption
    <3>2. txMitigate' < 0 \/ overtaken'
      <4>1. CASE ~isMitigate
        <5>1. txMitigate' = txMitigate BY <2>4, <4>1 DEF CallFunction
        <5>2. overtaken' = (txMitigate >= 0) BY <2>4, <4>1 DEF CallFunction
        <5>3. txMitigate' < 0 \/ txMitigate >= 0 BY <5>1 DEF TypeOK
        <5>4. QED BY <5>2, <5>3, Zenon
      <4>2. CASE isMitigate
        BY <2>4, <4>2 DEF CallFunction
      <4>3. QED BY <4>1, <4>2
    <3>3. ~(txMitigate' >= 0) \/ overtaken'
      <4>1. txMitigate' \in Int
        BY <2>4 DEF CallFunction, TypeOK
      <4>2. QED BY <3>2, <4>1
    <3>4. txTaLastCalled' = tx' BY <2>4 DEF CallFunction
    <3>5. QED BY <3>1, <3>3, <3>4
  <2>5. CASE FunctionReturns
    BY <2>5 DEF FunctionReturns, mitiVars, pageVars
  <2>6. CASE SetMitigate
    BY <2>6 DEF SetMitigate, eventVars, mitiVars
  <2>7. QED BY <2>1, <2>2, <2>3, <2>4, <2>5, <2>6 DEF Next
<1>3. TargetInv => MitigatesToNext BY DEF TargetInv
<1>4. QED BY <1>1, <1>2, <1>3, InitTypes, StepTypes, PTL DEF Spec

-----------------------------------------------------------------------------
(* The stored and the sent events share the array: what was sent last      *)
(* stays in it until the TA sets the next event.                           *)
Distinct(n) == \A i, j \in 1..n : events[i].sg = events[j].sg => i = j

ArrayInv ==
  /\ Distinct(pinsert)
  /\ pc # "function" \/ pinsert = 0 => Distinct(pLastSent)
  /\ tickOfLastCall < 0 \/ pc = "init" => pLastSent = 0
  /\ pinsert > 0 /\ pc # "function" => pLastSent = 0
  /\ pc = "function" => tickOfLastCall >= 0

(* One event per signal group, stored or sent, in an array that is not     *)
(* overrun (SigWunschSetzenSig).                                           *)
THEOREM EventsAreDistinct == Spec => []OneEventPerSg
<1>1. Init => ArrayInv BY DEF Init, ArrayInv, Distinct
<1>2. ArrayInv /\ TickInv /\ [Next]_vars => ArrayInv'
  <2> SUFFICES ASSUME ArrayInv, TypeOK, PlanInv, [Next]_vars PROVE ArrayInv'
    BY DEF TickInv
  <2>n. pinsert \in Nat /\ pLastSent \in Nat BY AwpAssumption DEF TypeOK
  <2> USE DEF ArrayInv, Distinct
  <2>1. CASE CallInit \/ NoCall \/ SetOffset \/ SetMitigate \/ Slip
                \/ UNCHANGED vars
    BY <2>1 DEF CallInit, NoCall, SetOffset, SetMitigate, Slip, vars, callVars,
       eventVars
  <2>2. CASE InitReturns
    BY <2>2, InitReturnsType DEF InitReturns, eventVars
  <2>3. CASE Mitigate \/ MitigateEnd
    <3>1. CallDue /\ UNCHANGED <<pc, events, pinsert, pLastSent>>
      BY <2>3 DEF Mitigate, MitigateEnd, eventVars
    <3>2. tickOfLastCall' \in Nat BY <3>1, CallDueType
    <3>3. QED BY <3>1, <3>2 DEF CallDue
  <2>4. CASE CallFunction
    <3>1. CallDue /\ pc' = "function" /\ UNCHANGED <<events, pinsert, pLastSent>>
      BY <2>4 DEF CallFunction, eventVars
    <3>2. tickOfLastCall' \in Nat BY <3>1, CallDueType
    <3>3. QED BY <3>1, <3>2 DEF CallDue
  <2>5. CASE SigWunschSetzenSig
    <3>1. PICK sg \in Sg, color \in {"go", "stop", "other"}, ahead \in Ahead :
            /\ events' = [events EXCEPT ![Slot(sg)] = Event(sg, color, ahead)]
            /\ pinsert' = IF Slot(sg) = pinsert + 1 THEN pinsert + 1 ELSE pinsert
      BY <2>5 DEF SigWunschSetzenSig
    <3>2. /\ Slot(sg) \in 1 .. pinsert + 1 /\ Slot(sg) \in 1..MaxEvents
          /\ Slot(sg) # pinsert + 1 => events[Slot(sg)].sg = sg
          /\ Slot(sg) = pinsert + 1 => \A i \in 1..pinsert : events[i].sg # sg
      BY <2>5, SlotType DEF SigWunschSetzenSig
    <3>3. Event(sg, color, ahead).sg = sg BY DEF Event
    <3>4. \A i \in 1..MaxEvents :
            events'[i].sg = IF i = Slot(sg) THEN sg ELSE events[i].sg
      BY <3>1, <3>3 DEF TypeOK
    <3>5. pinsert' \in 1..MaxEvents
      BY <2>n, <2>5, <3>1, <3>2, AwpAssumption DEF SigWunschSetzenSig, TypeOK
    <3> HIDE DEF Slot
    <3>6. Distinct(pinsert)'
      <4>1. CASE Slot(sg) = pinsert + 1
        BY <2>n, <3>1, <3>2, <3>4, <3>5, <4>1
      <4>2. CASE Slot(sg) # pinsert + 1
        BY <2>n, <3>1, <3>2, <3>4, <3>5, <4>2
      <4>3. QED BY <4>1, <4>2
    <3>7. UNCHANGED <<pc, tickOfLastCall, pLastSent>> /\ pc \in {"init", "function"}
      BY <2>5 DEF SigWunschSetzenSig, callVars
    <3>8. QED BY <3>5, <3>6, <3>7
  <2>6. CASE FunctionReturns
    <3>1. ~(tickOfLastCall < 0) BY <2>6 DEF FunctionReturns, TypeOK
    <3>2. QED BY <2>6, <2>n, <3>1 DEF FunctionReturns, callVars
  <2>7. QED BY <2>1, <2>2, <2>3, <2>4, <2>5, <2>6 DEF Next
<1>3. ArrayInv => OneEventPerSg BY DEF ArrayInv, Distinct, OneEventPerSg
<1>4. QED BY <1>1, <1>2, <1>3, InitTypes, StepTypes, PTL DEF Spec
=============================================================================
