----------------------------- MODULE AwpWrapper -----------------------------
(***************************************************************************)
(* class AwpWrapper (start/awpWrapper.cpp): the firmware sends signal      *)
(* indications, the wrapper calls the TA function once per interval, keeps *)
(* the switching events the TA wishes and sends them when the function has *)
(* returned.  If the events sent last are not realized it mitigates: the   *)
(* TA is not called, and the cycle time counter TX of the firmware is set  *)
(* back until it reaches the TX the TA has to process next.                *)
(*                                                                         *)
(* Ticks are small numbers; the signal program, its cycle time and the     *)
(* partial intersections that are on do not change.  The run mode and the  *)
(* end of the process are in RunMode, state messages in StateMessage.      *)
(***************************************************************************)
EXTENDS Integers, FiniteSets

CONSTANTS
  Sg,                   \* configured signal groups
  TaCallIntervallMs,    \* the system pulse, in ticks
  CycleTime,            \* of the signal program, in ticks
  ValidDuration,        \* SWITCHING_EVENT_DEFAULT_VALID_DURATION
  MaxEvents,            \* length of the array sgSwitchingEvents
  Offsets,              \* values the page gives TaCallOffsetMs
  Ahead,                \* pulses after the next one an event is set for
  MitigateSettings,     \* values the page gives isMitigate
  Steps,                \* ticks between two signal indications
  TickBound             \* bound on the ticks

ASSUME AwpAssumption ==
  /\ TaCallIntervallMs \in Nat \ {0}
  /\ CycleTime \in Nat \ {0} /\ ValidDuration \in Nat
  /\ MaxEvents \in Nat \ {0}
  /\ Offsets \subseteq Int
  /\ Ahead \subseteq Nat
  /\ MitigateSettings \subseteq BOOLEAN
  /\ Steps \subseteq Nat \ {0}
  /\ TickBound \in Nat

VARIABLES
  baseTicktime, tx,     \* of the last signal indications
  fwTx,                 \* TX the firmware was told to set, and when
  pc,                   \* which function of the TA runs
  tickOfLastCall,       \* -1 until AWP_Init was called
  nextTakeEffectTick,
  nextPlannedCall,
  TaCallOffsetMs,
  events,               \* the array sgSwitchingEvents
  pinsert, pLastSent,   \* how many of them are stored, were sent last
  isMitigate,
  txMitigate,           \* the TX to be processed next by the TA, or -1
  txTaLastCalled,       \* the TX the TA has processed last, or -1
  early,                \* history: is a call planned with a negative offset?
  overtaken             \* history: was the TA called, mitigation switched
                        \* off, while txMitigate was set?

fwVars    == <<baseTicktime, tx, fwTx>>
callVars  == <<tickOfLastCall, nextTakeEffectTick, nextPlannedCall>>
eventVars == <<events, pinsert, pLastSent>>
mitiVars  == <<txMitigate, txTaLastCalled>>
pageVars  == <<TaCallOffsetMs, isMitigate>>
vars == <<fwVars, pc, callVars, eventVars, mitiVars, pageVars, early, overtaken>>

\* ahead, which is history: how many pulses after the next it was set for
NoEvent == [sg |-> 0, color |-> "other", start |-> 0, valid |-> 0, ahead |-> 0]
NotSet  == [tx |-> -1, at |-> -1]

Init ==
  /\ baseTicktime \in 0 .. TaCallIntervallMs - 1
  /\ tx \in 0 .. CycleTime - 1
  /\ fwTx = NotSet
  /\ pc = "idle"
  /\ tickOfLastCall = -1 /\ nextTakeEffectTick = 0 /\ nextPlannedCall = -1
  /\ TaCallOffsetMs = 0
  /\ events = [i \in 1..MaxEvents |-> NoEvent]
  /\ pinsert = 0 /\ pLastSent = 0
  /\ isMitigate \in BOOLEAN    \* withMitigation, from the command line
  /\ txMitigate = -1 /\ txTaLastCalled = -1
  /\ early = FALSE /\ overtaken = FALSE

-----------------------------------------------------------------------------
(* Ticks.                                                                  *)

\* C's remainder has the sign of the dividend
RoundDown(t) == IF t >= 0 THEN t - (t % TaCallIntervallMs)
                ELSE t + ((-t) % TaCallIntervallMs)

\* getTickOfNextTakeEffect, for the call at t
NextTakeEffect(t) == RoundDown(t) + TaCallIntervallMs

\* mutant: the call is planned for the pulse that is running
NextCall_ThisPulse(t) == RoundDown(t) + TaCallOffsetMs

\* getTickOfNextCall
NextCall(t) == RoundDown(t) + TaCallIntervallMs + TaCallOffsetMs

\* mutant: the end of the cycle is not minded
NextProbableTx_NoCycle(t) == t + TaCallIntervallMs

\* getNextProbableTxMs
NextProbableTx(t) == (t + TaCallIntervallMs) % CycleTime

Abs(n) == IF n < 0 THEN -n ELSE n

-----------------------------------------------------------------------------
(* The firmware.  It shows what it likes: colors "go" and "stop" stand for *)
(* green and red with their transitions, "other" for a signal group it     *)
(* does not show, or whose partial intersection is off.                    *)

Shown == [Sg -> {"go", "stop", "other"}]

\* d ticks later TX has moved on, from where it was told to if that is due
TxAfter(d) ==
  IF fwTx # NotSet /\ fwTx.at <= baseTicktime + d
  THEN (fwTx.tx + baseTicktime + d - fwTx.at) % CycleTime
  ELSE (tx + d) % CycleTime

Advance(d) ==
  /\ baseTicktime + d <= TickBound
  /\ baseTicktime' = baseTicktime + d
  /\ tx' = TxAfter(d)

FwKeeps == IF fwTx.at <= baseTicktime' THEN NotSet ELSE fwTx

-----------------------------------------------------------------------------
(* onSignalIndication up to the TA function.                               *)

\* isLastSiSwitched, on the events sent last
Opposed(color, shown) == {color, shown} = {"go", "stop"}

LastSiSwitched(shown) ==
  \A i \in 1..pLastSent :
    LET e == events[i]
    IN  \/ e.valid = 0
        \/ e.start + e.valid <= baseTicktime'
        \/ ~Opposed(e.color, shown[e.sg])

\* setTx: the firmware takes it over, or the call fails
SetTx(t) ==
  \/ fwTx' = [tx |-> t, at |-> nextTakeEffectTick']
  \/ fwTx' = FwKeeps

\* isReady4Init: AWP_Init is called
CallInit ==
  /\ pc = "idle" /\ tickOfLastCall < 0
  /\ \E d \in Steps : Advance(d)
  /\ fwTx' = FwKeeps
  /\ pc' = "init"
  /\ UNCHANGED <<callVars, eventVars, mitiVars, pageVars, early, overtaken>>

\* AWP_Init has returned: the last call is faked, onAwpInitCalled
InitReturns ==
  /\ pc = "init"
  /\ nextPlannedCall' = NextCall(baseTicktime)
  /\ tickOfLastCall' = nextPlannedCall' - TaCallIntervallMs
  /\ nextTakeEffectTick' = NextTakeEffect(tickOfLastCall')
  /\ pc' = "idle"
  /\ UNCHANGED <<fwVars, eventVars, mitiVars, pageVars, early, overtaken>>

\* signal indications before the planned tick, or before isReady4Init
NoCall ==
  /\ pc = "idle"
  /\ \E d \in Steps : Advance(d)
  /\ tickOfLastCall < 0 \/ baseTicktime' < nextPlannedCall
  /\ fwTx' = FwKeeps
  /\ UNCHANGED <<pc, callVars, eventVars, mitiVars, pageVars, early, overtaken>>

\* the planned tick has come, or has slipped
CallDue ==
  /\ pc = "idle" /\ tickOfLastCall >= 0
  /\ \E d \in Steps : Advance(d)
  /\ baseTicktime' >= nextPlannedCall
  /\ tickOfLastCall' = baseTicktime'
  /\ nextTakeEffectTick' = NextTakeEffect(baseTicktime')
  /\ nextPlannedCall' = NextCall(baseTicktime')
  /\ early' = (TaCallOffsetMs < 0)

\* mutant: a mitigation starts at the TX of this signal indication
Mitigate_AtSi ==
  /\ CallDue
  /\ isMitigate
  /\ \E shown \in Shown : ~LastSiSwitched(shown)
  /\ txMitigate' = IF txMitigate < 0 THEN RoundDown(tx') ELSE txMitigate
  /\ SetTx(txMitigate')
  /\ UNCHANGED <<pc, eventVars, txTaLastCalled, pageVars, overtaken>>

\* the events are not realized: start or go on mitigating
Mitigate ==
  /\ CallDue
  /\ isMitigate
  /\ \E shown \in Shown : ~LastSiSwitched(shown)
  /\ txMitigate' = IF txMitigate < 0
                   THEN RoundDown(NextProbableTx(txTaLastCalled))
                   ELSE txMitigate
  /\ SetTx(txMitigate')
  /\ UNCHANGED <<pc, eventVars, txTaLastCalled, pageVars, overtaken>>

\* they are, but TX has not reached the value set
MitigateEnd ==
  /\ CallDue
  /\ isMitigate /\ txMitigate >= 0
  /\ \E shown \in Shown : LastSiSwitched(shown)
  /\ Abs(tx' - txMitigate) >= TaCallIntervallMs
  /\ SetTx(txMitigate)
  /\ UNCHANGED <<pc, eventVars, mitiVars, pageVars, overtaken>>

\* mutant: the mitigation is not ended
CallFunction_KeepsTx ==
  /\ CallDue
  /\ \/ ~isMitigate
     \/ /\ \E shown \in Shown : LastSiSwitched(shown)
        /\ txMitigate >= 0 => Abs(tx' - txMitigate) < TaCallIntervallMs
  /\ txTaLastCalled' = tx'
  /\ fwTx' = FwKeeps
  /\ pc' = "function"
  /\ UNCHANGED <<eventVars, txMitigate, pageVars, overtaken>>

\* the TA function is called
CallFunction ==
  /\ CallDue
  /\ \/ /\ ~isMitigate /\ UNCHANGED txMitigate
        /\ overtaken' = (txMitigate >= 0)
     \/ /\ isMitigate
        /\ \E shown \in Shown : LastSiSwitched(shown)
        /\ txMitigate >= 0 => Abs(tx' - txMitigate) < TaCallIntervallMs
        /\ txMitigate' = -1 /\ overtaken' = FALSE
  /\ txTaLastCalled' = tx'
  /\ fwTx' = FwKeeps
  /\ pc' = "function"
  /\ UNCHANGED <<eventVars, pageVars>>

-----------------------------------------------------------------------------
(* The TA.                                                                 *)

Event(sg, color, ahead) ==
  [sg |-> sg, color |-> color,
   start |-> nextTakeEffectTick + ahead * TaCallIntervallMs,
   valid |-> IF color = "other" THEN 0 ELSE ValidDuration,
   ahead |-> ahead]

\* mutant: the entry of the signal group is not looked up
Slot_Append(sg) == pinsert + 1

\* where the event of a signal group is stored
Slot(sg) ==
  LET found == {i \in 1..pinsert : events[i].sg = sg}
  IN  IF found = {} THEN pinsert + 1 ELSE CHOOSE i \in found : TRUE

\* SigWunschSetzenSig, SigWunschSetzenSigAtTick; color "other" stands for
\* AL_AI_SGS_SIG_UNVERAENDERT; a full array refuses the wish
SigWunschSetzenSig ==
  /\ pc \in {"init", "function"}
  /\ pinsert < MaxEvents
  /\ \E sg \in Sg :
       /\ \E color \in {"go", "stop", "other"}, ahead \in Ahead :
            events' = [events EXCEPT ![Slot(sg)] = Event(sg, color, ahead)]
       /\ pinsert' = IF Slot(sg) = pinsert + 1 THEN pinsert + 1 ELSE pinsert
  /\ UNCHANGED <<fwVars, pc, callVars, pLastSent, mitiVars, pageVars, early,
                 overtaken>>

\* onAwpFunctionCalled: what is stored is sent, and forgotten however the
\* call to the firmware ended; without new events the last ones stay
FunctionReturns ==
  /\ pc = "function"
  /\ IF pinsert > 0 THEN pLastSent' = pinsert ELSE UNCHANGED pLastSent
  /\ pinsert' = 0
  /\ pc' = "idle"
  /\ UNCHANGED <<fwVars, callVars, events, mitiVars, pageVars, early, overtaken>>

-----------------------------------------------------------------------------
(* The page /AwpWrapper/Settings of the HTTP thread, added with AWP_Init.  *)

\* any number, also a negative one
SetOffset ==
  /\ tickOfLastCall >= 0
  /\ TaCallOffsetMs' \in Offsets
  /\ UNCHANGED <<fwVars, pc, callVars, eventVars, mitiVars, isMitigate, early,
                 overtaken>>

\* testSecondSlip
Slip ==
  /\ tickOfLastCall >= 0 /\ nextPlannedCall <= TickBound
  /\ nextPlannedCall' = NextCall(nextPlannedCall)
  /\ early' = (early \/ TaCallOffsetMs < 0)
  /\ UNCHANGED <<fwVars, pc, tickOfLastCall, nextTakeEffectTick, eventVars,
                 mitiVars, pageVars, overtaken>>

SetMitigate ==
  /\ tickOfLastCall >= 0
  /\ isMitigate' \in MitigateSettings
  /\ UNCHANGED <<fwVars, pc, callVars, eventVars, mitiVars, TaCallOffsetMs,
                 early, overtaken>>

-----------------------------------------------------------------------------
Next ==
  \/ CallInit \/ InitReturns \/ NoCall
  \/ Mitigate \/ MitigateEnd \/ CallFunction
  \/ SigWunschSetzenSig \/ FunctionReturns
  \/ SetOffset \/ Slip \/ SetMitigate

Spec == Init /\ [][Next]_vars

-----------------------------------------------------------------------------
(* Types of all variables.                                                 *)
TypeOK ==
  /\ baseTicktime \in Nat /\ tx \in 0 .. CycleTime - 1
  /\ fwTx \in [tx : -1 .. CycleTime - 1, at : Nat \cup {-1}]
  /\ pc \in {"idle", "init", "function"}
  /\ tickOfLastCall \in Nat \cup {-1}
  /\ nextTakeEffectTick \in Nat
  /\ nextPlannedCall \in Int /\ TaCallOffsetMs \in Int
  /\ events \in [1..MaxEvents ->
                   [sg : Sg \cup {0}, color : {"go", "stop", "other"},
                    start : Nat, valid : {0, ValidDuration}, ahead : Nat]]
  /\ pinsert \in 0..MaxEvents /\ pLastSent \in 0..MaxEvents
  /\ isMitigate \in BOOLEAN
  /\ txMitigate \in -1 .. CycleTime - 1
  /\ txTaLastCalled \in -1 .. CycleTime - 1
  /\ early \in BOOLEAN /\ overtaken \in BOOLEAN

(* No two calls of the TA compute for the same second, whatever slips and  *)
(* whatever the page changes, but for a negative offset: a call's take     *)
(* effect tick is later than that of the call before                       *)
(* (getTickOfNextTakeEffect, getTickOfNextCall).                           *)
TakeEffectAdvances ==
  [][pc = "idle" /\ pc' = "function" /\ ~early
       => nextTakeEffectTick' > nextTakeEffectTick]_vars

(* The firmware is blamed, and TX set back, only for an event that is due  *)
(* and has not expired, or one the TA has set ahead, whose start is not    *)
(* looked at (isLastSiSwitched).                                           *)
Due(e) == e.start <= baseTicktime /\ baseTicktime < e.start + e.valid
BlamesOnlyDue ==
  [][txMitigate < 0 /\ txMitigate' >= 0 /\ ~early
       => \E i \in 1..pLastSent : events[i].ahead > 0 \/ Due(events[i])']_vars

(* What the TA has to process next after a mitigation is what follows the  *)
(* TX it processed last (txMitigate, awpWrapper.h:61), as long as the page *)
(* has not had the TA called in between by switching mitigation off.       *)
MitigatesToNext ==
  txMitigate >= 0 /\ ~overtaken =>
    /\ txTaLastCalled >= 0
    /\ txMitigate = RoundDown(NextProbableTx(txTaLastCalled))

(* A signal group has one event among those stored, and one among those    *)
(* sent, and a full array is not overrun (SigWunschSetzenSig).             *)
OneEventPerSg ==
  /\ \A i, j \in 1..pinsert : events[i].sg = events[j].sg => i = j
  /\ pc = "idle" =>
       \A i, j \in 1..pLastSent : events[i].sg = events[j].sg => i = j
=============================================================================
