--------------------------- MODULE RunMode_proofs ---------------------------
(***************************************************************************)
(* Theorems about RunMode: type correctness; what TacKernel takes to be    *)
(* known by the firmware is known; and the process neither ends behind the *)
(* firmware's back nor while the TA is wanted.                             *)
(***************************************************************************)
EXTENDS RunMode, FiniteSetTheorems, TLAPS

-----------------------------------------------------------------------------
(* What the operators return.                                              *)

(* A status stands for one of the five run modes (getActualTaRunmode).     *)
LEMMA RunmodeType ==
  ASSUME NEW status PROVE ActualTaRunmode(status) \in TaRunmode
BY DEF ActualTaRunmode, TaRunmode

(* Both requested run modes are run modes (getRequestTaRunmode,            *)
(* tacGetModifiedRequestTaRunmode).                                        *)
LEMMA RequestRunmodeType ==
  /\ RequestTaRunmode \in TaRunmode
  /\ ModifiedRequestTaRunmode \in TaRunmode
<1>1. RequestTaRunmode \in TaRunmode BY RunmodeType DEF RequestTaRunmode
<1>2. TARM_REDUCED \in TaRunmode BY DEF TaRunmode
<1>3. QED BY <1>1, <1>2 DEF ModifiedRequestTaRunmode

(* A response lists what the request lists (ModOnOffHelper::setPtItTa).    *)
LEMMA SetPtItTaType ==
  ASSUME DOMAIN requestedStatus \subseteq Mod, NEW mode, NEW force \in BOOLEAN
  PROVE  /\ SetPtItTa(mode, force) \in Helper
         /\ DOMAIN SetPtItTa(mode, force) = DOMAIN requestedStatus
         /\ \A m \in DOMAIN requestedStatus :
              m \notin mode => SetPtItTa(mode, force)[m] = "MOOS_OFF"
<1>1. \A m \in DOMAIN requestedStatus : ToModOnOffState(requestedStatus[m]) \in MOOS
  BY DEF ToModOnOffState, MOOS
<1>2. SetPtItTa(mode, force) \in [DOMAIN requestedStatus -> MOOS]
  BY <1>1 DEF SetPtItTa, MOOS
<1>3. QED BY <1>2 DEF SetPtItTa, Helper

(* Lists of all three modifications never count as the same                *)
(* (ModOnOffHelper::operator==).                                           *)
LEMMA FullNeverSame ==
  ASSUME NEW a, NEW b, DOMAIN b = Mod PROVE ~Same(a, b)
<1>1. IsFiniteSet({}) /\ Cardinality({}) = 0 BY FS_EmptySet
<1>2. IsFiniteSet({"ModTD"}) /\ Cardinality({"ModTD"}) = 1 BY FS_Singleton
<1> DEFINE two == {"ModTD"} \cup {"ModTDIndividual"}
<1>3. IsFiniteSet(two) /\ Cardinality(two) = 2 BY <1>2, FS_AddElement
<1>4. Mod = two \cup {"ModPublicTransport"} BY DEF Mod
<1>5. "ModPublicTransport" \notin two OBVIOUS
<1> HIDE DEF two
<1>6. Cardinality(Mod) = 3 BY <1>3, <1>4, <1>5, FS_AddElement
<1>7. QED BY <1>6 DEF Same

-----------------------------------------------------------------------------
(* Type correctness.                                                       *)

LEMMA NothingType == Nothing \in Helper /\ DOMAIN Nothing = {}
<1>1. Nothing \in [{} -> MOOS] BY DEF Nothing
<1>2. QED BY <1>1 DEF Helper

LEMMA RequestedDomain ==
  ASSUME TypeOK PROVE DOMAIN requestedStatus \subseteq Mod
BY RunModeAssumption, NothingType DEF TypeOK

LEMMA AppliedType ==
  ASSUME TypeOK PROVE Applied \in [Mod -> MOOS]
<1>1. PICK D \in SUBSET Mod : inflight \in [D -> MOOS] BY DEF TypeOK, Helper
<1>2. QED BY <1>1 DEF Applied, TypeOK

(* Every variable keeps its type.                                          *)
THEOREM TypesAreRight == Spec => []TypeOK
<1>1. Init => TypeOK
  <2> SUFFICES ASSUME Init PROVE TypeOK
    OBVIOUS
  <2>1. fwStatus \in [Mod -> MOOS] BY DEF Init, MOOS
  <2>2. lastSetRunmode \in TaRunmode BY DEF Init, TaRunmode
  <2>3. ncalls \in 0..(SetDelay + 1) BY RunModeAssumption DEF Init
  <2>4. QED BY <2>1, <2>2, <2>3, NothingType DEF Init, TypeOK, PCs
<1>2. TypeOK /\ [Next]_vars => TypeOK'
  <2> SUFFICES ASSUME TypeOK, [Next]_vars PROVE TypeOK'
    OBVIOUS
  <2>r. \A mode : \A force \in BOOLEAN : SetPtItTa(mode, force) \in Helper
    BY RequestedDomain, SetPtItTaType
  <2> USE NothingType DEF TypeOK, PCs
  <2>1. CASE requestedstatus_8_svc
    BY <2>1 DEF requestedstatus_8_svc, sendVars, demoVars
  <2>2. CASE actualstatus_8_svc
    <3>1. fwStatus \in Helper BY DEF Helper
    <3>2. QED BY <2>2, <3>1 DEF actualstatus_8_svc, sendVars, demoVars
  <2>3. CASE AwpInit
    BY <2>3, <2>r DEF AwpInit, statusVars, sendVars, demoVars
  <2>4. CASE TaAny
    BY <2>4, <2>r DEF TaAny, Respond, statusVars, sendVars, demoVars
  <2>5. CASE TaModified
    BY <2>5, <2>r DEF TaModified, Respond, statusVars, sendVars, demoVars
  <2>6. CASE dummyFunction
    <3>1. RequestTaRunmode \in TaRunmode BY RequestRunmodeType
    <3>2. ncalls' \in 0..(SetDelay + 1)
      BY <2>6, RunModeAssumption DEF dummyFunction
    <3>3. response' \in Helper BY <2>6, <2>r DEF dummyFunction, Respond
    <3>4. QED BY <2>6, <3>1, <3>2, <3>3 DEF dummyFunction, statusVars, sendVars
  <2>7. CASE TaCrashes
    BY <2>7 DEF TaCrashes, statusVars, sendVars, demoVars
  <2>8. CASE CheckSend
    BY <2>8 DEF CheckSend, Sending, After, statusVars, demoVars
  <2>9. CASE ReplyOk
    BY <2>9, AppliedType DEF ReplyOk, After, statusVars, demoVars
  <2>10. CASE ReplyFails
    BY <2>10, AppliedType DEF ReplyFails, After, statusVars, demoVars
  <2>11. CASE Decide
    BY <2>11, <2>r DEF Decide, statusVars, sendVars, demoVars
  <2>12. CASE HttpSetResponse
    BY <2>12, <2>r DEF HttpSetResponse, Respond, statusVars, sendVars, demoVars
  <2>13. CASE Stop
    BY <2>13 DEF Stop, statusVars, sendVars, demoVars
  <2>14. CASE UNCHANGED vars
    BY <2>14 DEF vars, statusVars, sendVars, demoVars
  <2>15. QED
    BY <2>1, <2>2, <2>3, <2>4, <2>5, <2>6, <2>7, <2>8, <2>9, <2>10, <2>11,
       <2>12, <2>13, <2>14 DEF Next, TaFunction
<1>3. QED BY <1>1, <1>2, PTL DEF Spec

-----------------------------------------------------------------------------
(* If the test page does not interfere, a report under way is the          *)
(* response, so what is stored after it is what was sent.                  *)
ReportInv ==
  ta # "page" =>
    /\ actual = accepted
    /\ pc \in {"sending", "sendingLast"} => inflight = response

(* If only the TA responds, _actual is the last report the firmware has    *)
(* confirmed, whatever is lost (modonoffhelper.h:69).                      *)
THEOREM ActualIsKnown == Spec => []KnownByFirmware
<1>1. Init => ReportInv BY DEF Init, ReportInv
<1>2. ReportInv /\ [Next]_vars => ReportInv'
  <2> SUFFICES ASSUME ReportInv, [Next]_vars PROVE ReportInv'
    OBVIOUS
  <2> USE DEF ReportInv
  <2>1. CASE requestedstatus_8_svc \/ actualstatus_8_svc
    BY <2>1 DEF requestedstatus_8_svc, actualstatus_8_svc, sendVars, statusVars
  <2>2. CASE AwpInit \/ TaFunction \/ TaCrashes
    BY <2>2 DEF statusVars, AwpInit, TaFunction, TaAny, TaModified, dummyFunction,
                TaCrashes, sendVars
  <2>3. CASE CheckSend BY <2>3 DEF statusVars, CheckSend, Sending, After
  <2>4. CASE ReplyOk \/ ReplyFails
    BY <2>4 DEF statusVars, ReplyOk, ReplyFails, After
  <2>5. CASE Decide BY <2>5 DEF Decide, sendVars, statusVars
  <2>6. CASE HttpSetResponse BY <2>6 DEF HttpSetResponse, statusVars
  <2>7. CASE Stop BY <2>7 DEF Stop, sendVars, statusVars
  <2>8. CASE UNCHANGED vars BY <2>8 DEF vars, sendVars, statusVars
  <2>9. QED
    BY <2>1, <2>2, <2>3, <2>4, <2>5, <2>6, <2>7, <2>8 DEF Next
<1>3. ReportInv => KnownByFirmware BY DEF ReportInv, KnownByFirmware
<1>4. QED BY <1>1, <1>2, <1>3, PTL DEF Spec

-----------------------------------------------------------------------------
(* If every request lists all three modifications, so does the last        *)
(* response, and it says OFF; the last report is then never skipped.       *)
LeavingInv ==
  ta # "page" /\ allListed =>
    /\ pc # "waiting" \/ "requested" \in received => DOMAIN requestedStatus = Mod
    /\ pc = "leaving" => DOMAIN response = Mod /\ response["ModTD"] = "MOOS_OFF"
    /\ pc = "sendingLast" =>
         "ModTD" \in DOMAIN inflight /\ inflight["ModTD"] = "MOOS_OFF"
    /\ pc = "exited" => told = "failed" \/ fwStatus["ModTD"] = "MOOS_OFF"

(* If requests list all modifications and only the TA responds, the        *)
(* process does not end before it has tried to report OFF, and ends with   *)
(* the TA off in the firmware if that report succeeded.                    *)
THEOREM ExitIsTold == Spec => []ExitTold
<1>1. Init => LeavingInv BY DEF Init, LeavingInv
<1>2. LeavingInv /\ TypeOK /\ [Next]_vars => LeavingInv'
  <2> SUFFICES ASSUME LeavingInv, TypeOK, [Next]_vars PROVE LeavingInv'
    OBVIOUS
  <2> SUFFICES ASSUME ta' # "page", allListed' PROVE LeavingInv'
    BY DEF LeavingInv
  <2>p. ta = ta' /\ ta # "page" /\ allListed
    BY DEF Next, TaFunction, vars, statusVars, requestedstatus_8_svc,
       actualstatus_8_svc, AwpInit, TaAny, TaModified, dummyFunction, TaCrashes,
       CheckSend, ReplyOk, ReplyFails, Decide, HttpSetResponse, Stop
  <2> USE <2>p DEF LeavingInv
  <2>t. "ModTD" \in Mod BY DEF Mod
  <2>1. CASE requestedstatus_8_svc
    BY <2>1 DEF requestedstatus_8_svc, sendVars
  <2>2. CASE actualstatus_8_svc
    BY <2>2 DEF actualstatus_8_svc, sendVars
  <2>3. CASE AwpInit
    BY <2>3 DEF AwpInit, statusVars, sendVars
  <2>4. CASE TaFunction \/ TaCrashes
    BY <2>4 DEF TaFunction, TaAny, TaModified, dummyFunction, TaCrashes,
                statusVars, sendVars
  <2>5. CASE CheckSend
    <3>1. CASE pc = "called"
      BY <2>5, <3>1 DEF CheckSend, Sending, After, statusVars
    <3>2. CASE pc = "leaving"
      <4>1. ~Same(actual, response) BY <3>2, FullNeverSame
      <4>2. \/ inflight' = response /\ pc' = "sendingLast"
            \/ pc' = "undefined"
        BY <2>5, <3>2, <4>1 DEF CheckSend, Sending
      <4>3. QED BY <2>5, <2>t, <3>2, <4>2 DEF CheckSend, statusVars
    <3>3. QED BY <2>5, <3>1, <3>2 DEF CheckSend
  <2>6. CASE ReplyOk
    BY <2>6, <2>t DEF ReplyOk, Applied, After, statusVars
  <2>7. CASE ReplyFails
    BY <2>7 DEF ReplyFails, After, statusVars
  <2>8. CASE Decide
    <3>1. CASE pc' = "idle"
      BY <2>8, <3>1 DEF Decide, statusVars, sendVars
    <3>2. CASE pc' = "leaving"
      <4>1. DOMAIN requestedStatus = Mod /\ response' = SetPtItTa(TARM_OFF, FALSE)
        BY <2>8, <3>2 DEF Decide
      <4>2. DOMAIN response' = Mod /\ response'["ModTD"] = "MOOS_OFF"
        BY <4>1, <2>t, SetPtItTaType DEF TARM_OFF
      <4>3. QED BY <2>8, <3>2, <4>2 DEF Decide, statusVars, sendVars
    <3>3. QED BY <2>8, <3>1, <3>2 DEF Decide
  <2>9. CASE HttpSetResponse BY <2>9 DEF HttpSetResponse
  <2>10. CASE Stop BY <2>10 DEF Stop, statusVars, sendVars
  <2>11. CASE UNCHANGED vars BY <2>11 DEF vars, statusVars, sendVars
  <2>12. QED
    BY <2>1, <2>2, <2>3, <2>4, <2>5, <2>6, <2>7, <2>8, <2>9, <2>10, <2>11
    DEF Next
<1>3. LeavingInv => ExitTold BY DEF LeavingInv, ExitTold
<1>4. QED BY <1>1, <1>2, <1>3, TypesAreRight, PTL DEF Spec

-----------------------------------------------------------------------------
(* No request is taken in between the decision to end and the end.         *)
UnrequestedInv ==
  pc \in {"leaving", "sendingLast", "exited"} => stopped \/ ~IsTaOnRequested

(* For every TA, with or without the test page, and whatever the requests  *)
(* list: the process of a TA that is wanted is ended only by a signal.     *)
THEOREM EndsUnrequested == Spec => []EndsOnlyUnrequested
<1>1. Init => UnrequestedInv BY DEF Init, UnrequestedInv
<1>2. UnrequestedInv /\ [Next]_vars => UnrequestedInv'
  <2> SUFFICES ASSUME UnrequestedInv, [Next]_vars PROVE UnrequestedInv'
    OBVIOUS
  <2> USE DEF UnrequestedInv, IsTaOnRequested
  <2>1. CASE requestedstatus_8_svc \/ actualstatus_8_svc
    BY <2>1 DEF requestedstatus_8_svc, actualstatus_8_svc
  <2>2. CASE AwpInit \/ TaFunction \/ TaCrashes
    BY <2>2 DEF AwpInit, TaFunction, TaAny, TaModified, dummyFunction, TaCrashes
  <2>3. CASE CheckSend BY <2>3 DEF CheckSend, Sending, After, statusVars
  <2>4. CASE ReplyOk \/ ReplyFails
    BY <2>4 DEF ReplyOk, ReplyFails, After, statusVars
  <2>5. CASE Decide BY <2>5 DEF Decide, statusVars
  <2>6. CASE HttpSetResponse \/ Stop
    BY <2>6 DEF HttpSetResponse, Stop, statusVars
  <2>7. CASE UNCHANGED vars BY <2>7 DEF vars, statusVars
  <2>8. QED
    BY <2>1, <2>2, <2>3, <2>4, <2>5, <2>6, <2>7 DEF Next
<1>3. UnrequestedInv => EndsOnlyUnrequested
  BY DEF UnrequestedInv, EndsOnlyUnrequested
<1>4. QED BY <1>1, <1>2, <1>3, PTL DEF Spec
=============================================================================
