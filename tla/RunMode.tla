------------------------------ MODULE RunMode ------------------------------
(***************************************************************************)
(* The run mode of the traffic actuation (TA): the firmware requests one,  *)
(* the TA responds with one, and after each TA call TacKernel reports the  *)
(* response with settaactualstatus_8.  The process leaves svc_run when the *)
(* TA is neither requested nor responded to be on, or a signal stopped the *)
(* HTTP thread.                                                            *)
(*                                                                         *)
(* A run mode is the set of modifications that are on (MOD_TARM_...).  A   *)
(* ModOnOffHelper is a function from the modifications it lists to their   *)
(* values; system job ids are left out.                                    *)
(***************************************************************************)
EXTENDS Naturals, FiniteSets

CONSTANTS
  Requests,   \* requests the firmware may send: functions to RMS values
  TAs,        \* the TA programs considered, see ta
  PageModes,  \* run modes chosen on the test page
  SetDelay    \* taRunmodeSetDelay of the demo TA

Mod == {"ModTD", "ModTDIndividual", "ModPublicTransport"}

RMS  == {"RMS_NONE", "RMS_OFF", "RMS_ON"}
MOOS == {"MOOS_NONE", "MOOS_OFF", "MOOS_ON"}
Helper == UNION {[D -> MOOS] : D \in SUBSET Mod}

TARM_OFF     == {}
TARM_REDUCED == {"ModTD"}
TARM_IT      == {"ModTD", "ModTDIndividual"}
TARM_PT      == {"ModTD", "ModPublicTransport"}
TARM_FULLY   == Mod
TaRunmode    == {TARM_OFF, TARM_REDUCED, TARM_IT, TARM_PT, TARM_FULLY}

ASSUME RunModeAssumption ==
  /\ Requests \subseteq UNION {[D -> RMS] : D \in SUBSET Mod}
  /\ TAs \subseteq {"any", "modified", "demo", "page"}
  /\ PageModes \subseteq TaRunmode
  /\ SetDelay \in Nat

VARIABLES
  ta,               \* the TA program that runs, "page": the test page responds
  allListed,        \* has every request listed all modifications?
  received,         \* the status messages received so far
  requestedStatus,  \* modState of the last requested status
  actualStatus,     \* modifications of the last actual status
  response,         \* _response: what the TA wants reported
  actual,           \* _actual: what the firmware is taken to know
  inflight,         \* the report under way
  accepted,         \* the last report the firmware confirmed
  told,             \* how the last checkSend ended
  fwStatus,         \* the modifications as the firmware has them
  pc,               \* of the main thread
  stopped,          \* EvHttpServer::stopped
  ncalls,           \* calls of the demo TA, up to SetDelay + 1
  lastSetRunmode    \* of the demo TA

statusVars == <<ta, allListed, received, requestedStatus, actualStatus>>
sendVars   == <<actual, inflight, accepted, told, fwStatus>>
demoVars   == <<ncalls, lastSetRunmode>>
vars == <<statusVars, response, sendVars, pc, stopped, demoVars>>

Nothing == [m \in {} |-> "MOOS_NONE"]

Init ==
  /\ ta \in TAs
  /\ allListed = TRUE
  /\ received = {}
  /\ requestedStatus = Nothing /\ actualStatus = Nothing
  /\ response = Nothing /\ actual = Nothing /\ inflight = Nothing
  /\ accepted = Nothing /\ told = "nothing"
  /\ fwStatus = [m \in Mod |-> "MOOS_OFF"]
  /\ pc = "waiting"
  /\ stopped = FALSE
  /\ ncalls = 0 /\ lastSetRunmode = TARM_OFF

-----------------------------------------------------------------------------
(* Reading the status messages.                                            *)

\* mutant: the requested value is taken over as it is
ToModOnOffState_Cast(rsm) == rsm

ToModOnOffState(rsm) ==
  CASE rsm = "RMS_OFF" -> "MOOS_OFF"
    [] rsm = "RMS_ON"  -> "MOOS_ON"
    [] OTHER           -> "MOOS_NONE"

\* The run mode a firmware status stands for; a missing one counts as off.
ActualTaRunmode(status) ==
  LET is(m, v) == IF m \in DOMAIN status THEN status[m] = v ELSE v = "MOOS_OFF"
      iv(v) == is("ModTDIndividual", v)
      pt(v) == is("ModPublicTransport", v)
  IN  CASE is("ModTD", "MOOS_OFF")           -> TARM_OFF
        [] iv("MOOS_OFF") /\ pt("MOOS_OFF")  -> TARM_REDUCED
        [] iv("MOOS_ON")  /\ pt("MOOS_OFF")  -> TARM_IT
        [] iv("MOOS_OFF") /\ pt("MOOS_ON")   -> TARM_PT
        [] OTHER                             -> TARM_FULLY

\* getRequestTaRunmode follows the pointers getMod returns without a check.
RequestReadable ==
  /\ "ModTD" \in DOMAIN requestedStatus
  /\ \/ requestedStatus["ModTD"] = "RMS_OFF"
     \/ /\ "ModTDIndividual" \in DOMAIN requestedStatus
        /\ \/ requestedStatus["ModTDIndividual"] = "RMS_NONE"
           \/ "ModPublicTransport" \in DOMAIN requestedStatus

RequestTaRunmode ==
  ActualTaRunmode([m \in DOMAIN requestedStatus |->
                     ToModOnOffState(requestedStatus[m])])

\* TA-off via TA-reduced
ModifiedRequestTaRunmode ==
  IF /\ RequestTaRunmode = TARM_OFF
     /\ ActualTaRunmode(actualStatus) \in {TARM_FULLY, TARM_IT, TARM_PT}
  THEN TARM_REDUCED ELSE RequestTaRunmode

IsTaOnRequested ==
  "ModTD" \in DOMAIN requestedStatus /\ requestedStatus["ModTD"] = "RMS_ON"

IsTaOn(helper) == "ModTD" \in DOMAIN helper => helper["ModTD"] = "MOOS_ON"

\* ModOnOffHelper(mode, force): only what the firmware requests is listed
SetPtItTa(mode, force) ==
  [m \in DOMAIN requestedStatus |->
     IF m \notin mode THEN "MOOS_OFF"
     ELSE IF force    THEN "MOOS_ON"
     ELSE ToModOnOffState(requestedStatus[m])]

\* operator==: compares each value with itself, and full lists are unequal
Same(a, b) == DOMAIN a = DOMAIN b /\ Cardinality(DOMAIN a) < 3

-----------------------------------------------------------------------------
(* Status messages from the firmware, handled between two TA calls.        *)

requestedstatus_8_svc ==
  /\ pc \in {"waiting", "idle"}
  /\ requestedStatus' \in Requests
  /\ allListed' = (allListed /\ DOMAIN requestedStatus' = Mod)
  /\ received' = received \cup {"requested"}
  /\ UNCHANGED <<ta, actualStatus, response, sendVars, pc, stopped, demoVars>>

\* the firmware reports its state some time after it changed
actualstatus_8_svc ==
  /\ pc \in {"waiting", "idle"}
  /\ actualStatus' = fwStatus
  /\ received' = received \cup {"actual"}
  /\ UNCHANGED <<ta, allListed, requestedStatus, response, sendVars, pc, stopped,
                 demoVars>>

\* onAwpInitCalled, once isReady4Init: not forced, so it mirrors the request
AwpInit ==
  /\ pc = "waiting"
  /\ received = {"requested", "actual"}
  /\ response' = SetPtItTa(TARM_FULLY, FALSE)
  /\ pc' = "idle"
  /\ UNCHANGED <<statusVars, sendVars, stopped, demoVars>>

-----------------------------------------------------------------------------
(* The TA function, called in each interval.                               *)

Respond(rm) == response' = SetPtItTa(rm, TRUE)

TaCrashes ==
  /\ pc = "idle" /\ ta \in {"modified", "demo"}
  /\ ~RequestReadable
  /\ pc' = "undefined"
  /\ UNCHANGED <<statusVars, response, sendVars, stopped, demoVars>>

\* a TA that sets the run mode whenever and to whatever it likes, or never
TaAny ==
  /\ pc = "idle" /\ ta \in {"any", "page"}
  /\ \/ UNCHANGED response
     \/ ta = "any" /\ \E rm \in TaRunmode : Respond(rm)
  /\ pc' = "called"
  /\ UNCHANGED <<statusVars, sendVars, stopped, demoVars>>

\* a TA that responds what tacGetModifiedRequestTaRunmode returns
TaModified ==
  /\ pc = "idle" /\ ta = "modified"
  /\ RequestReadable
  /\ Respond(ModifiedRequestTaRunmode)
  /\ pc' = "called"
  /\ UNCHANGED <<statusVars, sendVars, stopped, demoVars>>

\* the demo TA of TA_main.cpp
dummyFunction ==
  /\ pc = "idle" /\ ta = "demo"
  /\ RequestReadable
  /\ ncalls' = IF ncalls > SetDelay THEN ncalls ELSE ncalls + 1
  /\ IF ncalls' > SetDelay /\ RequestTaRunmode # lastSetRunmode
     THEN /\ Respond(RequestTaRunmode)
          /\ lastSetRunmode' = RequestTaRunmode
     ELSE UNCHANGED <<response, lastSetRunmode>>
  /\ pc' = "called"
  /\ UNCHANGED <<statusVars, sendVars, stopped>>

\* the test page of the HTTP thread
HttpSetResponse ==
  /\ ta = "page" /\ "requested" \in received
  /\ pc \notin {"exited", "undefined"}
  /\ \E rm \in PageModes : Respond(rm)
  /\ UNCHANGED <<statusVars, sendVars, pc, stopped, demoVars>>

\* SIGINT or SIGTERM ends the dispatch loop of the HTTP thread
Stop ==
  /\ ~stopped /\ pc \notin {"exited", "undefined"}
  /\ stopped' = TRUE
  /\ UNCHANGED <<statusVars, response, sendVars, pc, demoVars>>

-----------------------------------------------------------------------------
(* checkSend, after the TA call and once more before the process ends.     *)

Sending == [called |-> "sending", leaving |-> "sendingLast"]
After   == [called |-> "decide",  leaving |-> "exited",
            sending |-> "decide", sendingLast |-> "exited"]

\* mutant: an unchanged length counts as unchanged
CheckSend_ByLength ==
  /\ pc \in {"called", "leaving"}
  /\ IF DOMAIN actual = DOMAIN response
     THEN /\ told' = "unchanged"
          /\ pc' = After[pc]
          /\ UNCHANGED inflight
     ELSE /\ \/ inflight' = response /\ pc' = Sending[pc]
             \/ UNCHANGED inflight /\ pc' = "undefined"
          /\ UNCHANGED told
  /\ UNCHANGED <<statusVars, response, actual, accepted, fwStatus, stopped,
                 demoVars>>

\* the client the report is sent with is used unchecked, also if none could
\* be created
CheckSend ==
  /\ pc \in {"called", "leaving"}
  /\ IF Same(actual, response)
     THEN /\ told' = "unchanged"
          /\ pc' = After[pc]
          /\ UNCHANGED inflight
     ELSE /\ \/ inflight' = response /\ pc' = Sending[pc]
             \/ UNCHANGED inflight /\ pc' = "undefined"
          /\ UNCHANGED told
  /\ UNCHANGED <<statusVars, response, actual, accepted, fwStatus, stopped,
                 demoVars>>

Applied == [m \in Mod |-> IF m \in DOMAIN inflight THEN inflight[m]
                                                   ELSE fwStatus[m]]

\* RPC_SUCCESS and RC_OK; what is stored is _response, read again
ReplyOk ==
  /\ pc \in {"sending", "sendingLast"}
  /\ fwStatus' = Applied
  /\ actual' = response
  /\ accepted' = inflight
  /\ told' = "ok"
  /\ inflight' = Nothing
  /\ pc' = After[pc]
  /\ UNCHANGED <<statusVars, response, stopped, demoVars>>

\* mutant: the response is stored whatever the call returned
ReplyFails_Stores ==
  /\ pc \in {"sending", "sendingLast"}
  /\ fwStatus' \in {fwStatus, Applied}
  /\ actual' = response
  /\ told' = "failed"
  /\ inflight' = Nothing
  /\ pc' = After[pc]
  /\ UNCHANGED <<statusVars, response, accepted, stopped, demoVars>>

\* the request, or only its answer, was lost, or it was refused
ReplyFails ==
  /\ pc \in {"sending", "sendingLast"}
  /\ fwStatus' \in {fwStatus, Applied}
  /\ told' = "failed"
  /\ inflight' = Nothing
  /\ pc' = After[pc]
  /\ UNCHANGED <<statusVars, response, actual, accepted, stopped, demoVars>>

\* mutant: the process ends without setting the response
Decide_Silent ==
  /\ pc = "decide"
  /\ pc' = IF stopped \/ ~(IsTaOnRequested \/ IsTaOn(response))
           THEN "leaving" ELSE "idle"
  /\ UNCHANGED <<statusVars, response, sendVars, stopped, demoVars>>

\* mutant: the response alone ends the process
Decide_ResponseOnly ==
  /\ pc = "decide"
  /\ IF stopped \/ ~IsTaOn(response)
     THEN response' = SetPtItTa(TARM_OFF, FALSE) /\ pc' = "leaving"
     ELSE UNCHANGED response /\ pc' = "idle"
  /\ UNCHANGED <<statusVars, sendVars, stopped, demoVars>>

\* the end of onSignalIndication
Decide ==
  /\ pc = "decide"
  /\ IF stopped \/ ~(IsTaOnRequested \/ IsTaOn(response))
     THEN response' = SetPtItTa(TARM_OFF, FALSE) /\ pc' = "leaving"
     ELSE UNCHANGED response /\ pc' = "idle"
  /\ UNCHANGED <<statusVars, sendVars, stopped, demoVars>>

-----------------------------------------------------------------------------
TaFunction == TaAny \/ TaModified \/ dummyFunction

Next ==
  \/ requestedstatus_8_svc \/ actualstatus_8_svc
  \/ AwpInit \/ TaFunction \/ TaCrashes
  \/ CheckSend \/ ReplyOk \/ ReplyFails \/ Decide
  \/ HttpSetResponse \/ Stop

Spec == Init /\ [][Next]_vars

(* The RPC ends by its timeout and, if tried again and again, succeeds;    *)
(* the firmware reports its state, and svc_run takes the report from the   *)
(* socket between two TA calls.  That the TA is called is not assumed:     *)
(* onSignalIndication returns before while it mitigates.                   *)
Fairness ==
  /\ SF_vars(actualstatus_8_svc)
  /\ WF_vars(AwpInit)
  /\ WF_vars(CheckSend) /\ WF_vars(Decide)
  /\ WF_vars(ReplyOk \/ ReplyFails) /\ SF_vars(ReplyOk)

FairSpec == Spec /\ Fairness

-----------------------------------------------------------------------------
PCs == {"waiting", "idle", "called", "sending", "decide", "leaving",
        "sendingLast", "exited", "undefined"}

(* Types of all variables.                                                 *)
TypeOK ==
  /\ ta \in TAs /\ allListed \in BOOLEAN
  /\ received \subseteq {"requested", "actual"}
  /\ requestedStatus \in Requests \cup {Nothing}
  /\ actualStatus \in Helper /\ response \in Helper
  /\ actual \in Helper /\ inflight \in Helper /\ accepted \in Helper
  /\ told \in {"nothing", "ok", "failed", "unchanged"}
  /\ fwStatus \in [Mod -> MOOS]
  /\ pc \in PCs
  /\ stopped \in BOOLEAN
  /\ ncalls \in 0..(SetDelay + 1)
  /\ lastSetRunmode \in TaRunmode

(* _actual is the last report the firmware has confirmed                   *)
(* (modonoffhelper.h:69), whatever is lost and whenever the TA responds.   *)
(* The test page may respond while a report is under way.                  *)
KnownByFirmware == ta # "page" => actual = accepted

(* The process never ends behind the firmware's back: the TA is off there, *)
(* or the last report failed (AwpWrapper::onSignalIndication).             *)
ExitTold ==
  pc = "exited" /\ ta # "page" /\ allListed
    => told = "failed" \/ fwStatus["ModTD"] = "MOOS_OFF"

(* A TA the firmware wants on is not ended by what the TA or the test page *)
(* responds, only by a signal (isTaOnRequestedOrResponded).                *)
EndsOnlyUnrequested ==
  pc = "exited" => stopped \/ ~IsTaOnRequested

\* neither mitigation nor a missing signal indication keeps the TA from
\* being called for ever
TaIsCalled == WF_vars(TaFunction)

(* What the TA responds reaches the firmware, whatever calls are lost, if  *)
(* the TA is called and the requests list all modifications; unless the    *)
(* process ends before, or sends without a client (ModOnOffHelper::send).  *)
Agrees == \A m \in DOMAIN response : fwStatus[m] = response[m]
ResponseArrives ==
  TaIsCalled =>
    (~Agrees ~> \/ Agrees \/ pc \in {"exited", "undefined"}
                \/ ~allListed \/ ta = "page")

(* If the firmware requests OFF and keeps to it, the process of a TA that  *)
(* follows the modified request and is called ends, be it without a client *)
(* to report with.                                                         *)
OffRequested ==
  "ModTD" \in DOMAIN requestedStatus /\ requestedStatus["ModTD"] = "RMS_OFF"
OffHonoured ==
  TaIsCalled =>
    (OffRequested /\ ta = "modified"
       ~> ~OffRequested \/ pc \in {"exited", "undefined"})
=============================================================================
