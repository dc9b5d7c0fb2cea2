----------------------------- MODULE Subscription -----------------------------
(***************************************************************************)
(* class DataReceiver (cctrl/DataReceiver.cpp): the renew thread           *)
(* subscribes at the firmware for the topics it needs, one call each,      *)
(* after it has filled the configuration, and then renews the lease; after *)
(* a failure it starts again.  The firmware forgets the topics when the    *)
(* lease expires or when it restarts.                                      *)
(*                                                                         *)
(* Time is counted in steps of the caller's choice.  What the thread does  *)
(* between its calls takes no time.  What the calls bring is left out (see *)
(* Detectors and Configuration), what follows from their failure is not.   *)
(***************************************************************************)
EXTENDS Integers, Sequences

CONSTANTS
  Lease,           \* LEASE_TIMEOUT_MS
  RenewPeriod,     \* sleep before a renewal
  RetryPause,      \* sleep after a failed subscription
  Timeout,         \* CLSET_TIMEOUT of the client
  ConnectTimeout,  \* time clnt_create may take to fail
  Latency,         \* time an answer may take
  Downtime,        \* time a restart of the firmware takes at least
  Tolerated        \* failed calls in a row that shall not cost the lease

VARIABLES
  caller,    \* the renew thread
  up,        \* does the firmware answer calls?
  down,      \* time it has been down, up to Downtime
  topics,    \* topics the firmware sends
  lease,     \* time until it stops to
  failed,    \* history: failed calls since the thread was content
  held       \* history: has it been content, and since then neither has the
             \* firmware restarted nor a connection failed?

subVars == <<caller, up, down, topics, lease, failed, held>>

(* The calls of DataReceiver::subscribe, and last the renewal.             *)
Topics == {"actualStatus", "requestedStatus", "detRaw", "signalIndications",
           "rideEvent", "archiveEvents"}

Calls ==
  <<"connect", "detectorParams", "detectorInfos", "interGreenTimes",
    "signalGroups", "generalParam", "lampGroups", "lampStates",
    "signalPlans", "register",
    "actualStatus", "requestedStatus", "detRaw", "signalIndications",
    "rideEvent", "archiveEvents", "renew">>

Renewal == Len(Calls)
Last    == Renewal - 1
Kind(n) == Calls[n]

\* the budget for LeaseHeld: the renewal fails, then Tolerated - 1 attempts,
\* and then one gets as far as its first topic
ASSUME SubscriptionAssumption ==
  /\ Lease \in Nat /\ RenewPeriod \in Nat /\ RetryPause \in Nat
  /\ Timeout \in Nat /\ ConnectTimeout \in Nat /\ Downtime \in Nat
  /\ Latency \in 0 .. Timeout /\ Latency < Downtime
  /\ Tolerated \in Nat \ {0}
  /\ RenewPeriod + (Last + 1) * Latency + Timeout
       + (Tolerated - 1) * (Last * Latency + Timeout + RetryPause) < Lease

\* pc "call": about to make call n; "wait": waiting for its outcome
At(pc, n, outcome) == [pc |-> pc, n |-> n, outcome |-> outcome, timer |-> 0]

SubInit ==
  /\ caller = At("call", 1, "none")
  /\ up \in BOOLEAN /\ down = 0
  /\ topics = {} /\ lease = 0
  /\ failed = 0 /\ held = FALSE

-----------------------------------------------------------------------------
(* The firmware executes a call.                                           *)

Execute(n) ==
  /\ up
  /\ topics' = topics \cup ({Kind(n)} \cap Topics)
  /\ lease' = IF Kind(n) \in Topics \/ (Kind(n) = "renew" /\ lease > 0)
              THEN Lease ELSE lease

Wait(n, outcome) ==
  /\ caller.pc = "call" /\ caller.n = n
  /\ caller' = At("wait", n, outcome)
  /\ failed' = IF outcome = "ok" \/ failed > Tolerated THEN failed
               ELSE failed + 1
  /\ held' = (held /\ (outcome = "ok" \/ Kind(n) # "connect"))
  /\ UNCHANGED <<up, down>>

\* a renewal of a lease that has expired is refused
Answered(n) ==
  /\ Kind(n) = "renew" => lease > 0
  /\ Execute(n)
  /\ Wait(n, "ok")

Refused(n) ==
  /\ up
  /\ Wait(n, "error")
  /\ UNCHANGED <<topics, lease>>

\* the call does not arrive, or its answer does not
Lost(n) ==
  /\ Wait(n, "silent")
  /\ Execute(n) \/ UNCHANGED <<topics, lease>>

-----------------------------------------------------------------------------
(* The renew thread goes on.                                               *)

Deadline ==
  CASE caller.pc = "pause" -> RetryPause
    [] caller.pc = "sleep" -> RenewPeriod
    [] caller.pc = "wait" /\ caller.outcome # "silent" -> Latency
    [] caller.pc = "wait" /\ caller.outcome = "silent" ->
         IF Kind(caller.n) = "connect" THEN ConnectTimeout ELSE Timeout
    [] OTHER -> 0

ReturnOk ==
  /\ caller.pc = "wait" /\ caller.outcome = "ok"
  /\ IF caller.n < Last
     THEN /\ caller' = At("call", caller.n + 1, "none")
          /\ UNCHANGED <<failed, held>>
     ELSE /\ caller' = At("sleep", Renewal, "none")
          /\ failed' = 0
          /\ held' = (held \/ (caller.n = Last /\ lease > 0))
  /\ UNCHANGED <<up, down, topics, lease>>

\* mutant: a topic that is refused is skipped
AfterFailure_SkipsTopic(n) ==
  IF Kind(n) = "renew" THEN At("call", 1, "none")
  ELSE IF Kind(n) = "lampStates" \/ (Kind(n) \in Topics /\ n < Last)
  THEN At("call", n + 1, "none")
  ELSE IF Kind(n) \in {"detectorParams", "register"}
  THEN At("undefined", n, "none")
  ELSE At("pause", 1, "none")

\* mutant: the renewal is tried again at its next turn
AfterFailure_RenewsLater(n) ==
  IF Kind(n) = "renew" THEN At("sleep", n, "none")
  ELSE IF Kind(n) = "lampStates" THEN At("call", n + 1, "none")
  ELSE IF Kind(n) \in {"detectorParams", "register"}
  THEN At("undefined", n, "none")
  ELSE At("pause", 1, "none")

\* After a failed renewal the thread subscribes at once, after a failed
\* subscription it pauses.  Without lamp states the filling goes on.
\* Detectors::fill makes its second call without a client if the first has
\* failed; the client that registerAtCctrl destroys is used for the topics.
AfterFailure(n) ==
  IF Kind(n) = "renew" THEN At("call", 1, "none")
  ELSE IF Kind(n) = "lampStates" THEN At("call", n + 1, "none")
  ELSE IF Kind(n) \in {"detectorParams", "register"}
  THEN At("undefined", n, "none")
  ELSE At("pause", 1, "none")

\* An answer CS_CfgError is followed as if it were a list: its return code is
\* the length, and there are no elements.  Only that of the general
\* parameters is looked at, and that of the detectors' parameters.
Unchecked == {"detectorInfos", "interGreenTimes", "signalGroups",
              "lampGroups", "signalPlans"}

AfterError(n) ==
  IF Kind(n) \in Unchecked THEN At("undefined", n, "none")
  ELSE IF Kind(n) = "generalParam" THEN At("call", n + 1, "none")
  ELSE AfterFailure(n)

\* A call without an answer ends when the client's time is up, or before: a
\* port nobody listens at is reported at once.
ReturnFailure ==
  /\ caller.pc = "wait" /\ caller.outcome # "ok"
  /\ \/ caller.outcome = "error" /\ caller' = AfterError(caller.n)
     \/ caller.outcome = "silent" /\ caller' = AfterFailure(caller.n)
  /\ UNCHANGED <<up, down, topics, lease, failed, held>>

WakeUp ==
  /\ caller.pc \in {"pause", "sleep"} /\ caller.timer = Deadline
  /\ caller' = At("call", caller.n, "none")
  /\ UNCHANGED <<up, down, topics, lease, failed, held>>

-----------------------------------------------------------------------------
(* Time, and the firmware's restart.                                       *)

Tick ==
  /\ caller.timer < Deadline
  /\ caller' = [caller EXCEPT !.timer = @ + 1]
  /\ lease' = IF lease > 0 THEN lease - 1 ELSE 0
  /\ topics' = IF lease > 1 THEN topics ELSE {}
  /\ down' = IF up \/ down = Downtime THEN down ELSE down + 1
  /\ UNCHANGED <<up, failed, held>>

FirmwareRestart ==
  /\ up /\ caller.pc # "undefined"
  /\ up' = FALSE /\ down' = 0
  /\ topics' = {} /\ lease' = 0 /\ held' = FALSE
  /\ UNCHANGED <<caller, failed>>

BackUp ==
  /\ ~up /\ down = Downtime
  /\ up' = TRUE /\ down' = 0
  /\ UNCHANGED <<caller, topics, lease, failed, held>>

-----------------------------------------------------------------------------
Call   == \E n \in DOMAIN Calls : Answered(n) \/ Refused(n) \/ Lost(n)
Return == ReturnOk \/ ReturnFailure \/ WakeUp

SubNext == Call \/ Return \/ Tick \/ FirmwareRestart \/ BackUp

SubSpec == SubInit /\ [][SubNext]_subVars

(* The thread runs, time passes, and a firmware that is down comes up.     *)
FairSubSpec ==
  /\ SubSpec
  /\ WF_subVars(Call) /\ WF_subVars(Return) /\ WF_subVars(Tick) /\ WF_subVars(BackUp)

-----------------------------------------------------------------------------
(* Properties.                                                             *)

SubTypeOK ==
  /\ caller \in [pc : {"call", "wait", "pause", "sleep", "undefined"},
                n : DOMAIN Calls, outcome : {"none", "ok", "error", "silent"},
                timer : Nat]
  /\ caller.timer <= Deadline
  /\ up \in BOOLEAN /\ down \in 0 .. Downtime
  /\ topics \subseteq Topics
  /\ lease \in 0 .. Lease /\ (topics # {} <=> lease > 0)
  /\ failed \in 0 .. Tolerated + 1 /\ held \in BOOLEAN

(* A renewal that is lost, and further failures when the thread then       *)
(* subscribes again, do not cost the lease (run: 90 s of the 120 s of      *)
(* LEASE_TIMEOUT_MS, then calls of 5 s and pauses of 5 s).                 *)
LeaseHeld == held /\ failed <= Tolerated => lease > 0

(* The thread is never content, until the next renewal or for good, while  *)
(* the firmware sends some of the topics only, though the calls for them   *)
(* fail one by one and the firmware restarts between them (subscribe).     *)
AllOrNothing == caller.pc = "sleep" => topics \in {{}, Topics}

\* a call fails that the firmware would have granted
Disturbed ==
  /\ caller.pc = "wait" /\ caller.outcome # "ok"
  /\ Kind(caller.n) = "renew" => lease > 0

(* Whatever was lost and however often the firmware has restarted, once it *)
(* stays up and calls get through it sends all topics again and again      *)
(* (run), unless the process has come to the undefined state.              *)
ComesBack ==
  <>[](up /\ ~Disturbed)
    => <>(caller.pc = "undefined") \/ []<>(topics = Topics)
=============================================================================
