-------------------------- MODULE RenewThread_proofs --------------------------
(***************************************************************************)
(* Proofs about the two things the renew thread does: it subscribes and    *)
(* renews the lease (Subscription), and it fills the configuration         *)
(* (Configuration).  They hold for all times that keep the budget of       *)
(* SubscriptionAssumption, and for all contents of the configuration.      *)
(***************************************************************************)
EXTENDS Configuration, Subscription, FiniteSetTheorems, SequenceTheorems,
        WellFoundedInduction, NaturalsInduction, TLAPS

-----------------------------------------------------------------------------
(* The calls of a subscription by their numbers: connecting, nine calls    *)
(* that fill tables, six topics, and the renewal (DataReceiver::subscribe).*)
LEMMA CallNames ==
  /\ DOMAIN Calls = 1 .. 17 /\ Renewal = 17 /\ Last = 16
  /\ Kind(1) = "connect" /\ Kind(2) = "detectorParams" /\ Kind(3) = "detectorInfos"
  /\ Kind(4) = "interGreenTimes" /\ Kind(5) = "signalGroups" /\ Kind(6) = "generalParam"
  /\ Kind(7) = "lampGroups" /\ Kind(8) = "lampStates" /\ Kind(9) = "signalPlans"
  /\ Kind(10) = "register" /\ Kind(11) = "actualStatus" /\ Kind(12) = "requestedStatus"
  /\ Kind(13) = "detRaw" /\ Kind(14) = "signalIndications" /\ Kind(15) = "rideEvent"
  /\ Kind(16) = "archiveEvents" /\ Kind(17) = "renew"
BY DEF Calls, Kind, Renewal, Last

LEMMA CallKinds ==
  ASSUME NEW n \in 1 .. 17
  PROVE  /\ Kind(n) \in Topics <=> n \in 11 .. 16
         /\ Kind(n) = "renew" <=> n = 17
         /\ Kind(n) = "connect" <=> n = 1
         /\ Kind(n) = "lampStates" <=> n = 8
         /\ Kind(n) = "generalParam" <=> n = 6
         /\ Kind(n) \in {"detectorParams", "register"} <=> n \in {2, 10}
         /\ Kind(n) \in Unchecked <=> n \in {3, 4, 5, 7, 9}
<1>1. n \in {1, 2, 3, 4, 5, 6, 7, 8, 9, 10, 11, 12, 13, 14, 15, 16, 17}
  OBVIOUS
<1>2. QED BY <1>1, CallNames DEF Topics, Unchecked

\* the topics of the calls before n
Registered(n) == {Kind(i) : i \in 11 .. n - 1}

LEMMA RegisteredTopics ==
  /\ Registered(17) = Topics
  /\ \A n \in 11 .. 16 : Registered(n + 1) = Registered(n) \cup {Kind(n)}
<1>1. Registered(17) = {Kind(i) : i \in {11, 12, 13, 14, 15, 16}}
  <2>1. 11 .. 16 = {11, 12, 13, 14, 15, 16}
    OBVIOUS
  <2>2. QED BY <2>1 DEF Registered
<1>2. Registered(17) = Topics
  BY <1>1, CallNames DEF Topics
<1>3. ASSUME NEW n \in 11 .. 16
      PROVE  Registered(n + 1) = Registered(n) \cup {Kind(n)}
  <2>1. 11 .. (n + 1) - 1 = (11 .. n - 1) \cup {n}
    OBVIOUS
  <2>2. QED BY <2>1 DEF Registered
<1>4. QED BY <1>2, <1>3

(* How a failed call is followed, by the numbers of the calls.             *)
LEMMA Followed ==
  ASSUME NEW n \in 1 .. 17
  PROVE  /\ AfterFailure(n) = IF n = 17 THEN At("call", 1, "none")
                              ELSE IF n = 8 THEN At("call", 9, "none")
                              ELSE IF n \in {2, 10} THEN At("undefined", n, "none")
                              ELSE At("pause", 1, "none")
         /\ AfterError(n) = IF n \in {3, 4, 5, 7, 9} THEN At("undefined", n, "none")
                            ELSE IF n = 6 THEN At("call", 7, "none")
                            ELSE AfterFailure(n)
BY CallKinds DEF AfterFailure, AfterError

(* The product in the budget.                                              *)
LEMMA Products ==
  /\ \A a, b \in Nat : a * b \in Nat
  /\ \A a \in Int, b \in Int : (a + 1) * b = a * b + b
  /\ \A a, b \in Nat, c \in Nat : a <= b => a * c <= b * c
BY SMTT(30)

\* the assumption on the budget, with names for its parts
Attempt == Last * Latency + Timeout + RetryPause  \* one that fails
Left    == Lease - Latency - RenewPeriod - Timeout \* after the first failure

LEMMA Budget ==
  /\ Lease \in Nat /\ RenewPeriod \in Nat /\ RetryPause \in Nat /\ Timeout \in Nat
  /\ ConnectTimeout \in Nat /\ Downtime \in Nat /\ Latency \in Nat
  /\ Tolerated \in Nat \ {0} /\ Latency <= Timeout /\ Latency < Downtime
  /\ Attempt \in Nat /\ Attempt = 16 * Latency + Timeout + RetryPause
  /\ (Tolerated - 1) * Attempt \in Nat
  /\ Left \in Int /\ (Tolerated - 1) * Attempt + 16 * Latency < Left
<1>1. /\ Lease \in Nat /\ RenewPeriod \in Nat /\ RetryPause \in Nat /\ Timeout \in Nat
      /\ ConnectTimeout \in Nat /\ Downtime \in Nat /\ Latency \in Nat
      /\ Tolerated \in Nat \ {0} /\ Latency <= Timeout /\ Latency < Downtime
  BY SubscriptionAssumption
<1>2. Attempt \in Nat /\ Attempt = 16 * Latency + Timeout + RetryPause
  BY <1>1, CallNames DEF Attempt
<1>3. (Tolerated - 1) * Attempt \in Nat
  BY <1>1, <1>2, Products
<1>4. RenewPeriod + 17 * Latency + Timeout + (Tolerated - 1) * Attempt < Lease
  BY SubscriptionAssumption, CallNames DEF Attempt
<1>5. 17 * Latency = 16 * Latency + Latency /\ 16 * Latency \in Nat
  BY <1>1
<1>6. QED BY <1>1, <1>2, <1>3, <1>4, <1>5 DEF Left

-----------------------------------------------------------------------------
(* Types of Subscription.                                                  *)

LEMMA DeadlineType ==
  ASSUME SubTypeOK
  PROVE  /\ Deadline \in Nat /\ caller.timer \in Nat /\ caller.timer <= Deadline
         /\ caller.pc = "call" \/ caller.pc = "undefined" => Deadline = 0
         /\ caller.pc = "pause" => Deadline = RetryPause
         /\ caller.pc = "sleep" => Deadline = RenewPeriod
         /\ caller.pc = "wait" /\ caller.outcome # "silent" => Deadline = Latency
         /\ caller.pc = "wait" /\ caller.outcome = "silent" /\ caller.n # 1
              => Deadline = Timeout
<1>1. caller.n \in 1 .. 17
  BY CallNames DEF SubTypeOK
<1>2. caller.timer \in Nat /\ caller.timer <= Deadline
  BY DEF SubTypeOK
<1>3. CASE caller.pc = "call" \/ caller.pc = "undefined"
  BY <1>2, <1>3 DEF Deadline
<1>4. CASE caller.pc = "pause" \/ caller.pc = "sleep"
  BY <1>2, <1>4, Budget DEF Deadline
<1>5. CASE caller.pc = "wait" /\ caller.outcome # "silent"
  BY <1>2, <1>5, Budget DEF Deadline
<1>6. CASE caller.pc = "wait" /\ caller.outcome = "silent"
  <2>1. Deadline = IF caller.n = 1 THEN ConnectTimeout ELSE Timeout
    BY <1>1, <1>6, CallKinds DEF Deadline
  <2>2. QED BY <1>2, <1>6, <2>1, Budget
<1>7. QED BY <1>3, <1>4, <1>5, <1>6 DEF SubTypeOK

\* what the thread is set to by a step other than a tick of the clock
CallerSet == [pc : {"call", "wait", "pause", "sleep", "undefined"}, n : DOMAIN Calls,
              outcome : {"none", "ok", "error", "silent"}, timer : Nat]

LEMMA AtType ==
  ASSUME NEW pc \in {"call", "wait", "pause", "sleep", "undefined"}, NEW n \in 1 .. 17,
         NEW outcome \in {"none", "ok", "error", "silent"}
  PROVE  /\ At(pc, n, outcome) \in CallerSet
         /\ At(pc, n, outcome).timer = 0 /\ At(pc, n, outcome).pc = pc
         /\ At(pc, n, outcome).n = n /\ At(pc, n, outcome).outcome = outcome
BY CallNames DEF At, CallerSet

LEMMA DeadlineNat == caller \in CallerSet => Deadline \in Nat
<1> SUFFICES ASSUME caller \in CallerSet PROVE Deadline \in Nat
  OBVIOUS
<1>1. caller.n \in 1 .. 17 /\ caller.pc \in {"call", "wait", "pause", "sleep", "undefined"}
  BY CallNames DEF CallerSet
<1>2. CASE caller.pc # "wait"
  BY <1>1, <1>2, Budget DEF Deadline
<1>3. CASE caller.pc = "wait"
  BY <1>1, <1>3, Budget DEF Deadline
<1>4. QED BY <1>2, <1>3

\* the step that the thread's own actions have in common
LEMMA SetCaller ==
  ASSUME NEW pc \in {"call", "wait", "pause", "sleep", "undefined"}, NEW n \in 1 .. 17,
         NEW outcome \in {"none", "ok", "error", "silent"},
         caller' = At(pc, n, outcome)
  PROVE  caller' \in CallerSet /\ caller'.timer <= Deadline'
<1>1. caller' \in CallerSet /\ caller'.timer = 0
  BY SMTT(30), AtType
<1>2. (caller \in CallerSet)' => (Deadline \in Nat)'
  BY DeadlineNat, PTL
<1>3. Deadline' \in Nat
  BY <1>1, <1>2
<1>4. QED BY <1>1, <1>3

(* What each action does to the thread.                                    *)
LEMMA ReturnsTo ==
  ASSUME SubTypeOK
  PROVE  /\ ReturnOk =>
              /\ caller.pc = "wait" /\ caller.outcome = "ok" /\ caller.n \in 1 .. 17
              /\ caller.n \in 1 .. 15 => /\ caller' = At("call", caller.n + 1, "none")
                                         /\ UNCHANGED <<failed, held>>
              /\ caller.n \in 16 .. 17 =>
                   /\ caller' = At("sleep", 17, "none") /\ failed' = 0
                   /\ held' = (held \/ (caller.n = 16 /\ lease > 0))
              /\ UNCHANGED <<up, down, topics, lease>>
         /\ ReturnFailure =>
              /\ caller.pc = "wait" /\ caller.outcome \in {"error", "silent"}
              /\ caller.n \in 1 .. 17
              /\ \/ caller.n = 17 /\ caller' = At("call", 1, "none")
                 \/ caller.n \in {6, 8} /\ caller' = At("call", caller.n + 1, "none")
                 \/ caller' = At("undefined", caller.n, "none") /\ caller.n \in 2 .. 10
                 \/ caller' = At("pause", 1, "none") /\ caller.n \in 1 .. 16
              /\ UNCHANGED <<up, down, topics, lease, failed, held>>
         /\ WakeUp =>
              /\ caller.pc \in {"pause", "sleep"} /\ caller.n \in 1 .. 17
              /\ caller' = At("call", caller.n, "none")
              /\ UNCHANGED <<up, down, topics, lease, failed, held>>
<1>1. caller.n \in 1 .. 17 /\ caller.outcome \in {"none", "ok", "error", "silent"}
  BY CallNames DEF SubTypeOK
<1>2. ASSUME ReturnOk
      PROVE  /\ caller.n \in 1 .. 15 => /\ caller' = At("call", caller.n + 1, "none")
                                        /\ UNCHANGED <<failed, held>>
             /\ caller.n \in 16 .. 17 =>
                  /\ caller' = At("sleep", 17, "none") /\ failed' = 0
                  /\ held' = (held \/ (caller.n = 16 /\ lease > 0))
  BY <1>1, <1>2, CallNames DEF ReturnOk
<1>3. ASSUME ReturnFailure
      PROVE  \/ caller.n = 17 /\ caller' = At("call", 1, "none")
             \/ caller.n \in {6, 8} /\ caller' = At("call", caller.n + 1, "none")
             \/ caller' = At("undefined", caller.n, "none") /\ caller.n \in 2 .. 10
             \/ caller' = At("pause", 1, "none") /\ caller.n \in 1 .. 16
  <2>1. caller' = AfterError(caller.n) \/ caller' = AfterFailure(caller.n)
    BY <1>3 DEF ReturnFailure
  <2>2. QED BY <1>1, <2>1, Followed
<1>4. QED BY <1>1, <1>2, <1>3 DEF ReturnOk, ReturnFailure, WakeUp

LEMMA CallGoes ==
  ASSUME SubTypeOK, Call
  PROVE  \E n \in 1 .. 17, outcome \in {"ok", "error", "silent"} :
           /\ caller.pc = "call" /\ caller.n = n /\ caller' = At("wait", n, outcome)
           /\ failed' = IF outcome = "ok" \/ failed > Tolerated THEN failed ELSE failed + 1
           /\ held' = (held /\ (outcome = "ok" \/ n # 1))
           /\ UNCHANGED <<up, down>>
           /\ outcome = "ok" => Execute(n) /\ (n = 17 => lease > 0)
           /\ Execute(n) \/ UNCHANGED <<topics, lease>>
<1>1. PICK n \in 1 .. 17 : Answered(n) \/ Refused(n) \/ Lost(n)
  BY CallNames DEF Call
<1>2. CASE Answered(n)
  BY <1>2, CallKinds DEF Answered, Wait
<1>3. CASE Refused(n)
  BY <1>3, CallKinds DEF Refused, Wait
<1>4. CASE Lost(n)
  BY <1>4, CallKinds DEF Lost, Wait
<1>5. QED BY <1>1, <1>2, <1>3, <1>4

(* What the firmware does with call n.                                     *)
LEMMA Executes ==
  ASSUME NEW n \in 1 .. 17, SubTypeOK, Execute(n)
  PROVE  /\ up
         /\ n \in 11 .. 16 => topics' = topics \cup {Kind(n)} /\ lease' = Lease
         /\ n = 17 => topics' = topics /\ (lease > 0 => lease' = Lease)
                      /\ (lease = 0 => lease' = 0)
         /\ n \in 1 .. 10 => topics' = topics /\ lease' = lease
         /\ lease' >= lease /\ lease' \in Nat /\ lease \in Nat
<1>1. lease \in Nat /\ lease <= Lease /\ Lease \in Nat
  BY Budget DEF SubTypeOK
<1>2. QED BY <1>1, CallKinds, SMTT(30) DEF Execute

LEMMA SubTypeStep == SubTypeOK /\ [SubNext]_subVars => SubTypeOK'
<1> SUFFICES ASSUME SubTypeOK, [SubNext]_subVars PROVE SubTypeOK'
  OBVIOUS
<1>1. /\ up \in BOOLEAN /\ down \in 0 .. Downtime /\ topics \subseteq Topics
      /\ lease \in 0 .. Lease /\ (topics # {} <=> lease > 0)
      /\ failed \in 0 .. Tolerated + 1 /\ held \in BOOLEAN
      /\ caller \in CallerSet /\ caller.n \in 1 .. 17
      /\ caller.timer <= Deadline
  BY CallNames DEF SubTypeOK, CallerSet
<1>2. Lease \in Nat \ {0} /\ Downtime \in Nat /\ Tolerated \in Nat
  BY Budget DEF Left
<1>3. ASSUME caller' \in CallerSet, caller'.timer <= Deadline',
             up' \in BOOLEAN, down' \in 0 .. Downtime, topics' \subseteq Topics,
             lease' \in 0 .. Lease, topics' # {} <=> lease' > 0,
             failed' \in 0 .. Tolerated + 1, held' \in BOOLEAN
      PROVE  SubTypeOK'
  BY <1>3 DEF SubTypeOK, CallerSet
<1>4. CASE Call
  <2>1. PICK n \in 1 .. 17, outcome \in {"ok", "error", "silent"} :
           /\ caller' = At("wait", n, outcome)
           /\ failed' = IF outcome = "ok" \/ failed > Tolerated THEN failed ELSE failed + 1
           /\ held' = (held /\ (outcome = "ok" \/ n # 1))
           /\ UNCHANGED <<up, down>>
           /\ Execute(n) \/ UNCHANGED <<topics, lease>>
    BY <1>4, CallGoes
  <2>2. caller' \in CallerSet /\ caller'.timer <= Deadline'
    BY <2>1, SetCaller
  <2>3. /\ topics' \subseteq Topics /\ lease' \in 0 .. Lease
        /\ topics' # {} <=> lease' > 0
    <3>1. CASE UNCHANGED <<topics, lease>>
      BY <3>1, <1>1
    <3>2. CASE Execute(n)
      <4>1. CASE n \in 11 .. 16
        <5>1. Kind(n) \in Topics
          BY <4>1, CallKinds
        <5>2. topics' = topics \cup {Kind(n)} /\ lease' = Lease
          BY <4>1, <3>2, Executes
        <5>3. topics' # {} /\ topics' \subseteq Topics /\ lease' > 0
          BY <5>1, <5>2, <1>1, <1>2
        <5>4. QED BY <5>2, <5>3, <1>2
      <4>2. CASE n \notin 11 .. 16
        BY <4>2, <3>2, <1>1, <1>2, Executes
      <4>3. QED BY <4>1, <4>2
    <3>3. QED BY <2>1, <3>1, <3>2
  <2>4. failed' \in 0 .. Tolerated + 1 /\ held' \in BOOLEAN
    BY <2>1, <1>1, <1>2
  <2>5. QED BY <1>1, <1>3, <2>1, <2>2, <2>3, <2>4
<1>5. CASE Return
  <2>1. \E pc \in {"call", "pause", "sleep", "undefined"}, n \in 1 .. 17 :
          caller' = At(pc, n, "none")
    BY <1>1, <1>5, ReturnsTo DEF Return
  <2>2. caller' \in CallerSet /\ caller'.timer <= Deadline'
    BY <2>1, SetCaller
  <2>3. failed' \in 0 .. Tolerated + 1 /\ held' \in BOOLEAN
    <3>1. CASE UNCHANGED <<failed, held>>
      BY <3>1, <1>1
    <3>2. CASE failed' = 0 /\ held' = (held \/ (caller.n = 16 /\ lease > 0))
      BY <3>2, <1>2
    <3>3. caller.n \in 1 .. 15 \/ caller.n \in 16 .. 17
      BY <1>1
    <3>4. QED BY <1>5, <3>1, <3>2, <3>3, ReturnsTo DEF Return
  <2>4. UNCHANGED <<up, down, topics, lease>>
    BY <1>5, ReturnsTo DEF Return
  <2>5. QED BY <1>1, <1>3, <2>2, <2>3, <2>4
<1>6. CASE Tick
  <2>1. /\ caller.timer < Deadline /\ caller' = [caller EXCEPT !.timer = @ + 1]
        /\ Deadline' = Deadline /\ Deadline \in Nat
    BY <1>1, <1>6, DeadlineNat DEF Tick, Deadline, CallerSet
  <2>2. caller' \in CallerSet /\ caller'.timer <= Deadline'
    BY <1>1, <2>1 DEF CallerSet
  <2>3. /\ down' \in 0 .. Downtime /\ lease' \in 0 .. Lease /\ topics' \subseteq Topics
        /\ topics' # {} <=> lease' > 0
    BY <1>1, <1>2, <1>6 DEF Tick
  <2>4. QED BY <1>1, <1>3, <1>6, <2>2, <2>3 DEF Tick
<1>7. CASE FirmwareRestart \/ BackUp \/ UNCHANGED subVars
  <2>1. caller' \in CallerSet /\ caller'.timer <= Deadline'
    BY <1>1, <1>7 DEF FirmwareRestart, BackUp, subVars, Deadline
  <2>2. topics' \subseteq Topics /\ lease' \in 0 .. Lease /\ (topics' # {} <=> lease' > 0)
    <3>1. CASE UNCHANGED <<topics, lease>>
      BY <3>1, <1>1
    <3>2. CASE topics' = {} /\ lease' = 0
      BY <3>2, <1>2
    <3>3. QED BY <3>1, <3>2, <1>7 DEF FirmwareRestart, BackUp, subVars
  <2>3. up' \in BOOLEAN /\ held' \in BOOLEAN
    BY <1>1, <1>7 DEF FirmwareRestart, BackUp, subVars
  <2>4. down' \in 0 .. Downtime /\ failed' \in 0 .. Tolerated + 1
    BY <1>1, <1>2, <1>7 DEF FirmwareRestart, BackUp, subVars
  <2>5. QED BY <1>3, <2>1, <2>2, <2>3, <2>4
<1>8. QED BY <1>4, <1>5, <1>6, <1>7 DEF SubNext

LEMMA SubTypeInit == SubInit => SubTypeOK
<1> SUFFICES ASSUME SubInit PROVE SubTypeOK
  OBVIOUS
<1>1. caller = At("call", 1, "none")
  BY DEF SubInit
<1>2. caller \in CallerSet /\ caller.timer = 0
  BY <1>1, AtType
<1>3. caller.timer <= Deadline
  BY <1>2, DeadlineNat
<1>4. topics = {} /\ lease = 0 /\ down = 0 /\ failed = 0
  BY DEF SubInit
<1>5. lease \in 0 .. Lease /\ down \in 0 .. Downtime /\ failed \in 0 .. Tolerated + 1
  BY <1>4, Budget
<1>6. (topics # {} <=> lease > 0) /\ topics \subseteq Topics
  BY <1>4
<1>7. up \in BOOLEAN /\ held \in BOOLEAN
  BY DEF SubInit
<1>8. QED BY <1>2, <1>3, <1>5, <1>6, <1>7 DEF SubTypeOK, CallerSet

-----------------------------------------------------------------------------
(* The topics of a subscription in progress.  A firmware that has gone     *)
(* down stays down for longer than an answer takes, so the call after the  *)
(* one it has answered last finds it down.                                 *)

DownIsEmpty == ~up => topics = {} /\ lease = 0 /\ ~held

Places ==
  /\ caller.n = 17 => caller.pc \in {"sleep", "call", "wait"}
  /\ caller.pc = "sleep" => caller.n = 17
  /\ caller.pc = "pause" => caller.n = 1
  /\ caller.pc = "undefined" => caller.n \in 2 .. 10

AnswerUnderway ==
  caller.pc = "wait" /\ caller.outcome = "ok" /\ caller.n \in 11 .. 17 =>
    \/ ~up /\ down <= caller.timer
    \/ /\ up /\ Lease <= lease + caller.timer
       /\ caller.n # 17 => Registered(caller.n + 1) \subseteq topics

NextTopic ==
  caller.pc = "call" /\ caller.n \in 12 .. 16 =>
    \/ ~up /\ down <= Latency
    \/ up /\ Registered(caller.n) \subseteq topics

AllTopics == caller.n = 17 => topics \in {{}, Topics}

TopicsInv == DownIsEmpty /\ Places /\ AnswerUnderway /\ NextTopic /\ AllTopics

LEMMA TopicsInit == SubInit => TopicsInv
<1> SUFFICES ASSUME SubInit PROVE TopicsInv
  OBVIOUS
<1>1. caller.pc = "call" /\ caller.n = 1 /\ topics = {} /\ lease = 0 /\ held = FALSE
  BY DEF SubInit, At
<1>2. QED
  BY <1>1
  DEF TopicsInv, DownIsEmpty, Places, AnswerUnderway, NextTopic, AllTopics

LEMMA TopicsCall ==
  ASSUME SubTypeOK, TopicsInv, Call PROVE TopicsInv'
<1> USE DEF TopicsInv
<1>1. PICK n \in 1 .. 17, outcome \in {"ok", "error", "silent"} :
        /\ caller.pc = "call" /\ caller.n = n /\ caller' = At("wait", n, outcome)
        /\ held' = (held /\ (outcome = "ok" \/ n # 1))
        /\ UNCHANGED <<up, down>>
        /\ outcome = "ok" => Execute(n) /\ (n = 17 => lease > 0)
        /\ Execute(n) \/ UNCHANGED <<topics, lease>>
  BY CallGoes
<1>2. caller'.pc = "wait" /\ caller'.n = n /\ caller'.outcome = outcome /\ caller'.timer = 0
  BY <1>1 DEF At
<1>3. DownIsEmpty'
  BY <1>1, Executes DEF DownIsEmpty
<1>4. Places' /\ NextTopic'
  BY <1>2 DEF Places, NextTopic
<1>5. AnswerUnderway'
  <2> SUFFICES ASSUME outcome = "ok", n \in 11 .. 17
               PROVE  /\ up /\ Lease <= lease'
                      /\ n # 17 => Registered(n + 1) \subseteq topics'
    BY <1>1, <1>2, Executes, Budget DEF AnswerUnderway
  <2>1. Execute(n) /\ up
    BY <1>1, Executes
  <2>2. CASE n = 17
    BY <2>1, <2>2, <1>1, Executes, Budget
  <2>3. CASE n \in 11 .. 16
    <3>1. lease' = Lease /\ topics' = topics \cup {Kind(n)}
      BY <2>1, <2>3, Executes
    <3>2. Registered(n) \subseteq topics
      BY <1>1, <2>1, <2>3 DEF NextTopic, Registered
    <3>3. Registered(n + 1) = Registered(n) \cup {Kind(n)}
      BY <2>3, RegisteredTopics
    <3>4. QED BY <2>1, <3>1, <3>2, <3>3, Budget
  <2>4. QED BY <2>2, <2>3
<1>6. AllTopics'
  BY <1>1, <1>2, Executes DEF AllTopics
<1>7. QED BY <1>3, <1>4, <1>5, <1>6

LEMMA TopicsReturn ==
  ASSUME SubTypeOK, TopicsInv, Return PROVE TopicsInv'
<1> USE DEF TopicsInv
<1>1. UNCHANGED <<up, down, topics, lease>>
  BY ReturnsTo DEF Return
<1>2. CASE ReturnOk
  <2>1. /\ caller.pc = "wait" /\ caller.outcome = "ok" /\ caller.n \in 1 .. 17
        /\ caller.timer \in Nat /\ caller.timer <= Latency /\ Latency \in Nat
        /\ lease \in Nat /\ Lease \in Nat /\ down \in Nat
    BY <1>2, ReturnsTo, DeadlineType, Budget DEF SubTypeOK
  <2>2. DownIsEmpty'
    <3>1. held' => held \/ lease > 0
      <4>1. caller.n \in 1 .. 15 \/ caller.n \in 16 .. 17
        BY <2>1
      <4>2. held' = held \/ held' = (held \/ (caller.n = 16 /\ lease > 0))
        BY <1>2, <4>1, ReturnsTo
      <4>3. QED BY <4>2
    <3>2. QED BY <1>1, <3>1 DEF DownIsEmpty
  <2>3. CASE caller.n \in 1 .. 15
    <3>1. caller'.pc = "call" /\ caller'.n = caller.n + 1
      BY <1>2, <2>3, ReturnsTo, AtType
    <3>2. NextTopic'
      BY <1>1, <2>1, <2>3, <3>1 DEF NextTopic, AnswerUnderway
    <3>3. Places' /\ AnswerUnderway' /\ AllTopics'
      BY <2>3, <3>1 DEF Places, AnswerUnderway, AllTopics
    <3>4. QED BY <2>2, <3>2, <3>3
  <2>4. CASE caller.n \in 16 .. 17
    <3>1. caller'.pc = "sleep" /\ caller'.n = 17
      BY <1>2, <2>4, ReturnsTo, AtType
    <3>2. AllTopics'
      <4>1. CASE caller.n = 17
        BY <4>1, <1>1, <3>1 DEF AllTopics
      <4>2. CASE caller.n = 16 /\ ~up
        BY <4>2, <1>1 DEF AllTopics, DownIsEmpty
      <4>3. CASE caller.n = 16 /\ up
        <5>1. Registered(17) \subseteq topics
          BY <4>3, <2>1 DEF AnswerUnderway
        <5>2. topics \subseteq Topics
          BY DEF SubTypeOK
        <5>3. QED BY <5>1, <5>2, <1>1, RegisteredTopics DEF AllTopics
      <4>4. QED BY <2>4, <4>1, <4>2, <4>3
    <3>3. Places' /\ AnswerUnderway' /\ NextTopic'
      BY <3>1 DEF Places, AnswerUnderway, NextTopic
    <3>4. QED BY <2>2, <3>2, <3>3
  <2>5. QED BY <2>1, <2>3, <2>4
<1>3. CASE ReturnFailure
  <2>1. /\ \/ caller'.pc = "call" /\ caller'.n \in {1, 7, 9}
           \/ caller'.pc = "undefined" /\ caller'.n \in 2 .. 10
           \/ caller'.pc = "pause" /\ caller'.n = 1
        /\ held' = held
    BY SMTT(30), <1>3, ReturnsTo, AtType
  <2>2. QED
    BY <1>1, <2>1
    DEF DownIsEmpty, Places, AnswerUnderway, NextTopic, AllTopics
<1>4. CASE WakeUp
  <2>1. /\ caller.pc \in {"pause", "sleep"} /\ caller'.pc = "call" /\ caller'.n = caller.n
        /\ held' = held /\ caller.n \in {1, 17}
    BY <1>4, ReturnsTo, AtType DEF Places
  <2>2. QED
    BY <1>1, <2>1
    DEF DownIsEmpty, Places, AnswerUnderway, NextTopic, AllTopics
<1>5. QED BY <1>2, <1>3, <1>4 DEF Return

LEMMA TopicsTick ==
  ASSUME SubTypeOK, TopicsInv, Tick PROVE TopicsInv'
<1> USE DEF TopicsInv
<1>1. /\ caller.timer < Deadline /\ caller' = [caller EXCEPT !.timer = @ + 1]
      /\ up' = up /\ held' = held
      /\ lease' = IF lease > 0 THEN lease - 1 ELSE 0
      /\ topics' = IF lease > 1 THEN topics ELSE {}
      /\ down' = IF up \/ down = Downtime THEN down ELSE down + 1
  BY DEF Tick
<1>2. /\ caller'.pc = caller.pc /\ caller'.n = caller.n /\ caller'.outcome = caller.outcome
      /\ caller'.timer = caller.timer + 1
      /\ caller.timer \in Nat /\ lease \in Nat /\ down \in Nat
  BY <1>1, Budget DEF SubTypeOK
<1>3. /\ caller.pc \notin {"call", "undefined"}
      /\ caller.pc = "wait" /\ caller.outcome = "ok" => caller.timer < Latency
  BY <1>1, DeadlineType
<1>4. DownIsEmpty' /\ Places' /\ NextTopic' /\ AllTopics'
  BY <1>1, <1>2, <1>3 DEF DownIsEmpty, Places, NextTopic, AllTopics
<1>5. AnswerUnderway'
  <2> SUFFICES ASSUME caller.pc = "wait", caller.outcome = "ok", caller.n \in 11 .. 17
               PROVE  \/ ~up /\ down' <= caller.timer + 1
                      \/ /\ up /\ Lease <= lease' + (caller.timer + 1)
                         /\ caller.n # 17 => Registered(caller.n + 1) \subseteq topics'
    BY <1>1, <1>2 DEF AnswerUnderway
  <2>1. CASE ~up
    BY <2>1, <1>1, <1>2 DEF AnswerUnderway
  <2>2. CASE up
    <3>1. Lease <= lease + caller.timer /\ Latency < Lease
      BY <2>2, Budget DEF AnswerUnderway, Left
    <3>2. lease > 1
      BY <3>1, <1>2, <1>3, Budget
    <3>3. lease' = lease - 1 /\ topics' = topics
      BY <3>2, <1>1, <1>2
    <3>4. QED BY <2>2, <3>1, <3>3, <1>2, Budget DEF AnswerUnderway
  <2>3. QED BY <2>1, <2>2
<1>6. QED BY <1>4, <1>5

LEMMA TopicsFirmware ==
  ASSUME SubTypeOK, TopicsInv, FirmwareRestart \/ BackUp \/ UNCHANGED subVars
  PROVE  TopicsInv'
<1> USE DEF TopicsInv
<1>1. /\ caller' = caller /\ caller.timer \in Nat
      /\ caller.pc = "wait" /\ caller.outcome = "ok" => caller.timer <= Latency
      /\ Latency \in Nat /\ Downtime \in Nat /\ Latency < Downtime
  BY DeadlineType, Budget DEF FirmwareRestart, BackUp, subVars
<1>2. Places'
  BY <1>1 DEF Places
<1>3. CASE FirmwareRestart
  <2>1. ~up' /\ down' = 0 /\ topics' = {} /\ lease' = 0 /\ ~held'
    BY <1>3 DEF FirmwareRestart
  <2>2. QED
    BY <1>1, <1>2, <2>1 DEF DownIsEmpty, AnswerUnderway, NextTopic, AllTopics
<1>4. CASE BackUp
  <2>1. ~up /\ down = Downtime /\ up' /\ UNCHANGED <<topics, lease, held>>
    BY <1>4 DEF BackUp
  <2>2. AnswerUnderway'
    BY <1>1, <2>1 DEF AnswerUnderway
  <2>3. NextTopic'
    BY <1>1, <2>1 DEF NextTopic
  <2>4. QED
    BY <1>1, <1>2, <2>1, <2>2, <2>3 DEF DownIsEmpty, AllTopics
<1>5. CASE UNCHANGED subVars
  BY <1>5
  DEF subVars, DownIsEmpty, Places, AnswerUnderway, NextTopic, AllTopics
<1>6. QED BY <1>3, <1>4, <1>5

LEMMA SubInvariant == SubSpec => [](SubTypeOK /\ TopicsInv)
<1>1. SubTypeOK /\ TopicsInv /\ [SubNext]_subVars => TopicsInv'
  BY TopicsCall, TopicsReturn, TopicsTick, TopicsFirmware DEF SubNext
<1>2. QED
  BY <1>1, SubTypeInit, SubTypeStep, TopicsInit, PTL DEF SubSpec

(* The thread does not rest on some of the topics, though the six calls    *)
(* fail one by one and the firmware restarts between them                  *)
(* (DataReceiver::subscribe).                                              *)
THEOREM SubAllOrNothing == SubSpec => []AllOrNothing
<1>1. TopicsInv => AllOrNothing
  BY DEF TopicsInv, Places, AllTopics, AllOrNothing
<1>2. QED BY <1>1, SubInvariant, PTL

-----------------------------------------------------------------------------
(* The lease: what is left of it covers what may still happen before a     *)
(* topic is granted.                                                       *)

CallTime(n) == n * Latency   \* of n calls that are answered
Cost(k)     == k * Attempt   \* of k attempts that fail

LEMMA CallTimes ==
  /\ CallTime(0) = 0
  /\ \A n \in Nat : CallTime(n) \in Nat /\ CallTime(n + 1) = CallTime(n) + Latency
  /\ \A m, n \in Nat : m <= n => CallTime(m) <= CallTime(n)
  /\ CallTime(16) = 16 * Latency /\ CallTime(16) = CallTime(15) + Latency
<1>1. Latency \in Nat
  BY Budget
<1>2. \A n \in Nat : CallTime(n) \in Nat /\ CallTime(n + 1) = CallTime(n) + Latency
  BY <1>1, Products DEF CallTime
<1>3. \A m, n \in Nat : m <= n => CallTime(m) <= CallTime(n)
  BY <1>1, Products DEF CallTime
<1>4. CallTime(16) = CallTime(15) + Latency
  BY <1>1 DEF CallTime
<1>5. QED BY <1>1, <1>2, <1>3, <1>4 DEF CallTime

LEMMA Costs ==
  /\ Cost(0) = 0
  /\ \A k \in Int : Cost(k) \in Int /\ Cost(k + 1) = Cost(k) + Attempt
  /\ \A k \in Nat : k <= Tolerated - 1 => Cost(k) <= Cost(Tolerated - 1)
  /\ Cost(Tolerated - 1) + CallTime(16) < Left /\ Cost(Tolerated - 1) \in Nat
<1>1. Attempt \in Nat /\ Tolerated - 1 \in Nat
  BY Budget
<1>2. \A k \in Int : Cost(k) \in Int
  BY <1>1 DEF Cost
<1>3. \A k \in Int : Cost(k + 1) = Cost(k) + Attempt
  BY <1>1, Products DEF Cost
<1>4. \A k \in Nat : k <= Tolerated - 1 => Cost(k) <= Cost(Tolerated - 1)
  BY <1>1, Products DEF Cost
<1>5. Cost(Tolerated - 1) + CallTime(16) < Left /\ Cost(Tolerated - 1) \in Nat
  BY Budget, CallTimes DEF Cost
<1>6. QED BY <1>1, <1>2, <1>3, <1>4, <1>5 DEF Cost

\* after the renewal has failed, and further attempts
Covers(spent, k) == Left <= lease + spent + Cost(k)

LeaseCovers ==
  /\ caller.pc = "sleep" => failed = 0 /\ Lease <= lease + caller.timer + Latency
  /\ caller.pc = "call" /\ caller.n = 17 =>
       failed = 0 /\ Lease <= lease + Latency + RenewPeriod
  /\ caller.pc = "wait" /\ caller.n = 17 /\ caller.outcome # "ok" =>
       failed = 1 /\ Lease <= lease + caller.timer + Latency + RenewPeriod
  /\ caller.pc = "call" /\ caller.n \in 1 .. 16 =>
       failed >= 1 /\ Covers(CallTime(caller.n - 1), failed - 1)
  /\ caller.pc = "wait" /\ caller.outcome = "ok" /\ caller.n \in 1 .. 16 =>
       failed >= 1 /\ Covers(caller.timer + CallTime(caller.n - 1), failed - 1)
  /\ caller.pc = "wait" /\ caller.outcome # "ok" /\ caller.n \in 1 .. 16 =>
       /\ caller.n # 1 /\ failed >= 2
       /\ Covers(caller.timer + CallTime(caller.n - 1), failed - 2)
  /\ caller.pc = "pause" =>
       failed >= 2 /\ Covers(caller.timer + CallTime(15) + Timeout, failed - 2)
  /\ caller.pc = "undefined" => lease > 0

LeaseInv == held /\ failed <= Tolerated => LeaseCovers

LEMMA SubNumbers ==
  ASSUME SubTypeOK
  PROVE  /\ lease \in Nat /\ failed \in Nat /\ caller.timer \in Nat
         /\ Lease \in Nat /\ Latency \in Nat /\ Timeout \in Nat /\ Latency <= Timeout
         /\ RenewPeriod \in Nat /\ RetryPause \in Nat /\ Tolerated \in Nat
         /\ Left \in Int /\ Attempt \in Nat
<1>1. lease \in Nat /\ failed \in Nat /\ caller.timer \in Nat
  BY Budget DEF SubTypeOK
<1>2. QED BY <1>1, Budget

LEMMA LeaseCall ==
  ASSUME SubTypeOK, TopicsInv, LeaseInv, Call PROVE LeaseInv'
<1> SUFFICES ASSUME held', failed' <= Tolerated PROVE LeaseCovers'
  BY Budget DEF LeaseInv
<1>1. PICK n \in 1 .. 17, outcome \in {"ok", "error", "silent"} :
        /\ caller.pc = "call" /\ caller.n = n /\ caller' = At("wait", n, outcome)
        /\ failed' = IF outcome = "ok" \/ failed > Tolerated THEN failed ELSE failed + 1
        /\ held' = (held /\ (outcome = "ok" \/ n # 1))
        /\ Execute(n) \/ UNCHANGED <<topics, lease>>
  BY CallGoes
<1>2. caller'.pc = "wait" /\ caller'.n = n /\ caller'.outcome = outcome /\ caller'.timer = 0
  BY <1>1 DEF At
<1>3. /\ failed \in Nat /\ lease \in Nat /\ lease' \in Nat /\ lease <= lease'
      /\ Tolerated \in Nat /\ held /\ failed <= Tolerated
  <2>1. failed \in Nat /\ lease \in Nat /\ Tolerated \in Nat
    BY SubNumbers
  <2>2. lease' \in Nat /\ lease <= lease'
    <3>1. CASE Execute(n)
      BY <3>1, Executes
    <3>2. CASE lease' = lease
      BY <3>2, <2>1
    <3>3. QED BY <1>1, <3>1, <3>2
  <2>3. held
    BY <1>1
  <2>4. failed <= Tolerated
    BY <1>1, <2>1
  <2>5. QED BY <2>1, <2>2, <2>3, <2>4
<1>4. LeaseCovers
  BY <1>3 DEF LeaseInv
<1>5. CASE n = 17
  <2>1. failed = 0 /\ Lease <= lease + Latency + RenewPeriod
    BY <1>1, <1>4, <1>5 DEF LeaseCovers
  <2>2. Lease <= lease' + 0 + Latency + RenewPeriod
    BY <2>1, <1>3, SubNumbers
  <2>3. outcome # "ok" => failed' = 1
    BY <2>1, <1>1, <1>3
  <2>4. QED BY <1>2, <1>5, <2>2, <2>3 DEF LeaseCovers
<1>6. CASE n \in 1 .. 16
  <2>1. failed >= 1 /\ Covers(CallTime(n - 1), failed - 1)
    BY <1>1, <1>4, <1>6 DEF LeaseCovers
  <2>2. CallTime(n - 1) \in Nat /\ Cost(failed - 1) \in Int /\ Left \in Int
    <3>1. n - 1 \in Nat /\ failed - 1 \in Int
      BY <1>3, <1>6
    <3>2. QED BY <3>1, CallTimes, Costs, SubNumbers
  <2>3. Left <= lease' + (0 + CallTime(n - 1)) + Cost(failed - 1)
    BY <2>1, <2>2, <1>3 DEF Covers
  <2>4. CASE outcome = "ok"
    BY <2>1, <2>3, <2>4, <1>1, <1>2, <1>6 DEF LeaseCovers, Covers
  <2>5. CASE outcome # "ok"
    <3>0. failed' = failed + 1
      BY <2>5, <1>1, <1>3
    <3>1. n # 1
      BY <2>5, <1>1
    <3>2. failed' - 2 = failed - 1 /\ failed' >= 2
      BY <2>1, <1>3, <3>0
    <3>3. QED
      BY <2>3, <2>5, <3>1, <3>2, <1>2, <1>6 DEF LeaseCovers, Covers
  <2>6. QED BY <2>4, <2>5
<1>7. QED BY <1>5, <1>6

LEMMA LeaseReturnOk ==
  ASSUME SubTypeOK, TopicsInv, LeaseInv, ReturnOk PROVE LeaseInv'
<1> SUFFICES ASSUME held', failed' <= Tolerated PROVE LeaseCovers'
  BY Budget DEF LeaseInv
<1>1. /\ caller.pc = "wait" /\ caller.outcome = "ok" /\ caller.n \in 1 .. 17
      /\ UNCHANGED <<up, lease>>
      /\ caller.timer \in Nat /\ caller.timer <= Latency /\ Latency \in Nat
      /\ lease \in Nat /\ Lease \in Nat /\ failed \in Nat
  <2>1. /\ caller.pc = "wait" /\ caller.outcome = "ok" /\ caller.n \in 1 .. 17
        /\ UNCHANGED <<up, lease>>
    BY ReturnsTo
  <2>2. caller.timer <= Latency
    BY <2>1, DeadlineType
  <2>3. QED BY <2>1, <2>2, SubNumbers
<1>2. CASE caller.n \in 1 .. 15
  <2>1. /\ caller' = At("call", caller.n + 1, "none") /\ failed' = failed /\ held' = held
    BY <1>2, ReturnsTo
  <2>2. caller'.pc = "call" /\ caller'.n = caller.n + 1
    BY <2>1 DEF At
  <2>3. failed >= 1 /\ Covers(caller.timer + CallTime(caller.n - 1), failed - 1)
    BY <1>1, <1>2, <2>1 DEF LeaseInv, LeaseCovers
  <2>4. /\ CallTime(caller.n - 1) \in Nat /\ Cost(failed - 1) \in Int /\ Left \in Int
        /\ CallTime(caller.n) = CallTime(caller.n - 1) + Latency
    <3>1. caller.n - 1 \in Nat /\ (caller.n - 1) + 1 = caller.n
      BY <1>2
    <3>2. failed - 1 \in Int
      BY <1>1
    <3>3. QED BY <3>1, <3>2, CallTimes, Costs, SubNumbers
  <2>5. Left <= lease + CallTime(caller.n) + Cost(failed - 1)
    BY <2>3, <2>4, <1>1 DEF Covers
  <2>6. caller'.n - 1 = caller.n /\ caller'.n \in 1 .. 16
    BY <1>2, <2>2
  <2>7. QED BY <2>1, <2>2, <2>3, <2>5, <2>6, <1>1 DEF LeaseCovers, Covers
<1>3. CASE caller.n \in 16 .. 17
  <2>1. /\ caller' = At("sleep", 17, "none") /\ failed' = 0
        /\ held' = (held \/ (caller.n = 16 /\ lease > 0))
    BY <1>3, ReturnsTo
  <2>2. caller'.pc = "sleep" /\ caller'.timer = 0
    BY <2>1 DEF At
  <2>3. up
    <3>1. held \/ lease > 0
      BY <2>1
    <3>2. QED BY <3>1, <1>1 DEF TopicsInv, DownIsEmpty
  <2>4. Lease <= lease + caller.timer
    BY <1>1, <1>3, <2>3 DEF TopicsInv, AnswerUnderway
  <2>5. Lease <= lease + 0 + Latency
    BY <2>4, <1>1
  <2>6. QED BY <2>1, <2>2, <2>5, <1>1 DEF LeaseCovers
<1>4. QED BY <1>1, <1>2, <1>3

LEMMA LeaseReturnFailure ==
  ASSUME SubTypeOK, TopicsInv, LeaseInv, ReturnFailure PROVE LeaseInv'
<1> SUFFICES ASSUME held', failed' <= Tolerated PROVE LeaseCovers'
  BY Budget DEF LeaseInv
<1>1. /\ caller.pc = "wait" /\ caller.outcome \in {"error", "silent"} /\ caller.n \in 1 .. 17
      /\ UNCHANGED <<up, lease, failed, held>>
      /\ lease \in Nat /\ Lease \in Nat /\ failed \in Nat /\ Tolerated \in Nat
  BY ReturnsTo, SubNumbers
<1>2. LeaseCovers
  BY <1>1 DEF LeaseInv
<1>3. /\ caller.n # 1
      /\ caller.timer \in Nat /\ caller.timer <= Timeout /\ Timeout \in Nat /\ Latency \in Nat
  <2>1. caller.n # 1
    BY <1>1, <1>2 DEF LeaseCovers
  <2>2. QED BY <1>1, <2>1, DeadlineType, Budget
<1>4. CASE caller.n = 17
  <2>1. caller'.pc = "call" /\ caller'.n = 1
    BY <1>4, ReturnsTo DEF At
  <2>2. failed = 1 /\ Lease <= lease + caller.timer + Latency + RenewPeriod
    BY <1>1, <1>2, <1>4 DEF LeaseCovers
  <2>3. Left <= lease + CallTime(0) + Cost(0)
    <3>1. CallTime(0) = 0 /\ Cost(0) = 0
      BY CallTimes, Costs
    <3>2. Left = Lease - Latency - RenewPeriod - Timeout
      BY DEF Left
    <3>3. QED BY <2>2, <3>1, <3>2, <1>3, SubNumbers
  <2>4. QED BY <2>1, <2>2, <2>3, <1>1 DEF LeaseCovers, Covers
<1>5. CASE caller.n \in 2 .. 16
  <2> DEFINE spent == CallTime(caller.n - 1)
  <2>1. failed >= 2 /\ Left <= lease + (caller.timer + spent) + Cost(failed - 2)
    BY <1>1, <1>2, <1>5 DEF LeaseCovers, Covers
  <2>2. /\ spent \in Nat /\ spent <= CallTime(15) /\ CallTime(15) \in Nat
        /\ CallTime(caller.n) = spent + Latency
    <3>1. caller.n - 1 \in Nat /\ (caller.n - 1) + 1 = caller.n /\ caller.n - 1 <= 15
      BY <1>5
    <3>2. QED BY <3>1, CallTimes
  <2>3. /\ Cost(failed - 2) \in Int /\ Cost(failed - 1) \in Int /\ Attempt \in Nat
        /\ Cost(failed - 1) = Cost(failed - 2) + Attempt /\ Left \in Int
        /\ Timeout <= Attempt
    <3>1. failed - 2 \in Int /\ (failed - 2) + 1 = failed - 1
      BY <1>1
    <3>2. QED BY <3>1, Costs, Budget
  <2> HIDE DEF spent
  <2>4. CASE caller.n \in {6, 8} /\ caller' = At("call", caller.n + 1, "none")
    <3>1. caller'.pc = "call" /\ caller'.n \in 1 .. 16 /\ caller'.n - 1 = caller.n
      BY <2>4 DEF At
    <3>2. Left <= lease + CallTime(caller.n) + Cost(failed - 1)
      BY <2>1, <2>2, <2>3, <1>1, <1>3
    <3>3. QED BY <2>1, <3>1, <3>2, <1>1 DEF LeaseCovers, Covers
  <2>5. CASE caller' = At("undefined", caller.n, "none")
    <3>1. caller'.pc = "undefined"
      BY <2>5 DEF At
    <3>2. Cost(failed - 1) <= Cost(Tolerated - 1)
      <4>1. failed - 1 \in Nat /\ failed - 1 <= Tolerated - 1
        BY <2>1, <1>1
      <4>2. QED BY <4>1, Costs
    <3>3. /\ Cost(Tolerated - 1) + CallTime(16) < Left /\ Cost(Tolerated - 1) \in Nat
          /\ CallTime(16) = CallTime(15) + Latency
      BY Costs, CallTimes
    <3>4. lease > 0
      BY <2>1, <2>2, <2>3, <3>2, <3>3, <1>1, <1>3
    <3>5. QED BY <3>1, <3>4, <1>1 DEF LeaseCovers
  <2>6. CASE caller' = At("pause", 1, "none")
    <3>1. caller'.pc = "pause" /\ caller'.timer = 0
      BY <2>6 DEF At
    <3>2. Left <= lease + (0 + CallTime(15) + Timeout) + Cost(failed - 2)
      BY <2>1, <2>2, <2>3, <1>1, <1>3
    <3>3. QED BY <2>1, <3>1, <3>2, <1>1 DEF LeaseCovers, Covers
  <2>7. QED BY <1>5, <2>4, <2>5, <2>6, ReturnsTo
<1>6. QED BY <1>1, <1>3, <1>4, <1>5

LEMMA LeaseWakeUp ==
  ASSUME SubTypeOK, TopicsInv, LeaseInv, WakeUp PROVE LeaseInv'
<1> SUFFICES ASSUME held', failed' <= Tolerated PROVE LeaseCovers'
  BY Budget DEF LeaseInv
<1>1. /\ caller.pc \in {"pause", "sleep"} /\ caller.timer = Deadline
      /\ caller'.pc = "call" /\ caller'.n = caller.n
      /\ UNCHANGED <<lease, failed, held>>
  BY ReturnsTo DEF WakeUp, At
<1>2. LeaseCovers
  BY <1>1 DEF LeaseInv
<1>3. CASE caller.pc = "sleep"
  <2>1. caller.n = 17 /\ caller.timer = RenewPeriod
    BY <1>1, <1>3, DeadlineType DEF TopicsInv, Places
  <2>2. failed = 0 /\ Lease <= lease + RenewPeriod + Latency
    BY <1>2, <1>3, <2>1 DEF LeaseCovers
  <2>3. Lease <= lease + Latency + RenewPeriod
    BY <2>2, SubNumbers
  <2>4. QED BY <1>1, <2>1, <2>2, <2>3 DEF LeaseCovers
<1>4. CASE caller.pc = "pause"
  <2>1. caller.n = 1 /\ caller.timer = RetryPause
    BY <1>1, <1>4, DeadlineType DEF TopicsInv, Places
  <2>2. failed >= 2 /\ Left <= lease + (RetryPause + CallTime(15) + Timeout) + Cost(failed - 2)
    BY <1>2, <1>4, <2>1 DEF LeaseCovers, Covers
  <2>3. Cost(failed - 1) = Cost(failed - 2) + Attempt /\ Cost(failed - 2) \in Int
    <3>1. failed - 2 \in Int /\ (failed - 2) + 1 = failed - 1
      BY SubNumbers
    <3>2. QED BY <3>1, Costs
  <2>4. CallTime(15) \in Nat /\ Attempt = CallTime(15) + Latency + Timeout + RetryPause
    BY Budget, CallTimes
  <2>5. Left <= lease + CallTime(0) + Cost(failed - 1)
    BY <2>2, <2>3, <2>4, CallTimes, SubNumbers
  <2>6. failed >= 1 /\ caller'.n - 1 = 0 /\ caller'.n \in 1 .. 16
    BY <1>1, <2>1, <2>2, SubNumbers
  <2>7. QED BY <1>1, <2>5, <2>6 DEF LeaseCovers, Covers
<1>5. QED BY <1>1, <1>3, <1>4

LEMMA LeaseTick ==
  ASSUME SubTypeOK, TopicsInv, LeaseInv, Tick PROVE LeaseInv'
<1> SUFFICES ASSUME held', failed' <= Tolerated PROVE LeaseCovers'
  BY Budget DEF LeaseInv
<1>1. /\ caller.timer < Deadline /\ caller' = [caller EXCEPT !.timer = @ + 1]
      /\ UNCHANGED <<failed, held>>
      /\ lease' = IF lease > 0 THEN lease - 1 ELSE 0
  BY DEF Tick
<1>2. /\ caller'.pc = caller.pc /\ caller'.n = caller.n /\ caller'.outcome = caller.outcome
      /\ caller'.timer = caller.timer + 1 /\ caller.n \in 1 .. 17
  BY <1>1, CallNames DEF SubTypeOK
<1>3. caller.pc \notin {"call", "undefined"}
  BY <1>1, DeadlineType
<1>4. LeaseCovers
  BY <1>1 DEF LeaseInv
\* what is left and what has passed add up
<1>5. ASSUME NEW d \in Int, NEW a \in Int, a <= lease + caller.timer + d
      PROVE  a <= lease' + (caller.timer + 1) + d
  BY <1>1, <1>5, SubNumbers
<1>6. CASE caller.pc = "sleep"
  BY <1>1, <1>2, <1>4, <1>5, <1>6, SubNumbers DEF LeaseCovers
<1>7. CASE caller.pc = "wait" /\ caller.n = 17 /\ caller.outcome # "ok"
  <2>1. Lease <= lease + caller.timer + (Latency + RenewPeriod) /\ failed = 1
    BY <1>4, <1>7, SubNumbers DEF LeaseCovers
  <2>2. Lease <= lease' + (caller.timer + 1) + (Latency + RenewPeriod)
    BY <2>1, <1>5, SubNumbers
  <2>3. Lease <= lease' + (caller.timer + 1) + Latency + RenewPeriod
    BY <2>2, <1>1, SubNumbers
  <2>4. QED BY <1>1, <1>2, <1>7, <2>1, <2>3 DEF LeaseCovers
<1>8. ASSUME NEW d \in Nat, NEW k \in Int, Covers(caller.timer + d, k)
      PROVE  Covers(caller.timer + d, k)'
  <2>1. Cost(k) \in Int /\ Left <= lease + caller.timer + (d + Cost(k))
    BY <1>8, Costs, SubNumbers DEF Covers
  <2>2. Left <= lease' + (caller.timer + 1) + (d + Cost(k))
    BY <2>1, <1>5, SubNumbers
  <2>3. Left <= lease' + ((caller.timer + 1) + d) + Cost(k)
    BY <2>1, <2>2, <1>1, SubNumbers
  <2>4. QED BY <2>3, <1>2 DEF Covers
<1>9. CASE caller.pc = "wait" /\ caller.n \in 1 .. 16
  <2>1. CallTime(caller.n - 1) \in Nat /\ failed - 1 \in Int /\ failed - 2 \in Int
    <3>1. caller.n - 1 \in Nat
      BY <1>9
    <3>2. CallTime(caller.n - 1) \in Nat
      BY <3>1, CallTimes
    <3>3. QED BY <3>2, SubNumbers
  <2>2. QED BY <1>1, <1>2, <1>4, <1>8, <1>9, <2>1 DEF LeaseCovers, Covers
<1>10. CASE caller.pc = "pause"
  <2>1. CallTime(15) + Timeout \in Nat /\ failed - 2 \in Int /\ CallTime(15) \in Nat
    <3>1. CallTime(15) \in Nat
      BY CallTimes
    <3>2. QED BY <3>1, SubNumbers
  <2>2. failed >= 2 /\ Covers(caller.timer + (CallTime(15) + Timeout), failed - 2)
    BY <1>4, <1>10, <2>1, SubNumbers DEF LeaseCovers, Covers
  <2>3. Covers(caller.timer + (CallTime(15) + Timeout), failed - 2)'
    BY <1>1, <1>8, <2>1, <2>2
  <2>4. QED BY <1>1, <1>2, <1>10, <2>1, <2>2, <2>3, SubNumbers DEF LeaseCovers, Covers
<1>11. QED
  BY <1>2, <1>3, <1>6, <1>7, <1>9, <1>10 DEF LeaseCovers, SubTypeOK

LEMMA LeaseStep ==
  SubTypeOK /\ TopicsInv /\ LeaseInv /\ [SubNext]_subVars => LeaseInv'
<1> SUFFICES ASSUME SubTypeOK, TopicsInv, LeaseInv, [SubNext]_subVars PROVE LeaseInv'
  OBVIOUS
<1>1. CASE FirmwareRestart
  BY <1>1 DEF FirmwareRestart, LeaseInv
<1>2. CASE BackUp
  BY <1>2 DEF BackUp, LeaseInv, TopicsInv, DownIsEmpty
<1>3. CASE UNCHANGED subVars
  BY <1>3 DEF subVars, LeaseInv, LeaseCovers, Covers
<1>4. QED
  BY <1>1, <1>2, <1>3, LeaseCall, LeaseReturnOk, LeaseReturnFailure, LeaseWakeUp,
     LeaseTick DEF SubNext, Return

LEMMA LeaseCoversIsHeld ==
  ASSUME SubTypeOK, TopicsInv, LeaseInv PROVE LeaseHeld
<1> SUFFICES ASSUME held, failed <= Tolerated PROVE lease > 0
  BY DEF LeaseHeld
<1>1. LeaseCovers /\ up /\ caller.n \in 1 .. 17
  BY CallNames DEF LeaseInv, TopicsInv, DownIsEmpty, SubTypeOK
<1>2. Left = Lease - Latency - RenewPeriod - Timeout /\ Left > 0
  BY Costs, CallTimes, SubNumbers DEF Left
<1>3. ASSUME failed >= 1 PROVE Cost(failed - 1) <= Cost(Tolerated - 1)
  <2>1. failed - 1 \in Nat /\ failed - 1 <= Tolerated - 1
    BY <1>3, SubNumbers
  <2>2. QED BY <2>1, Costs
<1>4. ASSUME NEW spent \in Nat, spent <= CallTime(16), failed >= 1,
             Covers(spent, failed - 1)
      PROVE  lease > 0
  <2>1. /\ Cost(failed - 1) \in Int /\ Cost(Tolerated - 1) \in Nat
        /\ CallTime(16) \in Nat /\ Cost(Tolerated - 1) + CallTime(16) < Left
    BY Costs, CallTimes, SubNumbers
  <2>2. QED BY <1>3, <1>4, <2>1, SubNumbers DEF Covers
<1>5. ASSUME NEW n \in 1 .. 16
      PROVE  CallTime(n - 1) \in Nat /\ CallTime(n - 1) + Latency <= CallTime(16)
  <2>1. n - 1 \in Nat /\ n - 1 <= 15
    BY <1>5
  <2>2. CallTime(n - 1) <= CallTime(15) /\ CallTime(n - 1) \in Nat /\ CallTime(15) \in Nat
    BY <2>1, CallTimes
  <2>3. QED BY <2>2, CallTimes, SubNumbers
<1>a. CallTime(16) \in Nat
  BY CallTimes
<1>b. caller.timer \in Nat
  BY DEF SubTypeOK
\* what one attempt takes counts as the cost of one more failure
<1>6. ASSUME NEW spent \in Nat, spent <= Attempt, failed >= 2, Covers(spent, failed - 2)
      PROVE  lease > 0
  <2>1. Cost(failed - 1) = Cost(failed - 2) + Attempt /\ Cost(failed - 2) \in Int
    <3>1. failed - 2 \in Int /\ (failed - 2) + 1 = failed - 1
      BY SubNumbers
    <3>2. QED BY <3>1, Costs
  <2>2. Covers(0, failed - 1)
    BY <1>6, <2>1, SubNumbers DEF Covers
  <2>3. CallTime(16) \in Nat /\ failed >= 1
    BY <1>6, CallTimes, SubNumbers
  <2>4. QED BY <1>4, <2>2, <2>3
<1>7. CASE caller.pc = "sleep"
  <2>1. caller.timer <= RenewPeriod
    BY <1>7, DeadlineType
  <2>2. QED BY <1>1, <1>2, <1>7, <2>1, SubNumbers DEF LeaseCovers
<1>8. CASE caller.n = 17 /\ caller.pc = "call"
  BY <1>1, <1>2, <1>8, SubNumbers DEF LeaseCovers
<1>9. CASE caller.n = 17 /\ caller.pc = "wait" /\ caller.outcome # "ok"
  <2>1. caller.timer <= Timeout
    BY <1>9, DeadlineType, SubNumbers DEF SubTypeOK
  <2>2. QED BY <1>1, <1>2, <1>9, <2>1, SubNumbers DEF LeaseCovers
<1>10. CASE caller.n = 17 /\ caller.pc = "wait" /\ caller.outcome = "ok"
  <2>1. caller.timer <= Latency /\ Lease <= lease + caller.timer
    BY <1>1, <1>10, DeadlineType DEF TopicsInv, AnswerUnderway
  <2>2. QED BY <2>1, <1>2, SubNumbers
<1>11. CASE caller.n \in 1 .. 16 /\ caller.pc = "call"
  <2>1. failed >= 1 /\ Covers(CallTime(caller.n - 1), failed - 1)
    BY <1>1, <1>11 DEF LeaseCovers
  <2>2. /\ CallTime(caller.n - 1) \in Nat
        /\ CallTime(caller.n - 1) + Latency <= CallTime(16)
    BY <1>5, <1>11
  <2>3. CallTime(caller.n - 1) <= CallTime(16)
    BY <1>a, <2>2, SubNumbers
  <2>4. QED BY <1>4, <2>1, <2>2, <2>3
<1>12. CASE caller.n \in 1 .. 16 /\ caller.pc = "wait" /\ caller.outcome = "ok"
  <2>1. failed >= 1 /\ Covers(caller.timer + CallTime(caller.n - 1), failed - 1)
    BY <1>1, <1>12 DEF LeaseCovers
  <2>2. caller.timer <= Latency
    BY <1>12, DeadlineType
  <2>3. /\ CallTime(caller.n - 1) \in Nat
        /\ CallTime(caller.n - 1) + Latency <= CallTime(16)
    BY <1>5, <1>12
  <2>4. /\ caller.timer + CallTime(caller.n - 1) \in Nat
        /\ caller.timer + CallTime(caller.n - 1) <= CallTime(16)
    BY <1>a, <1>b, <2>2, <2>3, SubNumbers
  <2>5. QED BY <1>4, <2>1, <2>4
<1>13. CASE caller.n \in 1 .. 16 /\ caller.pc = "wait" /\ caller.outcome # "ok"
  <2>1. /\ caller.n # 1 /\ failed >= 2
        /\ Covers(caller.timer + CallTime(caller.n - 1), failed - 2)
    BY <1>1, <1>13 DEF LeaseCovers
  <2>2. caller.timer <= Timeout
    BY <1>13, <2>1, DeadlineType, SubNumbers DEF SubTypeOK
  <2>3. Attempt = CallTime(16) + Timeout + RetryPause
    BY Budget, CallTimes
  <2>4. /\ CallTime(caller.n - 1) \in Nat
        /\ CallTime(caller.n - 1) + Latency <= CallTime(16)
    BY <1>5, <1>13
  <2>5. /\ caller.timer + CallTime(caller.n - 1) \in Nat
        /\ caller.timer + CallTime(caller.n - 1) <= Attempt
    BY <1>a, <1>b, <2>2, <2>3, <2>4, SubNumbers
  <2>6. QED BY <1>6, <2>1, <2>5
<1>14. CASE caller.pc = "pause"
  <2>1. failed >= 2 /\ Covers(caller.timer + CallTime(15) + Timeout, failed - 2)
    BY <1>1, <1>14 DEF LeaseCovers
  <2>2. caller.timer <= RetryPause
    BY <1>14, DeadlineType
  <2>3. CallTime(15) \in Nat /\ Attempt = CallTime(15) + Latency + Timeout + RetryPause
    BY Budget, CallTimes
  <2>4. /\ caller.timer + CallTime(15) + Timeout \in Nat
        /\ caller.timer + CallTime(15) + Timeout <= Attempt
    BY <2>2, <2>3, SubNumbers
  <2>5. QED BY <1>6, <2>1, <2>4
<1>15. CASE caller.pc = "undefined"
  BY <1>1, <1>15 DEF LeaseCovers
<1>16. QED
  BY <1>1, <1>7, <1>8, <1>9, <1>10, <1>11, <1>12, <1>13, <1>14, <1>15
  DEF SubTypeOK

(* A renewal that is lost, and further failures up to Tolerated, do not    *)
(* cost the lease, for any times that keep the budget (DataReceiver::run). *)
THEOREM SubLeaseHeld == SubSpec => []LeaseHeld
<1>1. SubInit => LeaseInv
  BY DEF SubInit, LeaseInv
<1>2. SubTypeOK /\ TopicsInv /\ LeaseInv => LeaseHeld
  BY LeaseCoversIsHeld
<1>3. QED
  BY <1>1, <1>2, LeaseStep, SubInvariant, PTL DEF SubSpec

-----------------------------------------------------------------------------
(* Configuration: the tables the renew thread fills in place.              *)

\* the steps of a fill that follow one of its calls
FromSet        == {"set", "register", "notify", "content"}
FromPlans      == {"plans", "plansAnswer"} \cup FromSet
FromDerive     == {"derive"} \cup FromPlans
FromLampStates == {"lampStates"} \cup FromDerive
FromLamps      == {"lamps"} \cup FromLampStates
FromGeneral    == {"general"} \cup FromLamps
FromGroups     == {"groups"} \cup FromGeneral
Filling        == {"infos", "igts"} \cup FromGroups

\* a record of the counts
CountsOf(e) ==
  e = [bAnzSG |-> e.bAnzSG, bMaxSgNo |-> e.bMaxSgNo, bAnzTK |-> e.bAnzTK,
       bMaxTkNo |-> e.bMaxTkNo, bInputCnt |-> e.bInputCnt,
       bMaxInputNo |-> e.bMaxInputNo, bAnzSipl |-> e.bAnzSipl]

\* the types of what TypeOK leaves open
ConfigTypes ==
  /\ TypeOK
  /\ sgInfo = [s \in DOMAIN sgInfo |-> sgInfo[s]]
  /\ main = [pc |-> main.pc, lamps |-> main.lamps]
  /\ main.lamps \subseteq 1 .. MAX_SIGNALGRUPPEN
  /\ CountsOf(eckdaten)
  /\ spls \in Seq([no : Nat, version : Version])

\* what has been filled, from whatever version
DetsFilled   == \E v \in Version : dets = Cfg[v].dets
IgtsFilled   == \E v \in Version : \A t \in Cfg[v].tables : igts[t] # None
GroupsFilled == \E v \in Version : Groups(v) \subseteq DOMAIN sgInfo
LampsFilled  == \E v \in Version : Groups(v) \subseteq lamps

FilledInv ==
  /\ renew.pc \in Filling => DetsFilled
  /\ renew.pc \in FromGroups \ {"notify", "content"} => IgtsFilled
  /\ renew.pc \in FromGeneral \ {"notify", "content"} => GroupsFilled
  /\ renew.pc \in {"lampStates", "plans", "plansAnswer", "set", "register"}
     => LampsFilled
  /\ renew.pc = "derive" /\ renew.clnt => LampsFilled
  /\ "config" \in registry =>
       DetsFilled /\ IgtsFilled /\ GroupsFilled /\ LampsFilled

\* what is derived belongs to the signal groups, and to the detectors
GroupsDerived ==
  /\ eckdaten.bAnzSG = Cardinality(DOMAIN sgInfo)
  /\ sgInfo # << >> => eckdaten.bMaxSgNo \in DOMAIN sgInfo
  /\ \A s \in DOMAIN sgInfo : /\ s <= eckdaten.bMaxSgNo
                              /\ Cfg[sgInfo[s]].groups[s].pi <= eckdaten.bMaxTkNo
  /\ \A m \in mdl : m.sgNo \in DOMAIN sgInfo /\ m.version = sgInfo[m.sgNo]

InputsDerived ==
  /\ eckdaten.bInputCnt = Cardinality(dets) % 256
  /\ dets # {} => eckdaten.bMaxInputNo \in dets
  /\ \A d \in dets : d <= eckdaten.bMaxInputNo

DerivedInv ==
  /\ Derived => InputsDerived
  /\ ~Deriving /\ renew.pc # "undefined" => GroupsDerived
  /\ eckdaten.bAnzSipl \in {0, Len(spls)}
  /\ renew.pc \in {"plans", "plansAnswer"} => eckdaten.bAnzSipl = 0
  /\ renew.pc = "plansAnswer" => spls = << >>

\* the tables that hold the inventory
IgtsMatch   == \A t \in Cfg[inventory].tables : igts[t] = inventory
GroupsMatch == \A s \in Groups(inventory) :
                 s \in DOMAIN sgInfo /\ sgInfo[s] = inventory
MdlMatch    == \A s \in Groups(inventory) : \A l \in Cfg[inventory].groups[s].lists :
                 s < MAX_SIGNALGRUPPEN =>
                   [list |-> l % 100, sgNo |-> s, version |-> inventory] \in mdl
SplsMatch   ==
  /\ spls = [i \in DOMAIN Cfg[inventory].plans |->
               [no |-> Cfg[inventory].plans[i], version |-> inventory]]
  /\ eckdaten.bAnzSipl = Len(Cfg[inventory].plans)

MatchInv ==
  /\ renew.pc \notin {"derive", "notify", "undefined"} => renew.clnt
  /\ calm /\ renew.clnt =>
       /\ renew.pc \in Filling => dets = Cfg[inventory].dets
       /\ renew.pc \in FromGroups => IgtsMatch
       /\ renew.pc \in FromGeneral => GroupsMatch
       /\ renew.pc \in FromLamps => generalParam = inventory
       /\ renew.pc \in FromLampStates => Groups(inventory) \subseteq lamps
       /\ renew.pc \in FromPlans => MdlMatch
       /\ renew.pc \in FromSet => SplsMatch

(* A set of numbers that is not empty has a smallest one: what getSpl and  *)
(* fillEckdaten find is there to be found.                                 *)
LEMMA Smallest ==
  ASSUME NEW T \in SUBSET Nat, T # {}
  PROVE  \E x \in T : \A y \in T : x <= y
<1>1. IsWellFoundedOn(OpToRel(<, Nat), Nat)
  BY NatLessThanWellFounded
<1>2. PICK x \in T : \A y \in T : ~(<<y, x>> \in OpToRel(<, Nat))
  BY <1>1, WFMin
<1>3. \A y \in T : y \in Nat /\ x \in Nat /\ ~(y < x)
  BY <1>2 DEF OpToRel
<1>4. QED BY <1>3

(* A set of numbers up to a limit has a largest one (fillEckdaten).        *)
LEMMA Largest ==
  ASSUME NEW n \in Nat, NEW T \in SUBSET (0 .. n), T # {}
  PROVE  \E x \in T : \A y \in T : x >= y
<1> DEFINE U == {n - x : x \in T}
<1>1. U \in SUBSET Nat /\ U # {}
  <2>1. PICK x \in T : TRUE
    OBVIOUS
  <2>2. n - x \in U
    BY <2>1
  <2>3. \A y \in T : n - y \in Nat
    OBVIOUS
  <2>4. QED BY <2>2, <2>3
<1>2. PICK u \in U : \A w \in U : u <= w
  BY <1>1, Smallest
<1>3. PICK x \in T : u = n - x
  BY <1>2
<1>4. \A y \in T : n - x <= n - y
  BY <1>2, <1>3
<1>5. \A y \in T : x >= y
  BY <1>4
<1>6. QED BY <1>5

(* The running maximum is one of the numbers, if there are any, and no     *)
(* number is above it (fillEckdaten).                                      *)
LEMMA HighestIsHighest ==
  ASSUME NEW n \in Nat, NEW T \in SUBSET (0 .. n)
  PROVE  /\ T # {} => Highest(T) \in T
         /\ \A x \in T : x <= Highest(T)
<1> DEFINE U == T \cup {0}
           h == CHOOSE x \in U : \A y \in U : x >= y
<1>1. U \in SUBSET (0 .. n) /\ U # {}
  OBVIOUS
<1>2. \E x \in U : \A y \in U : x >= y
  BY <1>1, Largest
<1>3. h \in U /\ \A y \in U : h >= y
  BY <1>2
<1>4. Highest(T) \in U /\ \A y \in T : Highest(T) >= y
  <2>1. PICK x \in U : \A y \in U : x >= y
    BY <1>2
  <2>2. x \in T \cup {0} /\ \A y \in T : x >= y
    BY <2>1
  <2>3. QED BY <2>2 DEF Highest
<1> HIDE DEF h
<1>5. \A x \in T : x \in Nat /\ x <= Highest(T)
  BY <1>1, <1>4
<1>6. ASSUME T # {} PROVE Highest(T) \in T
  <2>1. PICK x \in T : TRUE
    BY <1>6
  <2>2. x \in Nat /\ Highest(T) >= x
    BY <1>4, <1>5
  <2>3. Highest(T) \in T \/ Highest(T) = 0
    BY <1>4
  <2>4. QED BY <2>1, <2>2, <2>3
<1>7. QED BY <1>5, <1>6

(* Without signal groups the map is the empty map (Config::sgInfo).        *)
LEMMA NoGroups ==
  ASSUME sgInfo = [s \in DOMAIN sgInfo |-> sgInfo[s]]
  PROVE  sgInfo # << >> <=> DOMAIN sgInfo # {}
<1>1. ASSUME DOMAIN sgInfo = {} PROVE sgInfo = << >>
  <2>1. sgInfo \in [1 .. 0 -> {}]
    BY <1>1
  <2>2. sgInfo \in Seq({}) /\ Len(sgInfo) = 0
    BY <2>1, SeqDef, 1 .. 0 = {}
  <2>3. QED BY <2>2, EmptySeq
<1>2. ASSUME sgInfo = << >> PROVE DOMAIN sgInfo = {}
  BY <1>2
<1>3. QED BY <1>1, <1>2

LEMMA ConfigTypesInit == Init => ConfigTypes
<1> SUFFICES ASSUME Init PROVE ConfigTypes
  OBVIOUS
<1>1. sgInfo = [s \in DOMAIN sgInfo |-> sgInfo[s]] /\ DOMAIN sgInfo = {}
  BY DEF Init
<1>2. spls \in Seq([no : Nat, version : Version])
  BY DEF Init
<1>3. TypeOK
  BY <1>1, ConfigurationAssumption DEF Init, TypeOK, RenewPCs
<1>4. QED
  BY <1>1, <1>2, <1>3 DEF Init, ConfigTypes, Counts, CountsOf

(* Where a step leads the renew thread is a step of it.                    *)
LEMMA GotoTypes ==
  ASSUME NEW pc \in RenewPCs, NEW clnt \in BOOLEAN, Goto(pc, clnt) \/ Crash
  PROVE  renew' \in [pc : RenewPCs, clnt : BOOLEAN]
<1>1. CASE Goto(pc, clnt)
  BY <1>1 DEF Goto
<1>2. CASE Crash
  BY <1>2 DEF Goto, Crash, RenewPCs
<1>3. QED BY <1>1, <1>2

LEMMA GotoPCs ==
  ASSUME TypeOK, [Next]_vars
  PROVE  renew' \in [pc : RenewPCs, clnt : BOOLEAN]
<1>1. CASE UNCHANGED renew
  BY <1>1 DEF TypeOK
<1>2. ASSUME NEW clnt \in BOOLEAN, NEW pc \in RenewPCs, Goto(pc, clnt) PROVE renew' \in [pc : RenewPCs, clnt : BOOLEAN]
  BY <1>2, GotoTypes
<1>3. Crash => renew' \in [pc : RenewPCs, clnt : BOOLEAN]
  BY DEF Crash, Goto, RenewPCs
<1>4. {"infos", "igts", "notify", "groups", "general", "lamps", "derive", "lampStates",
       "plans", "plansAnswer", "set", "register", "content", "detectors"} \subseteq RenewPCs
  BY DEF RenewPCs
<1>5. renew.clnt \in BOOLEAN
  BY DEF TypeOK
<1>6. QED
  BY <1>1, <1>2, <1>3, <1>4, <1>5
  DEF Next, FillDetectors, FillInfos, FillIgts, FillSgInfo, FillGeneralParam,
      FillLampStates, UpdateLampStates, Derive, ClearSpls, FillSpls, SetConfig,
      Register, SetNotification, Resubscribe, CheckConfig, Activate, Cleanup,
      ArchiveInsertEvent, StoreLampStates, Restart, vars

(* The plans of a version, behind those that stand in the table (fillSpls).*)
LEMMA PlansAppended ==
  ASSUME NEW v \in Version, spls \in Seq([no : Nat, version : Version])
  PROVE  spls \o [i \in DOMAIN Cfg[v].plans |-> [no |-> Cfg[v].plans[i], version |-> v]]
           \in Seq([no : Nat, version : Version])
<1> DEFINE Plan == [no : Nat, version : Version]
           plans == Cfg[v].plans
           read == [i \in DOMAIN plans |-> [no |-> plans[i], version |-> v]]
<1>1. plans \in Seq(Nat)
  BY ConfigurationAssumption
<1>2. Len(plans) \in Nat /\ DOMAIN plans = 1 .. Len(plans)
      /\ \A i \in 1 .. Len(plans) : plans[i] \in Nat
  BY <1>1
<1>3. read \in [1 .. Len(plans) -> Plan]
  BY <1>2
<1>4. read \in Seq(Plan) /\ spls \in Seq(Plan)
  BY <1>2, <1>3, SeqDef
<1> HIDE DEF read, Plan
<1>5. spls \o read \in Seq(Plan)
  BY <1>4, ConcatProperties
<1>6. QED BY <1>5 DEF read, Plan

(* In the empty table stand afterwards the plans of the version, and no    *)
(* other (fillSpls).                                                       *)
LEMMA PlansRead ==
  ASSUME NEW v \in Version
  PROVE  LET read == [i \in DOMAIN Cfg[v].plans |-> [no |-> Cfg[v].plans[i], version |-> v]]
         IN  << >> \o read = read /\ Len(read) = Len(Cfg[v].plans)
<1> DEFINE Plan == [no : Nat, version : Version]
           plans == Cfg[v].plans
           read == [i \in DOMAIN plans |-> [no |-> plans[i], version |-> v]]
<1>1. plans \in Seq(Nat)
  BY ConfigurationAssumption
<1>2. Len(plans) \in Nat /\ DOMAIN plans = 1 .. Len(plans)
      /\ \A i \in 1 .. Len(plans) : plans[i] \in Nat
  BY <1>1
<1>3. read \in [1 .. Len(plans) -> Plan] /\ DOMAIN read = 1 .. Len(plans)
  BY <1>2
<1>4. read \in Seq(Plan) /\ DOMAIN read = 1 .. Len(plans) /\ Len(plans) \in Nat
  BY <1>2, <1>3, SeqDef
<1> HIDE DEF read, Plan, plans
<1>5. << >> \o read = read
  BY <1>4, ConcatEmptySeq
<1>6. Len(read) = Len(plans)
  BY <1>4
<1>7. QED BY <1>5, <1>6 DEF read, plans

LEMMA ConfigTypesStep == ConfigTypes /\ [Next]_vars => ConfigTypes'
<1> SUFFICES ASSUME ConfigTypes, [Next]_vars PROVE ConfigTypes'
  OBVIOUS
<1> USE DEF ConfigTypes, TypeOK, fw, config, CountsOf
<1>a. renew' \in [pc : RenewPCs, clnt : BOOLEAN]
  BY GotoPCs
<1>1. inventory \in Version /\ Groups(inventory) \subseteq 1 .. MAX_SIGNALGRUPPEN
  BY ConfigurationAssumption
<1>2. CASE FillDetectors
  BY <1>a, <1>2 DEF FillDetectors
<1>3. CASE FillInfos
  BY <1>a, <1>3 DEF FillInfos, tables
<1>4. CASE FillIgts
  BY ZenonT(60), <1>a, <1>1, <1>4 DEF FillIgts
<1>5. CASE FillSgInfo
  <2>1. /\ DOMAIN sgInfo' \subseteq 1 .. MAX_SIGNALGRUPPEN
        /\ sgInfo' = [s \in DOMAIN sgInfo' |-> sgInfo'[s]]
    BY <1>a, <1>1, <1>5 DEF FillSgInfo
  <2>2. ASSUME NEW s \in DOMAIN sgInfo'
        PROVE  sgInfo'[s] \in Version /\ s \in Groups(sgInfo'[s])
    BY ZenonT(60), <1>a, <1>1, <1>5, <2>2 DEF FillSgInfo
  <2>3. QED BY <1>a, <1>5, <2>1, <2>2 DEF FillSgInfo
<1>6. CASE FillGeneralParam
  BY <1>a, <1>1, <1>6 DEF FillGeneralParam
<1>7. CASE FillLampStates
  BY <1>a, <1>1, <1>7 DEF FillLampStates
<1>8. CASE UpdateLampStates
  BY <1>a, <1>1, <1>8 DEF UpdateLampStates
<1>9. CASE Derive
  BY <1>a, <1>9 DEF Derive, Eckdaten
<1>10. CASE ClearSpls
  <2>1. spls' \in Seq([no : Nat, version : Version])
    BY <1>a, <1>10 DEF ClearSpls
  <2>2. QED BY <1>a, <1>10, <2>1 DEF ClearSpls
<1>11. CASE FillSpls
  <2>1. spls' \in Seq([no : Nat, version : Version])
    BY <1>1, <1>11, PlansAppended DEF FillSpls
  <2>2. CountsOf(eckdaten')
    BY <1>a, <1>11 DEF FillSpls
  <2>3. QED BY <1>a, <1>11, <2>1, <2>2 DEF FillSpls
<1>12. CASE SetConfig
  BY <1>a, <1>12 DEF SetConfig, tables
<1>13. CASE Register
  BY <1>a, <1>13 DEF Register, tables
<1>14. CASE SetNotification
  BY <1>a, <1>14 DEF SetNotification, tables
<1>15. CASE Resubscribe
  BY <1>a, <1>15 DEF Resubscribe, tables
<1>16. CASE CheckConfig
  BY <1>a, <1>16 DEF CheckConfig, tables
<1>17. CASE Activate
  BY ZenonT(60), <1>a, <1>17 DEF Activate, tables
<1>18. CASE Cleanup
  BY <1>a, <1>18 DEF Cleanup, tables
<1>19. CASE ArchiveInsertEvent
  BY <1>a, <1>1, <1>19 DEF ArchiveInsertEvent, tables
<1>20. CASE StoreLampStates
  BY <1>a, <1>20 DEF StoreLampStates
<1>21. CASE Restart
  BY <1>a, <1>21 DEF Restart, tables
<1>22. CASE UNCHANGED vars
  BY <1>a, <1>22 DEF vars, tables
<1>23. QED
  BY <1>2, <1>3, <1>4, <1>5, <1>6, <1>7, <1>8, <1>9, <1>10, <1>11, <1>12, <1>13,
     <1>14, <1>15, <1>16, <1>17, <1>18, <1>19, <1>20, <1>21, <1>22 DEF Next

(* What has been filled once stays filled: a call that fails leaves the    *)
(* table, one that succeeds fills it again (Config::fill).                 *)
LEMMA FilledStays ==
  ASSUME TypeOK, [Next]_vars
  PROVE  /\ DetsFilled => DetsFilled'
         /\ IgtsFilled => IgtsFilled'
         /\ GroupsFilled => GroupsFilled'
         /\ LampsFilled => LampsFilled'
<1>1. inventory \in Version /\ None \notin Version
  BY ConfigurationAssumption DEF TypeOK
<1>2. dets' \in {dets, Cfg[inventory].dets}
  BY DEF Next, FillDetectors, FillInfos, FillIgts, FillSgInfo, FillGeneralParam,
     FillLampStates, UpdateLampStates, Derive, ClearSpls, FillSpls, SetConfig,
     Register, SetNotification, Resubscribe, CheckConfig, Activate, Cleanup,
     ArchiveInsertEvent, StoreLampStates, Restart, vars, tables
<1>3. igts' = igts \/ FillIgts
  BY DEF Next, FillDetectors, FillInfos, FillIgts, FillSgInfo, FillGeneralParam,
     FillLampStates, UpdateLampStates, Derive, ClearSpls, FillSpls, SetConfig,
     Register, SetNotification, Resubscribe, CheckConfig, Activate, Cleanup,
     ArchiveInsertEvent, StoreLampStates, Restart, vars, tables, config
<1>4. sgInfo' = sgInfo \/ FillSgInfo
  BY DEF Next, FillDetectors, FillInfos, FillIgts, FillSgInfo, FillGeneralParam,
     FillLampStates, UpdateLampStates, Derive, ClearSpls, FillSpls, SetConfig,
     Register, SetNotification, Resubscribe, CheckConfig, Activate, Cleanup,
     ArchiveInsertEvent, StoreLampStates, Restart, vars, tables, config
<1>5. DetsFilled => DetsFilled'
  BY <1>1, <1>2 DEF DetsFilled
<1>6. ASSUME IgtsFilled PROVE IgtsFilled'
  <2>1. PICK v \in Version : \A t \in Cfg[v].tables : igts[t] # None
    BY <1>6 DEF IgtsFilled
  <2>2. Cfg[v].tables \subseteq Table
    BY ConfigurationAssumption
  <2>3. \A t \in Cfg[v].tables : igts'[t] # None
    BY <1>1, <1>3, <2>1, <2>2 DEF FillIgts
  <2>4. QED BY <2>3 DEF IgtsFilled
<1>7. DOMAIN sgInfo \subseteq DOMAIN sgInfo'
  BY <1>4 DEF FillSgInfo
<1>8. GroupsFilled => GroupsFilled'
  BY <1>7 DEF GroupsFilled
<1>9. lamps \subseteq lamps' \/ lamps' = Groups(inventory)
  BY DEF Next, FillDetectors, FillInfos, FillIgts, FillSgInfo, FillGeneralParam,
     FillLampStates, UpdateLampStates, Derive, ClearSpls, FillSpls, SetConfig,
     Register, SetNotification, Resubscribe, CheckConfig, Activate, Cleanup,
     ArchiveInsertEvent, StoreLampStates, Restart, vars, tables
<1>10. LampsFilled => LampsFilled'
  BY <1>1, <1>9 DEF LampsFilled
<1>11. QED BY <1>5, <1>6, <1>8, <1>10

LEMMA FilledStep == ConfigTypes /\ FilledInv /\ [Next]_vars => FilledInv'
<1> SUFFICES ASSUME ConfigTypes, FilledInv, [Next]_vars PROVE FilledInv'
  OBVIOUS
<1>1. TypeOK /\ inventory \in Version
  BY DEF ConfigTypes, TypeOK
<1>2. /\ DetsFilled => DetsFilled'
      /\ IgtsFilled => IgtsFilled'
      /\ GroupsFilled => GroupsFilled'
      /\ LampsFilled => LampsFilled'
  BY <1>1, FilledStays
<1> USE DEF FilledInv, Filling, FromGroups, FromGeneral, FromLamps, FromLampStates,
            FromDerive, FromPlans, FromSet, Goto, Crash
<1>3. CASE FillDetectors
  <2>1. renew'.pc = "infos" => DetsFilled'
    BY <1>1, <1>3 DEF FillDetectors, DetsFilled, fw
  <2>2. QED BY <1>2, <1>3, <2>1 DEF FillDetectors
<1>4. CASE FillInfos
  BY <1>2, <1>4 DEF FillInfos
<1>5. CASE FillIgts
  <2>1. ASSUME renew'.pc = "groups" PROVE IgtsFilled'
    <3>1. igts' = [t \in Table |-> IF t \in Cfg[inventory].tables
                                    THEN inventory ELSE igts[t]]
      BY <1>5, <2>1 DEF FillIgts
    <3>2. Cfg[inventory].tables \subseteq Table /\ inventory # None
      BY <1>1, ConfigurationAssumption
    <3>3. \A t \in Cfg[inventory].tables : igts'[t] # None
      BY <3>1, <3>2
    <3>4. QED BY <1>1, <3>3 DEF IgtsFilled
  <2>2. QED BY <1>2, <1>5, <2>1 DEF FillIgts
<1>6. CASE FillSgInfo
  <2>1. ASSUME renew'.pc = "general" PROVE GroupsFilled'
    BY <1>1, <1>6, <2>1 DEF FillSgInfo, GroupsFilled
  <2>2. QED BY <1>2, <1>6, <2>1 DEF FillSgInfo
<1>7. CASE FillGeneralParam
  BY <1>2, <1>7 DEF FillGeneralParam
<1>8. CASE FillLampStates
  <2>1. ASSUME renew'.pc = "lampStates" PROVE LampsFilled'
    BY <1>1, <1>8, <2>1 DEF FillLampStates, LampsFilled
  <2>2. QED BY <1>2, <1>8, <2>1 DEF FillLampStates
<1>9. CASE UpdateLampStates
  BY <1>2, <1>9 DEF UpdateLampStates
<1>10. CASE Derive
  BY <1>2, <1>10 DEF Derive
<1>11. CASE ClearSpls
  BY <1>2, <1>11 DEF ClearSpls
<1>12. CASE FillSpls
  BY <1>2, <1>12 DEF FillSpls
<1>13. CASE SetConfig
  BY <1>2, <1>13 DEF SetConfig
<1>14. CASE Register
  BY <1>2, <1>14 DEF Register
<1>15. CASE SetNotification
  BY <1>2, <1>15 DEF SetNotification
<1>16. CASE Resubscribe
  BY <1>2, <1>16 DEF Resubscribe
<1>17. CASE UNCHANGED <<renew, registry>>
  BY <1>2, <1>17
<1>18. QED
  BY <1>3, <1>4, <1>5, <1>6, <1>7, <1>8, <1>9, <1>10, <1>11, <1>12, <1>13, <1>14,
     <1>15, <1>16, <1>17
  DEF Next, CheckConfig, Activate, Cleanup, ArchiveInsertEvent, StoreLampStates,
      Restart, vars

(* What the theorem's invariants have in common: a run of the              *)
(* configuration keeps the types.                                          *)
LEMMA ConfigInvariant == Spec => []ConfigTypes
BY ConfigTypesInit, ConfigTypesStep, PTL DEF Spec

(* The inter green times, the signal groups, the detectors and the lamp    *)
(* states the TA is started on are those of complete answers, however many *)
(* attempts failed before (InstRegistry::isReady4Init): the configuration  *)
(* is set by an attempt that went through these tables, and one that has   *)
(* been filled is never emptied.                                           *)
THEOREM ConfigReadyIsFilled == Spec => []ReadyIsFilled
<1>1. Init => FilledInv
  BY DEF Init, FilledInv, Filling, FromGroups, FromGeneral, FromLamps,
         FromLampStates, FromDerive, FromPlans, FromSet
<1>2. FilledInv => ReadyIsFilled
  BY DEF FilledInv, ReadyIsFilled, DetsFilled, IgtsFilled, GroupsFilled, LampsFilled
<1>3. QED
  BY <1>1, <1>2, FilledStep, ConfigInvariant, PTL DEF Spec

(* The counts and lists that fillEckdaten and fillMindauern derive are     *)
(* those of the signal groups and of the detectors.                        *)
LEMMA DeriveIsRight ==
  ASSUME ConfigTypes, FilledInv, Derive
  PROVE  GroupsDerived' /\ InputsDerived' /\ eckdaten'.bAnzSipl = 0
<1> DEFINE pis == {Cfg[sgInfo[s]].groups[s].pi : s \in DOMAIN sgInfo}
<1>1. /\ sgInfo' = sgInfo /\ dets' = dets
      /\ eckdaten' = Eckdaten /\ mdl' = Mindauern
  BY DEF Derive
<1>2. /\ eckdaten'.bAnzSG = Cardinality(DOMAIN sgInfo)
      /\ eckdaten'.bMaxSgNo = Highest(DOMAIN sgInfo)
      /\ eckdaten'.bMaxTkNo = Highest(pis)
      /\ eckdaten'.bInputCnt = Cardinality(dets) % 256
      /\ eckdaten'.bMaxInputNo = Highest(dets)
      /\ eckdaten'.bAnzSipl = 0
  BY <1>1 DEF Eckdaten
<1>3. /\ sgInfo # << >> => Highest(DOMAIN sgInfo) \in DOMAIN sgInfo
      /\ \A s \in DOMAIN sgInfo : s <= Highest(DOMAIN sgInfo)
  <2>1. sgInfo # << >> <=> DOMAIN sgInfo # {}
    BY NoGroups DEF ConfigTypes
  <2>2. MAX_SIGNALGRUPPEN \in Nat /\ DOMAIN sgInfo \in SUBSET (0 .. MAX_SIGNALGRUPPEN)
    BY ConfigurationAssumption DEF ConfigTypes, TypeOK
  <2>3. QED BY <2>1, <2>2, HighestIsHighest
<1>4. \A s \in DOMAIN sgInfo : Cfg[sgInfo[s]].groups[s].pi <= Highest(pis)
  <2>1. \A s \in DOMAIN sgInfo : Cfg[sgInfo[s]].groups[s].pi \in 0 .. 31
    BY ConfigurationAssumption DEF ConfigTypes, TypeOK
  <2>2. pis \in SUBSET (0 .. 31)
    BY <2>1
  <2> HIDE DEF pis
  <2>3. \A n \in pis : n <= Highest(pis)
    BY <2>2, HighestIsHighest
  <2>4. QED BY <2>3 DEF pis
<1>5. /\ dets # {} => Highest(dets) \in dets
      /\ \A d \in dets : d <= Highest(dets)
  <2>1. DetsFilled
    BY DEF FilledInv, Filling, FromGroups, FromGeneral, FromLamps, FromLampStates,
       FromDerive, Derive
  <2>2. dets \in SUBSET (0 .. 255)
    BY <2>1, ConfigurationAssumption DEF DetsFilled
  <2>3. QED BY ZenonT(60), <2>2, HighestIsHighest
<1>6. \A m \in mdl' : m.sgNo \in DOMAIN sgInfo /\ m.version = sgInfo[m.sgNo]
  BY <1>1 DEF Mindauern
<1> HIDE DEF pis
<1>7. GroupsDerived'
  BY <1>1, <1>2, <1>3, <1>4, <1>6 DEF GroupsDerived
<1>8. InputsDerived'
  BY <1>1, <1>2, <1>5 DEF InputsDerived
<1>9. QED BY <1>2, <1>7, <1>8

LEMMA DerivedStep ==
  ConfigTypes /\ FilledInv /\ DerivedInv /\ [Next]_vars => DerivedInv'
<1> SUFFICES ASSUME ConfigTypes, FilledInv, DerivedInv, [Next]_vars PROVE DerivedInv'
  OBVIOUS
<1> USE DEF DerivedInv, Deriving, Derived, Goto, Crash
\* the steps that leave what is derived, and what it is derived from
<1>1. ASSUME UNCHANGED <<sgInfo, eckdaten, mdl>> PROVE GroupsDerived => GroupsDerived'
  BY <1>1 DEF GroupsDerived
<1>a. ASSUME UNCHANGED <<dets, eckdaten>> PROVE InputsDerived => InputsDerived'
  BY <1>a DEF InputsDerived
<1>2. CASE FillDetectors
  BY <1>1, <1>a, <1>2 DEF FillDetectors, config
<1>3. CASE FillInfos
  BY <1>1, <1>a, <1>3 DEF FillInfos, tables
<1>4. CASE FillIgts
  BY <1>1, <1>a, <1>4 DEF FillIgts
<1>5. CASE FillSgInfo
  BY <1>1, <1>a, <1>5 DEF FillSgInfo
<1>6. CASE FillGeneralParam
  BY <1>1, <1>a, <1>6 DEF FillGeneralParam
<1>7. CASE FillLampStates
  BY <1>1, <1>a, <1>7 DEF FillLampStates, config
<1>8. CASE UpdateLampStates
  BY <1>1, <1>a, <1>8 DEF UpdateLampStates, config
<1>9. CASE Derive
  BY <1>9, DeriveIsRight DEF Derive
<1>10. CASE ClearSpls
  BY <1>1, <1>a, <1>10 DEF ClearSpls
<1>11. CASE FillSpls
  <2>1. CASE spls' = spls /\ eckdaten' = eckdaten
    BY <1>1, <1>a, <1>11, <2>1 DEF FillSpls
  <2>2. CASE Goto("set", TRUE)
    <3> DEFINE plans == Cfg[inventory].plans
    <3>1. /\ spls' = spls \o [i \in DOMAIN plans |-> [no |-> plans[i], version |-> inventory]]
          /\ eckdaten' = [eckdaten EXCEPT !.bAnzSipl = Len(plans)]
          /\ renew.pc = "plansAnswer" /\ renew'.pc = "set" /\ UNCHANGED <<dets, sgInfo, mdl>>
      BY <1>11, <2>2 DEF FillSpls
    <3>2. /\ eckdaten'.bAnzSG = eckdaten.bAnzSG /\ eckdaten'.bMaxSgNo = eckdaten.bMaxSgNo
          /\ eckdaten'.bMaxTkNo = eckdaten.bMaxTkNo
          /\ eckdaten'.bInputCnt = eckdaten.bInputCnt
          /\ eckdaten'.bMaxInputNo = eckdaten.bMaxInputNo
          /\ eckdaten'.bAnzSipl = Len(plans)
      BY <3>1 DEF ConfigTypes, CountsOf
    <3>3. GroupsDerived' /\ InputsDerived'
      BY <3>1, <3>2 DEF GroupsDerived, InputsDerived
    <3>4. Len(spls') = Len(plans)
      BY <3>1, PlansRead DEF ConfigTypes, TypeOK
    <3>5. QED BY <3>1, <3>2, <3>3, <3>4
  <2>3. QED BY <1>11, <2>1, <2>2 DEF FillSpls
<1>12. CASE SetConfig
  BY <1>1, <1>a, <1>12 DEF SetConfig, tables
<1>13. CASE Register
  BY <1>1, <1>a, <1>13 DEF Register, tables
<1>14. CASE SetNotification
  BY <1>1, <1>a, <1>14 DEF SetNotification, tables
<1>15. CASE Resubscribe
  BY <1>1, <1>a, <1>15 DEF Resubscribe, tables
<1>16. CASE UNCHANGED <<renew, dets, sgInfo, eckdaten, mdl, spls>>
  BY <1>1, <1>a, <1>16
<1>17. QED
  BY <1>2, <1>3, <1>4, <1>5, <1>6, <1>7, <1>8, <1>9, <1>10, <1>11, <1>12, <1>13,
     <1>14, <1>15, <1>16
  DEF Next, CheckConfig, Activate, Cleanup, ArchiveInsertEvent, StoreLampStates,
      Restart, vars, tables, config

(* The counts and the lists of minimum times belong to the signal groups   *)
(* that are stored, and the plans are counted right or not at all, also    *)
(* after a fill that was given up in between (fillEckdaten, fillMindauern, *)
(* fillSpls); the inputs are counted right once a fill has come that far,  *)
(* until the next begins.                                                  *)
THEOREM ConfigDerivedAgree == Spec => []DerivedAgree
<1>1. Init => DerivedInv
  <2>1. Len(<< >>) = 0 /\ DOMAIN << >> = {} /\ Cardinality({}) = 0
    BY FS_EmptySet
  <2>2. QED BY <2>1 DEF Init, DerivedInv, Derived, GroupsDerived, Counts
<1>2. DerivedInv => DerivedAgree
  BY DEF DerivedInv, DerivedAgree, GroupsDerived, InputsDerived
<1>3. Init => FilledInv
  BY DEF Init, FilledInv, Filling, FromGroups, FromGeneral, FromLamps,
         FromLampStates, FromDerive, FromPlans, FromSet
<1>4. QED
  BY <1>1, <1>2, <1>3, FilledStep, DerivedStep, ConfigInvariant, PTL DEF Spec

(* After Derive the lists of minimum times hold those of the inventory, if *)
(* the groups are the inventory's (fillMindauern).                         *)
LEMMA DerivedMatch ==
  ASSUME TypeOK, GroupsMatch, Derive
  PROVE  MdlMatch'
<1>1. inventory' = inventory /\ mdl' = Mindauern
  BY DEF Derive, fw
<1>2. ASSUME NEW s \in Groups(inventory),
             NEW l \in Cfg[inventory].groups[s].lists, s < MAX_SIGNALGRUPPEN
      PROVE  [list |-> l % 100, sgNo |-> s, version |-> inventory] \in Mindauern
  BY <1>2 DEF GroupsMatch, Mindauern
<1>3. QED BY <1>1, <1>2 DEF MdlMatch, Groups

LEMMA MatchStep == ConfigTypes /\ DerivedInv /\ MatchInv /\ [Next]_vars => MatchInv'
<1> SUFFICES ASSUME ConfigTypes, DerivedInv, MatchInv, [Next]_vars PROVE MatchInv'
  OBVIOUS
<1>1. TypeOK /\ inventory \in Version
  BY DEF ConfigTypes, TypeOK
<1> USE DEF MatchInv, Goto, Crash, Filling, FromGroups, FromGeneral, FromLamps,
            FromLampStates, FromDerive, FromPlans, FromSet
\* the steps that leave a table and the inventory leave that they match
<1>2. ASSUME UNCHANGED <<inventory, igts>> PROVE IgtsMatch => IgtsMatch'
  BY <1>2 DEF IgtsMatch
<1>3. ASSUME UNCHANGED <<inventory, sgInfo>> PROVE GroupsMatch => GroupsMatch'
  BY <1>3 DEF GroupsMatch, Groups
<1>4. ASSUME UNCHANGED <<inventory, mdl>> PROVE MdlMatch => MdlMatch'
  BY <1>4 DEF MdlMatch, Groups
<1>5. ASSUME UNCHANGED <<inventory, spls, eckdaten>> PROVE SplsMatch => SplsMatch'
  BY <1>5 DEF SplsMatch
<1>6. inventory' = inventory => Groups(inventory)' = Groups(inventory)
  BY DEF Groups
<1>7. CASE FillDetectors
  BY <1>7 DEF FillDetectors, fw
<1>8. CASE FillInfos
  BY <1>8 DEF FillInfos, fw, tables
<1>9. CASE FillIgts
  <2>1. ASSUME renew'.pc = "groups" PROVE IgtsMatch'
    BY <1>1, <1>9, <2>1, ConfigurationAssumption DEF FillIgts, fw, IgtsMatch
  <2>2. QED BY <1>9, <2>1 DEF FillIgts, fw
<1>10. CASE FillSgInfo
  <2>1. ASSUME renew'.pc = "general" PROVE GroupsMatch'
    BY <1>10, <2>1 DEF FillSgInfo, fw, GroupsMatch, Groups
  <2>2. QED BY <1>2, <1>10, <2>1 DEF FillSgInfo, fw
<1>11. CASE FillGeneralParam
  BY <1>2, <1>3, <1>11 DEF FillGeneralParam, fw
<1>12. CASE FillLampStates
  BY <1>2, <1>3, <1>6, <1>12 DEF FillLampStates, fw, config
<1>13. CASE UpdateLampStates
  BY <1>2, <1>3, <1>6, <1>13 DEF UpdateLampStates, fw, config
<1>14. CASE Derive
  BY <1>1, <1>2, <1>3, <1>6, <1>14, DerivedMatch DEF Derive, fw
<1>15. CASE ClearSpls
  BY <1>2, <1>3, <1>4, <1>6, <1>15 DEF ClearSpls, fw
<1>16. CASE FillSpls
  <2>1. ASSUME Goto("set", TRUE) PROVE SplsMatch'
    <3> DEFINE plans == Cfg[inventory].plans
    <3>1. /\ spls' = spls \o [i \in DOMAIN plans |-> [no |-> plans[i], version |-> inventory]]
          /\ eckdaten' = [eckdaten EXCEPT !.bAnzSipl = Len(plans)]
          /\ renew.pc = "plansAnswer" /\ renew'.pc = "set" /\ inventory' = inventory
      BY <1>16, <2>1 DEF FillSpls, fw
    <3>2. spls = << >>
      BY <3>1 DEF DerivedInv
    <3>3. spls' = [i \in DOMAIN plans |-> [no |-> plans[i], version |-> inventory]]
      BY <1>1, <3>1, <3>2, PlansRead
    <3>4. eckdaten'.bAnzSipl = Len(plans)
      BY <3>1 DEF ConfigTypes, CountsOf
    <3>5. QED BY <3>1, <3>3, <3>4 DEF SplsMatch
  <2>2. QED BY <1>2, <1>3, <1>4, <1>6, <1>16, <2>1 DEF FillSpls, fw
<1>17. CASE SetConfig
  BY <1>2, <1>3, <1>4, <1>5, <1>6, <1>17 DEF SetConfig, fw, tables
<1>18. CASE Register
  BY <1>2, <1>3, <1>4, <1>5, <1>6, <1>18 DEF Register, tables
<1>19. CASE SetNotification
  BY <1>2, <1>3, <1>4, <1>5, <1>6, <1>19 DEF SetNotification, fw, tables
<1>20. CASE Resubscribe
  BY <1>20 DEF Resubscribe, fw, tables
<1>21. CASE Activate
  BY <1>21 DEF Activate
<1>22. CASE StoreLampStates
  BY <1>2, <1>3, <1>4, <1>5, <1>6, <1>22 DEF StoreLampStates, fw, config
<1>23. CASE UNCHANGED <<inventory, renew, tables, calm>>
  BY <1>2, <1>3, <1>4, <1>5, <1>6, <1>23 DEF tables
<1>24. QED
  BY <1>7, <1>8, <1>9, <1>10, <1>11, <1>12, <1>13, <1>14, <1>15, <1>16, <1>17, <1>18,
     <1>19, <1>20, <1>21, <1>22, <1>23
  DEF Next, CheckConfig, Cleanup, ArchiveInsertEvent, Restart, vars, fw

(* What the TA reads of tables that hold the inventory is the inventory's. *)
LEMMA MatchIsRead ==
  ASSUME ConfigTypes, MatchInv PROVE FilledMatches
<1> SUFFICES ASSUME renew.pc = "content", calm PROVE FilledMatches
  BY DEF FilledMatches
<1>1. /\ dets = Cfg[inventory].dets /\ IgtsMatch /\ GroupsMatch
      /\ generalParam = inventory /\ Groups(inventory) \subseteq lamps
      /\ MdlMatch /\ SplsMatch
  BY DEF MatchInv, Filling, FromGroups, FromGeneral, FromLamps, FromLampStates,
     FromDerive, FromPlans, FromSet
<1>2. /\ inventory \in Version /\ MAX_SIGNALGRUPPEN \in Nat /\ MAX_ZZ_MATRIZEN \in Nat
      /\ Cfg[inventory].tables \subseteq Table
      /\ Groups(inventory) \subseteq 1 .. MAX_SIGNALGRUPPEN
      /\ Cfg[inventory].plans \in Seq(Nat)
  BY ConfigurationAssumption DEF ConfigTypes, TypeOK
<1>3. ASSUME NEW e \in Groups(inventory), NEW r \in Groups(inventory),
             NEW t \in Cfg[inventory].tables
      PROVE  ZZWertLesen(t, e, r) = Found(inventory)
  <2>1. t \in 1 .. MAX_ZZ_MATRIZEN /\ ~(t > MAX_ZZ_MATRIZEN) /\ t # 0
    BY <1>2 DEF Table
  <2>2. /\ e \in DOMAIN sgInfo /\ e <= e
        /\ r \in DOMAIN sgInfo /\ r <= r
    BY <1>1, <1>2 DEF GroupsMatch
  <2>3. igts[t] = inventory
    BY <1>1 DEF IgtsMatch
  <2>4. QED BY <2>1, <2>2, <2>3 DEF ZZWertLesen
<1>4. ASSUME NEW s \in Groups(inventory)
      PROVE  /\ tacConfigIsSgConfigured(s) /\ s \in lamps
             /\ VsgDatenLesen("VD_SIG_BESCHREIBUNG", s) = Found(inventory)
  BY <1>1 DEF GroupsMatch, tacConfigIsSgConfigured, VsgDatenLesen
<1>5. ASSUME NEW s \in Groups(inventory),
             NEW l \in Cfg[inventory].groups[s].lists, s < MAX_SIGNALGRUPPEN
      PROVE  [list |-> l % 100, sgNo |-> s, version |-> inventory]
               \in VsgDatenLesen("VD_MINDESTLISTE", l % 100).value
  <2> DEFINE m == [list |-> l % 100, sgNo |-> s, version |-> inventory]
  <2>1. m \in mdl /\ m.list = l % 100
    BY <1>1, <1>5 DEF MdlMatch
  <2>2. VsgDatenLesen("VD_MINDESTLISTE", l % 100)
          = Found({n \in mdl : n.list = l % 100})
    BY <2>1 DEF VsgDatenLesen
  <2> HIDE DEF m
  <2>3. QED BY <2>1, <2>2 DEF Found, m
<1>6. ASSUME NEW i \in DOMAIN Cfg[inventory].plans
      PROVE  VsgDatenLesen("VD_SIGNALPLAN", Cfg[inventory].plans[i]) = Found(inventory)
  <2> DEFINE no == Cfg[inventory].plans[i]
             same == {j \in DOMAIN spls : spls[j].no = no}
             first == CHOOSE j \in same : \A k \in same : j <= k
  <2>1. /\ DOMAIN spls = DOMAIN Cfg[inventory].plans
        /\ \A j \in DOMAIN spls : /\ spls[j].no = Cfg[inventory].plans[j]
                                  /\ spls[j].version = inventory
    BY <1>1 DEF SplsMatch
  <2>2. i \in same /\ same \in SUBSET Nat
    <3>1. DOMAIN Cfg[inventory].plans \subseteq Nat
      BY <1>2
    <3>2. QED BY <2>1, <3>1
  <2>3. first \in same
    <3> HIDE DEF same
    <3>1. \E j \in same : \A k \in same : j <= k
      BY <2>2, Smallest
    <3>2. QED BY <3>1
  <2>4. spls[first].version = inventory
    BY <2>1, <2>3
  <2>5. VsgDatenLesen("VD_SIGNALPLAN", no) = Found(spls[first].version)
    BY <2>2 DEF VsgDatenLesen
  <2>6. QED BY <2>4, <2>5
<1>7. /\ VsgDatenLesen("VD_STAMMDATEN", 1) = Found(generalParam)
      /\ tacCfgGetGeneralParam(FALSE) = Found(generalParam)
      /\ VsgDatenLesen("VD_ECKDATEN", 1).value.bAnzSipl = eckdaten.bAnzSipl
  BY DEF VsgDatenLesen, tacCfgGetGeneralParam, Found
<1>8. eckdaten.bAnzSipl = Len(Cfg[inventory].plans)
  BY <1>1 DEF SplsMatch
<1>9. QED
  BY <1>1, <1>3, <1>4, <1>5, <1>6, <1>7, <1>8 DEF FilledMatches

(* After a fill the firmware has not disturbed the TA reads the version    *)
(* that is active from every table, whatever the attempts before left      *)
(* there (Config::fill, Archive::fill, Detectors::fill, api_Config.cpp).   *)
THEOREM ConfigFilledMatches == Spec => []FilledMatches
<1>1. Init => DerivedInv
  <2>1. Len(<< >>) = 0 /\ DOMAIN << >> = {} /\ Cardinality({}) = 0
    BY FS_EmptySet
  <2>2. QED BY <2>1 DEF Init, DerivedInv, Derived, GroupsDerived, Counts
<1>2. Init => MatchInv
  BY DEF Init, MatchInv, Filling, FromGroups, FromGeneral, FromLamps,
     FromLampStates, FromDerive, FromPlans, FromSet
<1>3. ConfigTypes /\ MatchInv => FilledMatches
  BY MatchIsRead
<1>4. Init => FilledInv
  BY DEF Init, FilledInv, Filling, FromGroups, FromGeneral, FromLamps,
         FromLampStates, FromDerive, FromPlans, FromSet
<1>5. QED
  BY <1>1, <1>2, <1>3, <1>4, FilledStep, DerivedStep, MatchStep, ConfigInvariant, PTL DEF Spec
=============================================================================
