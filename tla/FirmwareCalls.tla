---------------------------- MODULE FirmwareCalls -----------------------------
(* The calls to the firmware over AwpWrapper's client (awpWrapper.cpp),    *)
(* which the main thread shares with the HTTP thread and the renew thread, *)
(* and what the process remembers of them in order not to repeat itself:   *)
(* the locks it has set (tacSetLockSwitchOff) and the device values it has *)
(* sent (CltDeviceValueProviders).                                         *)
(*                                                                         *)
(* The firmware executes calls in the order in which they were sent, also  *)
(* one whose caller has given up.  It may restart, at another port.        *)
(* Creating a client is one step and fails only while the firmware is      *)
(* down; a call over it may get lost at any time.                          *)
(***************************************************************************)
EXTENDS Integers, Sequences, FiniteSets, Functions

CONSTANTS
  Locks,        \* lock requests that differ
  Oitds,        \* registered device variables
  Values,       \* their values
  None,         \* no lock request, no value
  Others,       \* threads beside the main thread: HTTP, renew
  MaxCalls,     \* bound: calls on their way at a time
  MaxRestarts   \* bound: restarts of the firmware

ASSUME CallsAssumption ==
  /\ Values \subseteq Int /\ -1 \in Values
  /\ MaxCalls \in Nat \ {0} /\ MaxRestarts \in Nat

VARIABLES
  client,     \* AwpWrapper::clnt: the port it calls, 0 if there is none
  thread,     \* the threads that call
  sending,    \* is the main thread at the end of onAwpFunctionCalled?
  calls,      \* calls on their way, in order
  fw,         \* the firmware
  oldLocks,   \* tacSetLockSwitchOff's memory
  subs,       \* CltDeviceValueProviders::subscriptions: oldValue
  undefined,  \* has a client been destroyed that another thread used?
  told,       \* history: locks last reported as set, none since a request
              \* or restart
  unsure,     \* history: may the firmware have other locks than oldLocks?
  missed      \* history: device variables of which a value was not sent

vars == <<client, thread, sending, calls, fw, oldLocks, subs,
          undefined, told, unsure, missed>>

Threads == {"main"} \cup Others

(* setTx, setSignalProgramNumber, processedamli, archivegetyoungest:       *)
(* "plain".  Calls that leave something in the firmware that is remembered *)
(* here, and calls after whose failure the client is destroyed:            *)
Remembered == {"lock", "values"}
OtherOps   == {"plain", "resetcyclemonitor"}
Destroying == {"events", "values", "resetcyclemonitor"}

Idle == [pc |-> "idle", op |-> "none", arg |-> None, sure |-> TRUE]

Init ==
  /\ client = 0
  /\ thread = [u \in Threads |->
                 IF u = "main" THEN [Idle EXCEPT !.pc = "init"] ELSE Idle]
  /\ sending = FALSE /\ calls = <<>>
  /\ fw \in [up : BOOLEAN, port : {1}, restarts : {0}, provider : {FALSE},
             locks : {None}, shown : [Oitds -> {None}]]
  /\ oldLocks = None
  /\ subs = <<>>
  /\ undefined = FALSE /\ told = None /\ unsure = FALSE /\ missed = {}

-----------------------------------------------------------------------------
(* A call: getFwUdpClient or getCCtrlClient, the remote call, its outcome. *)

Connected ==
  \/ client # 0 /\ UNCHANGED client
  \/ client = 0 /\ fw.up /\ client' = fw.port

NotConnected == client = 0 /\ ~fw.up /\ UNCHANGED client

InLock(u) == thread[u].op = "lock"

\* the call may be lost
Call(u, op, arg) ==
  /\ Connected
  /\ \/ UNCHANGED calls
     \/ /\ op \in Remembered /\ fw.up /\ client' = fw.port /\ Len(calls) < MaxCalls
        /\ calls' = Append(calls, [by |-> u, op |-> op, arg |-> arg,
                                   awaited |-> TRUE])
  /\ LET overlap == op = "lock" /\ \E w \in Threads \ {u} : InLock(w)
     IN  thread' = [w \in Threads |->
           IF w = u THEN [pc |-> "waiting", op |-> op, arg |-> arg,
                          sure |-> ~overlap]
           ELSE [thread[w] EXCEPT !.sure = @ /\ ~(overlap /\ InLock(w))]]

\* what a call the firmware grants does to it
Granted(c) ==
  IF c.op = "lock" THEN [fw EXCEPT !.locks = c.arg]
  ELSE [fw EXCEPT !.shown = [o \in Oitds |-> IF o \in DOMAIN c.arg
                                             THEN c.arg[o] ELSE @[o]]]

\* locks can be refused; the answer may be lost, and is if the caller has
\* given up
Execute ==
  /\ calls # <<>> /\ calls' = Tail(calls)
  /\ LET c == Head(calls) IN
     \E granted \in IF c.op = "lock" THEN BOOLEAN ELSE {TRUE} :
       /\ fw' = IF granted THEN Granted(c) ELSE fw
       /\ \/ UNCHANGED thread
          \/ /\ c.awaited
             /\ thread' = [thread EXCEPT ![c.by].pc =
                             IF granted THEN "ok" ELSE "error"]
  /\ UNCHANGED <<client, sending, oldLocks, subs, undefined, told,
                 unsure, missed>>

\* the caller has an answer, or CLSET_TIMEOUT has passed
Outcome(u) == IF thread[u].pc = "waiting" THEN "silent" ELSE thread[u].pc

Returns(u, ops) ==
  /\ thread[u].pc \in {"waiting", "ok", "error"} /\ thread[u].op \in ops
  /\ ~undefined
  /\ thread' = [thread EXCEPT ![u] = Idle]
  /\ calls' = [i \in DOMAIN calls |->
                 [calls[i] EXCEPT !.awaited = @ /\ calls[i].by # u]]

\* mutant: a failed call leaves the client
Disconnect_Never(u, failed) == UNCHANGED <<client, undefined>>

Disconnect(u, failed) ==
  IF failed /\ thread[u].op \in Destroying
  THEN /\ client' = 0
       /\ undefined' = \E w \in Threads \ {u} : thread[w].pc = "waiting"
  ELSE UNCHANGED <<client, undefined>>

OtherReturns(u) ==
  /\ Returns(u, OtherOps \cup {"events"})
  /\ \E failed \in BOOLEAN :
       /\ failed \/ (fw.up /\ client = fw.port)
       /\ Disconnect(u, failed)
  /\ UNCHANGED <<sending, fw, oldLocks, subs, told, unsure, missed>>

-----------------------------------------------------------------------------
(* The TA's calls, those of the HTTP pages and those of Archive::fill.     *)

TaRuns(u) ==
  /\ thread[u].pc = "idle" /\ ~undefined
  /\ u = "main" => ~sending

tacSetLockSwitchOff(u, l) ==
  /\ TaRuns(u)
  /\ IF l = oldLocks
     THEN /\ Connected
          /\ told' = IF \E w \in Threads : InLock(w) THEN None ELSE l
          /\ UNCHANGED <<thread, calls, unsure>>
     ELSE /\ Call(u, "lock", l)
          /\ told' = None
          /\ UNCHANGED unsure
  /\ UNCHANGED <<sending, fw, oldLocks, subs, undefined, missed>>

\* mutant: the locks are remembered whatever the outcome
LockReturns_Stores(u) ==
  /\ Returns(u, {"lock"})
  /\ oldLocks' = thread[u].arg
  /\ told' = IF Outcome(u) = "ok" /\ thread[u].sure THEN thread[u].arg ELSE told
  /\ unsure' = IF Outcome(u) = "ok" THEN ~thread[u].sure
               ELSE unsure \/ Outcome(u) = "silent"
  /\ UNCHANGED <<client, sending, fw, subs, undefined, missed>>

LockReturns(u) ==
  /\ Returns(u, {"lock"})
  /\ oldLocks' = IF Outcome(u) = "ok" THEN thread[u].arg ELSE oldLocks
  /\ told' = IF Outcome(u) = "ok" /\ thread[u].sure THEN thread[u].arg ELSE told
  /\ unsure' = IF Outcome(u) = "ok" THEN ~thread[u].sure
               ELSE unsure \/ Outcome(u) = "silent"
  /\ UNCHANGED <<client, sending, fw, subs, undefined, missed>>

OtherCall(u, op) ==
  /\ TaRuns(u) /\ (u # "main" => op = "plain")
  /\ Call(u, op, None)
  /\ UNCHANGED <<sending, fw, oldLocks, subs, undefined, told, unsure,
                 missed>>

-----------------------------------------------------------------------------
(* onAwpFunctionCalled: switching events, if there are any, then values.   *)

SendEvents ==
  /\ TaRuns("main") /\ sending' = TRUE
  /\ Call("main", "events", None)
  /\ UNCHANGED <<fw, oldLocks, subs, undefined, told, unsure, missed>>

\* none to send, or no client to send them with
SkipEvents ==
  /\ TaRuns("main") /\ sending' = TRUE
  /\ Connected \/ NotConnected
  /\ UNCHANGED <<thread, calls, fw, oldLocks, subs, undefined, told,
                 unsure, missed>>

\* the values getValue returns now; the connection may fail
SendValues(value) ==
  LET changed == {o \in DOMAIN subs : value[o] # subs[o]} IN
  /\ thread["main"].pc = "idle" /\ sending /\ ~undefined
  /\ DOMAIN value = DOMAIN subs /\ subs' = value
  /\ \/ /\ changed # {} /\ Call("main", "values", Restrict(value, changed))
        /\ UNCHANGED <<sending, missed>>
     \/ /\ changed # {} /\ NotConnected
        /\ sending' = FALSE /\ missed' = missed \cup changed
        /\ UNCHANGED <<thread, calls>>
     \/ /\ changed = {} /\ sending' = FALSE
        /\ UNCHANGED <<client, thread, calls, missed>>
  /\ UNCHANGED <<fw, oldLocks, undefined, told, unsure>>

ValuesReturn ==
  /\ Returns("main", {"values"})
  /\ sending' = FALSE
  /\ LET sent == DOMAIN thread["main"].arg IN
     missed' = IF Outcome("main") = "ok" /\ thread["main"].sure
               THEN missed \ sent ELSE missed \cup sent
  /\ Disconnect("main", Outcome("main") = "silent")
  /\ UNCHANGED <<fw, oldLocks, subs, told, unsure>>

-----------------------------------------------------------------------------
(* Device variables: the provider registers once, when the TA has been     *)
(* initialised; the firmware then subscribes as it likes.                  *)

registerAtCctrl ==
  /\ thread["main"].pc = "init"
  /\ thread' = [thread EXCEPT !["main"] = Idle]
  /\ \E done \in BOOLEAN : fw' = [fw EXCEPT !.provider = done /\ fw.up]
  /\ UNCHANGED <<client, sending, calls, oldLocks, subs, undefined,
                 told, unsure, missed>>

\* mutant: one that is subscribed already is left alone
subscribe_Keeps(oitds) ==
  [o \in (DOMAIN subs) \cup (oitds \cap Oitds) |->
     IF o \in DOMAIN subs THEN subs[o] ELSE -1]

\* mutant: unknown ones are stored too
subscribe_Unknown(oitds) ==
  [o \in (DOMAIN subs) \cup oitds |-> IF o \in oitds THEN -1 ELSE subs[o]]

\* unknown ones are ignored
subscribe(oitds) ==
  [o \in (DOMAIN subs) \cup (oitds \cap Oitds) |->
     IF o \in oitds THEN -1 ELSE subs[o]]

FirmwareAsks == TaRuns("main") /\ fw.up /\ fw.provider

\* until it gets one the firmware has no value; one may still be on its way
subscribedevicevariables_8_svc(oitds) ==
  /\ FirmwareAsks
  /\ subs' = subscribe(oitds)
  /\ fw' = [fw EXCEPT !.shown = [o \in Oitds |-> IF o \in oitds THEN None
                                                 ELSE @[o]]]
  /\ missed' = IF \E i \in DOMAIN calls : calls[i].op = "values"
               THEN missed ELSE missed \ oitds
  /\ UNCHANGED <<client, thread, sending, calls, oldLocks, undefined,
                 told, unsure>>

unsubscribedevicevariables_8_svc(oitds) ==
  /\ FirmwareAsks
  /\ subs' = Restrict(subs, DOMAIN subs \ oitds)
  /\ UNCHANGED <<client, thread, sending, calls, fw, oldLocks,
                 undefined, told, unsure, missed>>

-----------------------------------------------------------------------------
(* The firmware restarts; it may have kept the registrations.              *)

Restart ==
  /\ fw.up /\ fw.restarts < MaxRestarts
  /\ \E port \in {fw.port, 3 - fw.port}, kept \in BOOLEAN :
       fw' = [up |-> FALSE, port |-> port, restarts |-> fw.restarts + 1,
              provider |-> fw.provider /\ kept,
              locks |-> None, shown |-> [o \in Oitds |-> None]]
  /\ calls' = <<>> /\ told' = None /\ unsure' = TRUE
  /\ missed' = DOMAIN subs
  /\ thread' = [u \in Threads |-> [thread[u] EXCEPT !.sure =
                                      thread[u].op \notin {"lock", "values"}]]
  /\ UNCHANGED <<client, sending, oldLocks, subs, undefined>>

BackUp ==
  /\ ~fw.up /\ fw' = [fw EXCEPT !.up = TRUE]
  /\ UNCHANGED <<client, thread, sending, calls, oldLocks, subs,
                 undefined, told, unsure, missed>>

-----------------------------------------------------------------------------
OitdSets == (SUBSET (Oitds \cup {"unknown"})) \ {{}}

Next ==
  \/ \E u \in Threads :
       \/ OtherReturns(u) \/ LockReturns(u)
       \/ \E l \in Locks : tacSetLockSwitchOff(u, l)
       \/ \E op \in OtherOps : OtherCall(u, op)
  \/ Execute
  \/ SendEvents \/ SkipEvents \/ ValuesReturn
  \/ \E S \in SUBSET Oitds : \E value \in [S -> Values] : SendValues(value)
  \/ registerAtCctrl
  \/ \E oitds \in OitdSets : \/ subscribedevicevariables_8_svc(oitds)
                             \/ unsubscribedevicevariables_8_svc(oitds)
  \/ Restart \/ BackUp

Spec == Init /\ [][Next]_vars

(* Callers go on, and the firmware comes up.                               *)
FairSpec ==
  /\ Spec
  /\ WF_vars(BackUp) /\ WF_vars(ValuesReturn)
  /\ \A u \in Threads : WF_vars(OtherReturns(u)) /\ WF_vars(LockReturns(u))

-----------------------------------------------------------------------------
(* Properties.                                                             *)

Calling == [pc : {"init", "idle", "waiting", "ok", "error"},
            op : {"none", "lock", "events", "values"} \cup OtherOps,
            arg : {None} \cup Locks \cup UNION {[S -> Values] : S \in SUBSET Oitds},
            sure : BOOLEAN]

TypeOK ==
  /\ client \in 0 .. 2
  /\ thread \in [Threads -> Calling]
  /\ sending \in BOOLEAN
  /\ Len(calls) <= MaxCalls
  /\ fw \in [up : BOOLEAN, port : 1 .. 2, restarts : 0 .. MaxRestarts,
             provider : BOOLEAN, locks : {None} \cup Locks,
             shown : [Oitds -> {None} \cup Values]]
  /\ oldLocks \in {None} \cup Locks
  /\ DOMAIN subs \subseteq Oitds /\ \A o \in DOMAIN subs : subs[o] \in Values
  /\ undefined \in BOOLEAN
  /\ told \in {None} \cup Locks /\ unsure \in BOOLEAN
  /\ missed \subseteq Oitds

(* A request that is answered SUCCESS is what the firmware holds, also     *)
(* when earlier ones were lost or executed late, unless since the last one *)
(* that was confirmed by itself a call failed, two overlapped or the       *)
(* firmware restarted.                                                     *)
LocksKnown == told # None /\ ~unsure => fw.locks = told

(* A value sent last is what the firmware shows, through resubscriptions   *)
(* and late calls, unless a value was lost since; -1 is as good as none.   *)
ValuesFollow ==
  thread["main"].op # "values" =>
    \A o \in DOMAIN subs \ missed :
      fw.shown[o] \in {subs[o]} \cup (IF subs[o] = -1 THEN {None} ELSE {})

(* A client that calls a port the firmware has left is destroyed and       *)
(* created anew, in spite of threads that use it without destroying it,    *)
(* provided that the TA sends switching events again and again.            *)
ClientRecovers ==
  <>[]fw.up /\ []<>(thread["main"].op = "events")
    => <>undefined \/ <>[](client \in {0, fw.port})

(* Documented: tacSetLockSwitchOff sets the locks in the firmware, or      *)
(* returns NO_SUCCESS.                                                     *)
SuccessMeansSet == told # None => fw.locks = told
=============================================================================
