-------------------------- MODULE PublicTransport --------------------------
(***************************************************************************)
(* The public transport memory of TacKernel: ride events arrive from the   *)
(* firmware (rideevent_8_svc) and are read with tacGetRideEvent; AMLI      *)
(* telegrams are put in with tacInsertAmliEventToArchive and sent to the   *)
(* firmware in one call after each TA function (sendAmlis).                *)
(*                                                                         *)
(* Two threads use it and nothing is locked.  "main" runs the RPC server   *)
(* and the TA; "http" serves the test pages, which may call the same two   *)
(* API functions (HttpApi says which are used), and the telegram page.     *)
(* Operations on one std::list are taken as atomic, what the code does     *)
(* between two of them is not.  A thread that works on a store while the   *)
(* other one is inside an operation of it, reads the front of an empty     *)
(* list, writes past the request it allocated or follows a list node that  *)
(* was freed is "undefined": the model ends there.                         *)
(***************************************************************************)
EXTENDS Integers, Sequences, FiniteSets

CONSTANTS Addr, MAX_TELEGRAMS, MAX_ARCHIVED_TELEGRAMS,
          RideBound, AmliBound,     \* bounds on the telegrams received
          HttpApi                   \* API functions the test pages call

ASSUME PTAssumption ==
  /\ MAX_TELEGRAMS \in Nat \ {0}
  /\ MAX_ARCHIVED_TELEGRAMS \in Nat \ {0}
  /\ RideBound \in Nat /\ AmliBound \in Nat
  /\ HttpApi \subseteq {"tacInsertAmliEventToArchive", "tacGetRideEvent"}

VARIABLES
  ptTelegramBuffer, ptTelegramArchive, rideEventMemPool, rideHeap,
  ridesRecvd, ridesSent, ridesOflowed, rideOp, ridePage,
  amliBuffer, amliArchive, amliMemPool, amliHeap,
  amlisRecvd, amlisSent, amlisOflowed, amliOp, amliPage,
  pc,         \* what each thread is doing
  rideEvent,  \* serial number of the event a thread copied out, 0 if none
  ridesRead,  \* serial number of each event handed to a caller -> times
  inflight,   \* AMLIs in the processedamli_8 call under way
  remaining,  \* telegrams sendAmlis still has to pop
  fwTaken     \* AMLIs the firmware has taken over

Ride == INSTANCE TelegramStore
  WITH buffer <- ptTelegramBuffer, archive <- ptTelegramArchive,
       memPool <- rideEventMemPool, heap <- rideHeap,
       recvd <- ridesRecvd, sent <- ridesSent, oflowed <- ridesOflowed,
       op <- rideOp, page <- ridePage, RecvBound <- RideBound

Amli == INSTANCE TelegramStore
  WITH buffer <- amliBuffer, archive <- amliArchive,
       memPool <- amliMemPool, heap <- amliHeap,
       recvd <- amlisRecvd, sent <- amlisSent, oflowed <- amlisOflowed,
       op <- amliOp, page <- amliPage, RecvBound <- AmliBound

rideVars == <<ptTelegramBuffer, ptTelegramArchive, rideEventMemPool, rideHeap,
              ridesRecvd, ridesSent, ridesOflowed, rideOp, ridePage>>
amliVars == <<amliBuffer, amliArchive, amliMemPool, amliHeap,
              amlisRecvd, amlisSent, amlisOflowed, amliOp, amliPage>>
readVars == <<rideEvent, ridesRead>>
sendVars == <<inflight, remaining, fwTaken>>
vars     == <<rideVars, amliVars, pc, readVars, sendVars>>

Thread == {"main", "http"}

Defined ==
  /\ \A t \in Thread : pc[t] # "undefined"
  /\ ridePage.pc # "undefined" /\ amliPage.pc # "undefined"

At(t, l) == Defined /\ pc[t] = l

Idle(t) == At(t, "idle") /\
           (t = "http" => ridePage.pc = "closed" /\ amliPage.pc = "closed")

Goto(t, l) == pc' = [pc EXCEPT ![t] = l]

RideFree == rideOp = Ride!NoOp
AmliFree == amliOp = Amli!NoOp

Init ==
  /\ Ride!Init
  /\ Amli!Init
  /\ pc = [t \in Thread |-> "idle"]
  /\ rideEvent = [t \in Thread |-> 0]
  /\ ridesRead = [n \in 1..RideBound |-> 0]
  /\ inflight = {} /\ remaining = 0 /\ fwTaken = {}

-----------------------------------------------------------------------------
(* Ride events.                                                            *)

\* The rest of addPtTelegram or popPtTelegram, list by list; in the end the
\* service routine or tacGetRideEvent returns.
RideStep(t) ==
  /\ At(t, "addRide") \/ At(t, "popRide")
  /\ Ride!Step
  /\ IF rideOp' = Ride!NoOp THEN Goto(t, "idle") ELSE UNCHANGED pc
  /\ UNCHANGED <<amliVars, readVars, sendVars>>

\* rideevent_8_svc, dispatched by svc_run while the main thread is free
rideevent_8_svc ==
  /\ Idle("main")
  /\ \/ Ride!AddBegin /\ Goto("main", "addRide")
     \/ ~RideFree /\ Goto("main", "undefined") /\ UNCHANGED rideVars
  /\ UNCHANGED <<amliVars, readVars, sendVars>>

CanGetRideEvent(t) == t = "main" \/ "tacGetRideEvent" \in HttpApi

\* tacGetRideEvent: NO_SUCCESS on an empty buffer leaves everything alone
GetRideEventCount(t) ==
  /\ CanGetRideEvent(t) /\ Idle(t)
  /\ ptTelegramBuffer # <<>>
  /\ Goto(t, "counted")
  /\ UNCHANGED <<rideVars, amliVars, readVars, sendVars>>

CanReadFront == RideFree /\ ptTelegramBuffer # <<>>

\* *telegram = firstPtTelegram()
GetRideEventCopy(t) ==
  /\ At(t, "counted")
  /\ IF CanReadFront
     THEN /\ rideEvent' = [rideEvent EXCEPT
                             ![t] = rideHeap[Head(ptTelegramBuffer).telegram]]
          /\ Goto(t, "copied")
     ELSE Goto(t, "undefined") /\ UNCHANGED rideEvent
  /\ UNCHANGED <<rideVars, amliVars, ridesRead, sendVars>>

\* mutant: the event stays in the buffer
GetRideEventPop_Keeps(t) ==
  /\ At(t, "copied")
  /\ ridesRead' = [ridesRead EXCEPT ![rideEvent[t]] = @ + 1]
  /\ rideEvent' = [rideEvent EXCEPT ![t] = 0]
  /\ Goto(t, "idle")
  /\ UNCHANGED <<rideVars, amliVars, sendVars>>

\* popPtTelegram(); return SUCCESS
GetRideEventPop(t) ==
  /\ At(t, "copied")
  /\ IF CanReadFront
     THEN /\ Ride!PopBegin
          /\ ridesRead' = [ridesRead EXCEPT ![rideEvent[t]] = @ + 1]
          /\ rideEvent' = [rideEvent EXCEPT ![t] = 0]
          /\ Goto(t, "popRide")
     ELSE Goto(t, "undefined") /\ UNCHANGED <<rideVars, readVars>>
  /\ UNCHANGED <<amliVars, sendVars>>

-----------------------------------------------------------------------------
(* AMLI telegrams.                                                         *)

\* The rest of addAmliTelegram or popAmliTelegram, list by list.
AmliStep(t) ==
  /\ At(t, "addAmli") \/ At(t, "popAmli")
  /\ Amli!Step
  /\ IF amliOp' = Amli!NoOp
     THEN Goto(t, IF pc[t] = "addAmli" THEN "idle" ELSE "popping")
     ELSE UNCHANGED pc
  /\ UNCHANGED <<rideVars, readVars, sendVars>>

\* The TA, or the test page, inserts a telegram.  While the main thread
\* copies the list into the request, the insertion may fall before the walk
\* or into it.
tacInsertAmliEventToArchive(t) ==
  /\ t = "main" \/ "tacInsertAmliEventToArchive" \in HttpApi
  /\ Idle(t) /\ amlisRecvd < AmliBound
  /\ \/ Amli!AddBegin /\ Goto(t, "addAmli")
     \/ /\ ~AmliFree \/ (t = "http" /\ pc["main"] = "building")
        /\ Goto(t, "undefined") /\ UNCHANGED amliVars
  /\ UNCHANGED <<rideVars, readVars, sendVars>>

\* sendAmlis: an empty buffer and a missing client return early, otherwise
\* the request is allocated for the telegrams counted.
SendAmlis ==
  /\ Idle("main")
  /\ amliBuffer # <<>>
  /\ remaining' = Len(amliBuffer)
  /\ Goto("main", "building")
  /\ UNCHANGED <<rideVars, amliVars, readVars, inflight, fwTaken>>

\* The walk from begin() to end() copies what is pending by then.
BuildRequest ==
  /\ At("main", "building")
  /\ IF AmliFree /\ Len(amliBuffer) = remaining
     THEN /\ inflight' = {amliHeap[amliBuffer[i].telegram] : i \in 1..Len(amliBuffer)}
          /\ Goto("main", "sending")
     ELSE Goto("main", "undefined") /\ UNCHANGED inflight
  /\ UNCHANGED <<rideVars, amliVars, readVars, remaining, fwTaken>>

\* mutant: the lists are not cleared after a successful call
ReplyOk_KeepsAll ==
  /\ At("main", "sending")
  /\ fwTaken' = fwTaken \cup inflight
  /\ inflight' = {}
  /\ remaining' = 0
  /\ Goto("main", "idle")
  /\ UNCHANGED <<rideVars, amliVars, readVars>>

\* processedamli_8 returns RPC_SUCCESS and RC_OK
ReplyOk ==
  /\ At("main", "sending")
  /\ fwTaken' = fwTaken \cup inflight
  /\ inflight' = {}
  /\ Goto("main", "popping")
  /\ UNCHANGED <<rideVars, amliVars, readVars, remaining>>

\* mutant: the lists are cleared whatever the call returned
ReplyFails_ClearsAll ==
  /\ At("main", "sending")
  /\ fwTaken' \in {fwTaken, fwTaken \cup inflight}
  /\ inflight' = {}
  /\ Goto("main", "popping")
  /\ UNCHANGED <<rideVars, amliVars, readVars, remaining>>

\* It fails: the request was lost or refused, or only its answer was lost.
ReplyFails ==
  /\ At("main", "sending")
  /\ fwTaken' \in {fwTaken, fwTaken \cup inflight}
  /\ inflight' = {}
  /\ remaining' = 0
  /\ Goto("main", "idle")
  /\ UNCHANGED <<rideVars, amliVars, readVars>>

\* for (i < amliCount) popAmliTelegram()
PopAmli ==
  /\ At("main", "popping")
  /\ CASE remaining = 0 ->
            Goto("main", "idle") /\ UNCHANGED <<amliVars, remaining>>
       [] remaining > 0 /\ AmliFree /\ amliBuffer # <<>> ->
            Amli!PopBegin /\ remaining' = remaining - 1 /\ Goto("main", "popAmli")
       [] OTHER ->
            Goto("main", "undefined") /\ UNCHANGED <<amliVars, remaining>>
  /\ UNCHANGED <<rideVars, readVars, inflight, fwTaken>>

-----------------------------------------------------------------------------
(* PublicTransportHttpRequestHandler::doRequest: the two tables of the     *)
(* page share nothing, so each is a request of its own here.               *)

RidePage ==
  /\ At("http", "idle") /\ amliPage.pc = "closed"
  /\ Ride!PageNext
  /\ UNCHANGED <<amliVars, pc, readVars, sendVars>>

AmliPage ==
  /\ At("http", "idle") /\ ridePage.pc = "closed"
  /\ Amli!PageNext
  /\ UNCHANGED <<rideVars, pc, readVars, sendVars>>

-----------------------------------------------------------------------------
Next ==
  \/ rideevent_8_svc
  \/ \E t \in Thread : \/ GetRideEventCount(t)
                       \/ GetRideEventCopy(t)
                       \/ GetRideEventPop(t)
                       \/ RideStep(t)
                       \/ tacInsertAmliEventToArchive(t)
                       \/ AmliStep(t)
  \/ SendAmlis \/ BuildRequest \/ ReplyOk \/ ReplyFails \/ PopAmli
  \/ RidePage \/ AmliPage

Spec == Init /\ [][Next]_vars

(* The TA is called in every interval and each call ends with sendAmlis,   *)
(* whose loop runs to its end; the firmware, if asked again and again,     *)
(* takes the telegrams over in the end.                                    *)
Fairness ==
  /\ WF_vars(SendAmlis)
  /\ WF_vars(BuildRequest)
  /\ SF_vars(ReplyOk)
  /\ WF_vars(ReplyOk \/ ReplyFails)
  /\ WF_vars(PopAmli)
  /\ WF_vars(AmliStep("main"))
  /\ WF_vars(RideStep("main"))
  /\ WF_vars(GetRideEventCopy("main"))
  /\ WF_vars(GetRideEventPop("main"))

FairSpec == Spec /\ Fairness

-----------------------------------------------------------------------------
PCs == {"idle", "addRide", "counted", "copied", "popRide",
        "addAmli", "building", "sending", "popping", "popAmli", "undefined"}

(* Types of all variables.                                                 *)
TypeOK ==
  /\ Ride!StoreTypeOK /\ Amli!StoreTypeOK
  /\ Ride!PageTypeOK /\ Amli!PageTypeOK
  /\ pc \in [Thread -> PCs]
  /\ rideEvent \in [Thread -> 0..RideBound]
  /\ ridesRead \in [1..RideBound -> Nat]
  /\ inflight \subseteq 1..AmliBound
  /\ remaining \in Nat
  /\ fwTaken \subseteq 1..AmliBound

(* Both families, between any two list operations: nothing received is     *)
(* lost from the books (Accounted), and no pointer a list holds is ever    *)
(* rewritten or shared, though memory is recycled all the time             *)
(* (TelegramsIntact).                                                      *)
Accounted       == Ride!Accounted /\ Amli!Accounted
TelegramsIntact == Ride!TelegramsIntact /\ Amli!TelegramsIntact

(* The pools never hold more than the lists can (PublicTransport.h:53).    *)
MemoryBounded   == Ride!MemoryBounded /\ Amli!MemoryBounded

(* The page never follows a pointer to memory that was given back.         *)
PagePointersAllocated == Ride!PagePointerAllocated /\ Amli!PagePointerAllocated

(* Each family is a bounded queue that gives up its oldest telegram.       *)
QueuesRefined   == Ride!QueueSpec /\ Amli!QueueSpec

Serials(heap, list) == {heap[list[i].telegram] : i \in 1..Len(list)}

Processed(heap, list) ==
  {heap[list[i].telegram] : i \in {j \in 1..Len(list) : list[j].state = "PROCESSED"}}

(* A telegram archived as PROCESSED, and counted as sent, is one the       *)
(* firmware has taken over, in spite of lost requests and answers.         *)
ProcessedWasTaken ==
  Processed(amliHeap, amliArchive) \subseteq fwTaken

(* A ride event is handed out once: tacGetRideEvent succeeds for one       *)
(* caller per telegram, and a telegram archived as PROCESSED was read.     *)
(* The TA alone keeps to it; if the test page reads too, both can pass the *)
(* count check with one telegram left.                                     *)
RideEventReadOnce ==
  /\ \A n \in 1..RideBound : ridesRead[n] <= 1
  /\ \A n \in Processed(rideHeap, ptTelegramArchive) : ridesRead[n] = 1

(* An AMLI does not wait for ever: it is sent or pushed out, unless the    *)
(* threads ran into each other first.                                      *)
AmliPending(n) == n \in Serials(amliHeap, amliBuffer)
AmliLeaves == \A n \in 1..AmliBound : AmliPending(n) ~> ~AmliPending(n) \/ ~Defined

(* What the firmware has not taken over leaves the pending list only when  *)
(* that list is full (MAX_TELEGRAMS, PublicTransport.h:9).                 *)
OnlyOverflowLoses ==
  [][\A n \in 1..AmliBound :
       AmliPending(n) /\ ~AmliPending(n)' /\ n \notin fwTaken
         => Len(amliBuffer) = MAX_TELEGRAMS /\ amlisOflowed' = amlisOflowed + 1]_vars
=============================================================================
