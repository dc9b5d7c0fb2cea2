---------------------- MODULE PublicTransport_proofs ----------------------
(***************************************************************************)
(* Proofs about PublicTransport for every list length, bound and use of    *)
(* the test pages.  Both families are instances of TelegramStore, whose    *)
(* step lemmas do the work; what is left here is that every action of the  *)
(* threads is a step of each store or leaves it alone.                     *)
(***************************************************************************)
EXTENDS PublicTransport, TLAPS

RideP == INSTANCE TelegramStore_proofs
  WITH buffer <- ptTelegramBuffer, archive <- ptTelegramArchive,
       memPool <- rideEventMemPool, heap <- rideHeap,
       recvd <- ridesRecvd, sent <- ridesSent, oflowed <- ridesOflowed,
       op <- rideOp, page <- ridePage, RecvBound <- RideBound

AmliP == INSTANCE TelegramStore_proofs
  WITH buffer <- amliBuffer, archive <- amliArchive,
       memPool <- amliMemPool, heap <- amliHeap,
       recvd <- amlisRecvd, sent <- amlisSent, oflowed <- amlisOflowed,
       op <- amliOp, page <- amliPage, RecvBound <- AmliBound

-----------------------------------------------------------------------------
(* The two instances of each store are the same store.                     *)
LEMMA SameActions ==
  /\ Ride!NoOp = RideP!NoOp
  /\ Ride!AddBegin <=> RideP!AddBegin
  /\ Ride!PopBegin <=> RideP!PopBegin
  /\ Ride!Step <=> RideP!Step
  /\ Ride!PageNext <=> RideP!PageNext
  /\ Ride!Init <=> RideP!Init
  /\ Amli!NoOp = AmliP!NoOp
  /\ Amli!AddBegin <=> AmliP!AddBegin
  /\ Amli!PopBegin <=> AmliP!PopBegin
  /\ Amli!Step <=> AmliP!Step
  /\ Amli!PageNext <=> AmliP!PageNext
  /\ Amli!Init <=> AmliP!Init
<1>1. Ride!NoOp = RideP!NoOp
  BY DEF Ride!NoOp, RideP!NoOp, Ride!NoTelegram, RideP!NoTelegram
<1>2. Ride!AddBegin <=> RideP!AddBegin
  BY DEF Ride!AddBegin, RideP!AddBegin, Ride!Leaving, RideP!Leaving, Ride!NoOp,
         RideP!NoOp, Ride!NoTelegram, RideP!NoTelegram
<1>3. Ride!PopBegin <=> RideP!PopBegin
  BY DEF Ride!PopBegin, RideP!PopBegin, Ride!Leaving, RideP!Leaving, Ride!NoOp,
         RideP!NoOp, Ride!NoTelegram, RideP!NoTelegram
<1>4. Ride!Step <=> RideP!Step
  BY DEF Ride!Step, RideP!Step, Ride!Recycle, RideP!Recycle, Ride!DropArchived,
         RideP!DropArchived, Ride!Store, RideP!Store, Ride!Leave, RideP!Leave,
         Ride!New, RideP!New, Ride!Unpool, RideP!Unpool, Ride!Emplace,
         RideP!Emplace, Ride!ArchiveFull, RideP!ArchiveFull, Ride!NoOp,
         RideP!NoOp, Ride!NoTelegram, RideP!NoTelegram
<1>5. Ride!PageNext <=> RideP!PageNext
  BY DEF Ride!PageNext, RideP!PageNext, Ride!PageOpen, RideP!PageOpen,
         Ride!PageCompare, RideP!PageCompare, Ride!PageCopy, RideP!PageCopy,
         Ride!PageRow, RideP!PageRow, Ride!AtEnd, RideP!AtEnd, Ride!List,
         RideP!List, Ride!Oldest, RideP!Oldest, Ride!Newest, RideP!Newest,
         Ride!HasNode, RideP!HasNode, Ride!Before, RideP!Before, Ride!Gone,
         RideP!Gone, Ride!Left, RideP!Left, Ride!storeVars, RideP!storeVars,
         Ride!NoTelegram, RideP!NoTelegram, Ride!PageClosed, RideP!PageClosed
<1>6. Ride!Init <=> RideP!Init
  BY DEF Ride!Init, RideP!Init, Ride!NoOp, RideP!NoOp, Ride!PageClosed,
         RideP!PageClosed, Ride!NoTelegram, RideP!NoTelegram
<1>7. Amli!NoOp = AmliP!NoOp
  BY DEF Amli!NoOp, AmliP!NoOp, Amli!NoTelegram, AmliP!NoTelegram
<1>8. Amli!AddBegin <=> AmliP!AddBegin
  BY DEF Amli!AddBegin, AmliP!AddBegin, Amli!Leaving, AmliP!Leaving, Amli!NoOp,
         AmliP!NoOp, Amli!NoTelegram, AmliP!NoTelegram
<1>9. Amli!PopBegin <=> AmliP!PopBegin
  BY DEF Amli!PopBegin, AmliP!PopBegin, Amli!Leaving, AmliP!Leaving, Amli!NoOp,
         AmliP!NoOp, Amli!NoTelegram, AmliP!NoTelegram
<1>10. Amli!Step <=> AmliP!Step
  BY DEF Amli!Step, AmliP!Step, Amli!Recycle, AmliP!Recycle, Amli!DropArchived,
         AmliP!DropArchived, Amli!Store, AmliP!Store, Amli!Leave, AmliP!Leave,
         Amli!New, AmliP!New, Amli!Unpool, AmliP!Unpool, Amli!Emplace,
         AmliP!Emplace, Amli!ArchiveFull, AmliP!ArchiveFull, Amli!NoOp,
         AmliP!NoOp, Amli!NoTelegram, AmliP!NoTelegram
<1>11. Amli!PageNext <=> AmliP!PageNext
  BY DEF Amli!PageNext, AmliP!PageNext, Amli!PageOpen, AmliP!PageOpen,
         Amli!PageCompare, AmliP!PageCompare, Amli!PageCopy, AmliP!PageCopy,
         Amli!PageRow, AmliP!PageRow, Amli!AtEnd, AmliP!AtEnd, Amli!List,
         AmliP!List, Amli!Oldest, AmliP!Oldest, Amli!Newest, AmliP!Newest,
         Amli!HasNode, AmliP!HasNode, Amli!Before, AmliP!Before, Amli!Gone,
         AmliP!Gone, Amli!Left, AmliP!Left, Amli!storeVars, AmliP!storeVars,
         Amli!NoTelegram, AmliP!NoTelegram, Amli!PageClosed, AmliP!PageClosed
<1>12. Amli!Init <=> AmliP!Init
  BY DEF Amli!Init, AmliP!Init, Amli!NoOp, AmliP!NoOp, Amli!PageClosed,
         AmliP!PageClosed, Amli!NoTelegram, AmliP!NoTelegram
<1>13. QED
  BY <1>1, <1>2, <1>3, <1>4, <1>5, <1>6, <1>7, <1>8, <1>9, <1>10, <1>11, <1>12

LEMMA StoreAssumptions == RideP!StoreAssumption /\ AmliP!StoreAssumption
BY PTAssumption DEF RideP!StoreAssumption, AmliP!StoreAssumption

(* The pages change nothing but themselves.                                *)
LEMMA PagesOnlyRead ==
  /\ Ride!PageNext => UNCHANGED <<ptTelegramBuffer, ptTelegramArchive, rideEventMemPool,
                                  rideHeap, ridesRecvd, ridesSent, ridesOflowed, rideOp>>
  /\ Amli!PageNext => UNCHANGED <<amliBuffer, amliArchive, amliMemPool, amliHeap,
                                  amlisRecvd, amlisSent, amlisOflowed, amliOp>>
BY DEF Ride!PageNext, Ride!PageOpen, Ride!PageCompare, Ride!PageCopy, Ride!PageRow,
       Ride!storeVars, Amli!PageNext, Amli!PageOpen, Amli!PageCompare, Amli!PageCopy,
       Amli!PageRow, Amli!storeVars

(* Every step is a step of the ride store and of the AMLI store, where one *)
(* of them may be left alone.                                              *)
LEMMA StepCases == [Next]_vars => RideP!StoreStep /\ AmliP!StoreStep
<1> SUFFICES ASSUME [Next]_vars PROVE RideP!StoreStep /\ AmliP!StoreStep
  OBVIOUS
<1> USE SameActions DEF RideP!StoreStep, AmliP!StoreStep, RideP!StoreOp, AmliP!StoreOp,
                        rideVars, amliVars, RideP!storeVars, AmliP!storeVars
<1>1. CASE rideevent_8_svc
  BY <1>1 DEF rideevent_8_svc
<1>2. ASSUME NEW t \in Thread, GetRideEventCount(t) PROVE RideP!StoreStep /\ AmliP!StoreStep
  BY <1>2 DEF GetRideEventCount
<1>3. ASSUME NEW t \in Thread, GetRideEventCopy(t) PROVE RideP!StoreStep /\ AmliP!StoreStep
  BY <1>3 DEF GetRideEventCopy
<1>4. ASSUME NEW t \in Thread, GetRideEventPop(t) PROVE RideP!StoreStep /\ AmliP!StoreStep
  BY <1>4 DEF GetRideEventPop
<1>5. ASSUME NEW t \in Thread, RideStep(t) PROVE RideP!StoreStep /\ AmliP!StoreStep
  BY <1>5 DEF RideStep
<1>6. ASSUME NEW t \in Thread, tacInsertAmliEventToArchive(t)
      PROVE  RideP!StoreStep /\ AmliP!StoreStep
  BY <1>6 DEF tacInsertAmliEventToArchive
<1>7. ASSUME NEW t \in Thread, AmliStep(t) PROVE RideP!StoreStep /\ AmliP!StoreStep
  BY <1>7 DEF AmliStep
<1>8. CASE SendAmlis \/ BuildRequest \/ ReplyOk \/ ReplyFails
  BY <1>8 DEF SendAmlis, BuildRequest, ReplyOk, ReplyFails
<1>9. CASE PopAmli
  BY <1>9 DEF PopAmli
<1>10. CASE RidePage
  BY <1>10 DEF RidePage
<1>11. CASE AmliPage
  BY <1>11 DEF AmliPage
<1>12. CASE UNCHANGED vars
  BY <1>12 DEF vars
<1>13. QED
  BY <1>1, <1>2, <1>3, <1>4, <1>5, <1>6, <1>7, <1>8, <1>9, <1>10, <1>11, <1>12
  DEF Next

-----------------------------------------------------------------------------
(* The invariant of both stores.                                           *)
StoresInv == RideP!FullInv /\ AmliP!FullInv

THEOREM StoresInvariant == Spec => []StoresInv
<1>1. Init => StoresInv
  BY StoreAssumptions, SameActions, RideP!InitFullInv, AmliP!InitFullInv
  DEF Init, StoresInv
<1>2. StoresInv /\ [Next]_vars => StoresInv'
  BY StoreAssumptions, StepCases, RideP!StepKeepsFullInv, AmliP!StepKeepsFullInv
  DEF StoresInv
<1>3. QED BY <1>1, <1>2, PTL DEF Spec

(* What the lists show is what was received, in order, whatever the two    *)
(* threads do: the pools never hand out memory a list still needs.         *)
THEOREM TelegramsStayIntact == Spec => [](Accounted /\ TelegramsIntact)
<1>1. StoresInv => Accounted /\ TelegramsIntact
  BY DEF StoresInv, Accounted, TelegramsIntact,
         RideP!FullInv, RideP!StoreInv, RideP!Accounted, RideP!TelegramsIntact,
         Ride!Accounted, Ride!TelegramsIntact, RideP!Gone, Ride!Gone,
         RideP!Left, Ride!Left, RideP!Pooled, Ride!Pooled, RideP!Unlisted, Ride!Unlisted,
         AmliP!FullInv, AmliP!StoreInv, AmliP!Accounted, AmliP!TelegramsIntact,
         Amli!Accounted, Amli!TelegramsIntact, AmliP!Gone, Amli!Gone,
         AmliP!Left, Amli!Left, AmliP!Pooled, Amli!Pooled, AmliP!Unlisted, Amli!Unlisted
<1>2. QED BY <1>1, StoresInvariant, PTL

(* Memory is never freed and never exceeds what the lists can hold, and    *)
(* the pointer the telegram page copied stays good.                        *)
THEOREM MemoryStaysBounded == Spec => [](MemoryBounded /\ PagePointersAllocated)
<1>1. StoresInv => MemoryBounded /\ PagePointersAllocated
  BY DEF StoresInv, MemoryBounded, PagePointersAllocated,
         RideP!FullInv, RideP!MemoryInv, RideP!MemoryBounded, Ride!MemoryBounded,
         RideP!Allocated, Ride!Allocated, RideP!PageInv,
         RideP!PagePointerAllocated, Ride!PagePointerAllocated,
         AmliP!FullInv, AmliP!MemoryInv, AmliP!MemoryBounded, Amli!MemoryBounded,
         AmliP!Allocated, Amli!Allocated, AmliP!PageInv,
         AmliP!PagePointerAllocated, Amli!PagePointerAllocated,
         Ride!Cardinality, RideP!Cardinality, Amli!Cardinality, AmliP!Cardinality
<1>2. QED BY <1>1, StoresInvariant, PTL

(* Each family implements the bounded queue that gives up its oldest       *)
(* telegram, read through the pointers of its list.                        *)
THEOREM StoresAreQueues == Spec => QueuesRefined
<1>1. Init => Ride!Queue!Init /\ Amli!Queue!Init
  BY DEF Init, Ride!Init, Amli!Init, Ride!NoOp, Amli!NoOp, Ride!Queue!Init, Amli!Queue!Init
<1>2. StoresInv /\ [Next]_vars =>
        [Ride!Queue!Next]_Ride!Queue!vars /\ [Amli!Queue!Next]_Amli!Queue!vars
  <2>1. StoresInv /\ [Next]_vars =>
          [RideP!Queue!Next]_RideP!Queue!vars /\ [AmliP!Queue!Next]_AmliP!Queue!vars
    BY StoreAssumptions, StepCases, RideP!StepIsQueueStep, AmliP!StepIsQueueStep
    DEF StoresInv
  <2>2. /\ RideP!Queue!Next <=> Ride!Queue!Next
        /\ AmliP!Queue!Next <=> Amli!Queue!Next
        /\ RideP!Queue!vars = Ride!Queue!vars /\ RideP!Queue!vars' = Ride!Queue!vars'
        /\ AmliP!Queue!vars = Amli!Queue!vars /\ AmliP!Queue!vars' = Amli!Queue!vars'
    BY DEF RideP!Queue!Next, Ride!Queue!Next, AmliP!Queue!Next, Amli!Queue!Next,
           RideP!Queue!GiveUp, Ride!Queue!GiveUp, AmliP!Queue!GiveUp, Amli!Queue!GiveUp,
           RideP!Queue!Put, Ride!Queue!Put, AmliP!Queue!Put, Amli!Queue!Put,
           RideP!Queue!Take, Ride!Queue!Take, AmliP!Queue!Take, Amli!Queue!Take,
           RideP!Queue!vars, Ride!Queue!vars, AmliP!Queue!vars, Amli!Queue!vars
  <2>3. QED BY <2>1, <2>2
<1>3. QED
  BY <1>1, <1>2, StoresInvariant, PTL
  DEF Spec, QueuesRefined, Ride!QueueSpec, Amli!QueueSpec, Ride!Queue!Spec, Amli!Queue!Spec

-----------------------------------------------------------------------------
(* Types of what the threads keep; the rest of TypeOK is in StoresInv.     *)
ThreadTypeOK ==
  /\ pc \in [Thread -> PCs]
  /\ rideEvent \in [Thread -> 0..RideBound]
  /\ ridesRead \in [1..RideBound -> Nat]
  /\ inflight \subseteq 1..AmliBound
  /\ remaining \in Nat
  /\ fwTaken \subseteq 1..AmliBound
  /\ ridesRecvd <= RideBound /\ amlisRecvd <= AmliBound

(* The telegrams in a buffer have the serial numbers after those gone.     *)
LEMMA BufferSerials ==
  ASSUME StoresInv
  PROVE  /\ \A i \in 1..Len(ptTelegramBuffer) :
              rideHeap[ptTelegramBuffer[i].telegram] = RideP!Gone + i
         /\ \A i \in 1..Len(amliBuffer) :
              amliHeap[amliBuffer[i].telegram] = AmliP!Gone + i
         /\ RideP!Gone \in Nat /\ AmliP!Gone \in Nat
         /\ ridesRecvd = RideP!Gone + Len(ptTelegramBuffer)
         /\ amlisRecvd = AmliP!Gone + Len(amliBuffer)
         /\ Len(ptTelegramBuffer) \in Nat /\ Len(amliBuffer) \in Nat
         /\ ridesRecvd \in Nat /\ amlisRecvd \in Nat
<1>1. /\ RideP!StoreTypeOK /\ RideP!Accounted /\ RideP!TelegramsIntact
      /\ AmliP!StoreTypeOK /\ AmliP!Accounted /\ AmliP!TelegramsIntact
  BY DEF StoresInv, RideP!FullInv, RideP!StoreInv, AmliP!FullInv, AmliP!StoreInv
<1>2. /\ \A i \in 1..Len(ptTelegramBuffer) :
           rideHeap[ptTelegramBuffer[i].telegram] = RideP!Gone + i
      /\ \A i \in 1..Len(amliBuffer) :
           amliHeap[amliBuffer[i].telegram] = AmliP!Gone + i
  BY <1>1 DEF RideP!TelegramsIntact, AmliP!TelegramsIntact
<1>3. RideP!Gone \in Nat /\ AmliP!Gone \in Nat
      /\ ridesRecvd \in Nat /\ amlisRecvd \in Nat
  BY <1>1 DEF RideP!StoreTypeOK, AmliP!StoreTypeOK, RideP!Gone, AmliP!Gone
<1>4. Len(ptTelegramBuffer) \in Nat /\ Len(amliBuffer) \in Nat
  BY <1>1 DEF RideP!StoreTypeOK, AmliP!StoreTypeOK
<1>5. /\ ridesRecvd = RideP!Gone + Len(ptTelegramBuffer)
      /\ amlisRecvd = AmliP!Gone + Len(amliBuffer)
  BY <1>1 DEF RideP!Accounted, AmliP!Accounted, RideP!Gone, AmliP!Gone
<1>6. QED BY <1>2, <1>3, <1>4, <1>5

(* The request copies the run of serial numbers that is pending.           *)
LEMMA RequestSerials ==
  ASSUME StoresInv
  PROVE  {amliHeap[amliBuffer[i].telegram] : i \in 1..Len(amliBuffer)}
           = AmliP!Gone + 1 .. AmliP!Gone + Len(amliBuffer)
<1> DEFINE n == Len(amliBuffer)
           g == AmliP!Gone
<1>1. /\ \A i \in 1..n : amliHeap[amliBuffer[i].telegram] = g + i
      /\ n \in Nat /\ g \in Nat
  BY BufferSerials
<1> HIDE DEF n, g
<1>2. {amliHeap[amliBuffer[i].telegram] : i \in 1..n} \subseteq g + 1 .. g + n
  BY <1>1
<1>3. ASSUME NEW k \in g + 1 .. g + n
      PROVE  k \in {amliHeap[amliBuffer[i].telegram] : i \in 1..n}
  <2>1. k - g \in 1..n /\ g + (k - g) = k BY <1>1
  <2>2. amliHeap[amliBuffer[k - g].telegram] = k BY <1>1, <2>1
  <2>3. QED BY <2>1, <2>2
<1>4. QED BY <1>2, <1>3 DEF n, g

LEMMA ThreadTypes == Spec => []ThreadTypeOK
<1>1. Init => ThreadTypeOK
  BY PTAssumption DEF Init, ThreadTypeOK, PCs, Thread, Ride!Init, Amli!Init
<1>2. StoresInv /\ ThreadTypeOK /\ [Next]_vars => ThreadTypeOK'
  <2> SUFFICES ASSUME StoresInv, ThreadTypeOK, [Next]_vars PROVE ThreadTypeOK'
    OBVIOUS
  <2>a. ridesRecvd' <= RideBound /\ amlisRecvd' <= AmliBound
    BY StoreAssumptions, StepCases, RideP!BoundKept, AmliP!BoundKept
    DEF StoresInv, RideP!FullInv, AmliP!FullInv, ThreadTypeOK
  <2> DEFINE Others == UNCHANGED <<readVars, sendVars>>
  <2>b. ASSUME pc' \in [Thread -> PCs], Others PROVE ThreadTypeOK'
    BY <2>a, <2>b DEF ThreadTypeOK, readVars, sendVars
  <2>c. ASSUME pc' \in [Thread -> PCs], UNCHANGED readVars,
               inflight' \subseteq 1..AmliBound, remaining' \in Nat,
               fwTaken' \subseteq 1..AmliBound
        PROVE  ThreadTypeOK'
    BY <2>a, <2>c DEF ThreadTypeOK, readVars
  <2>d. /\ pc \in [Thread -> PCs] /\ remaining \in Nat
        /\ inflight \subseteq 1..AmliBound /\ fwTaken \subseteq 1..AmliBound
        /\ rideEvent \in [Thread -> 0..RideBound] /\ ridesRead \in [1..RideBound -> Nat]
    BY DEF ThreadTypeOK
  <2>e. ASSUME NEW t \in Thread, NEW l \in PCs, Goto(t, l) PROVE pc' \in [Thread -> PCs]
    BY <2>d, <2>e DEF Goto
  <2>1. CASE rideevent_8_svc
    <3>1. \E l \in {"addRide", "undefined"} : Goto("main", l)
      BY <2>1 DEF rideevent_8_svc
    <3>2. pc' \in [Thread -> PCs] BY <2>e, <3>1 DEF PCs, Thread
    <3>3. QED BY <2>1, <2>b, <3>2 DEF rideevent_8_svc
  <2>2. ASSUME NEW t \in Thread, GetRideEventCount(t) PROVE ThreadTypeOK'
    <3>1. pc' \in [Thread -> PCs] BY <2>2, <2>e DEF GetRideEventCount, PCs
    <3>2. QED BY <2>2, <2>b, <3>1 DEF GetRideEventCount
  <2>3. ASSUME NEW t \in Thread, GetRideEventCopy(t) PROVE ThreadTypeOK'
    <3>1. pc' \in [Thread -> PCs]
      <4>1. \E l \in {"copied", "undefined"} : Goto(t, l) BY <2>3 DEF GetRideEventCopy
      <4>2. QED BY <2>e, <4>1 DEF PCs
    <3>2. rideEvent' \in [Thread -> 0..RideBound]
      <4>1. CASE CanReadFront
        <5> DEFINE n == rideHeap[Head(ptTelegramBuffer).telegram]
        <5>1. ptTelegramBuffer \in Seq(RideP!TelegramCont) /\ ptTelegramBuffer # <<>>
          BY <4>1 DEF StoresInv, RideP!FullInv, RideP!StoreInv, RideP!StoreTypeOK,
                      CanReadFront
        <5>2. /\ Head(ptTelegramBuffer) = ptTelegramBuffer[1]
              /\ 1 \in 1..Len(ptTelegramBuffer)
          BY <5>1
        <5>3. n = RideP!Gone + 1 BY <5>2, BufferSerials
        <5>4. n \in 0..RideBound
          BY SMTT(30), <5>2, <5>3, BufferSerials, PTAssumption DEF ThreadTypeOK
        <5> HIDE DEF n
        <5>5. rideEvent' = [rideEvent EXCEPT ![t] = n]
          BY <2>3, <4>1 DEF GetRideEventCopy, n
        <5>6. QED BY <2>d, <5>4, <5>5
      <4>2. CASE ~CanReadFront
        BY <2>3, <2>d, <4>2 DEF GetRideEventCopy
      <4>3. QED BY <4>1, <4>2
    <3>3. UNCHANGED <<ridesRead, sendVars>> BY <2>3 DEF GetRideEventCopy
    <3>4. QED BY <2>a, <2>d, <3>1, <3>2, <3>3 DEF ThreadTypeOK, sendVars
  <2>4. ASSUME NEW t \in Thread, GetRideEventPop(t) PROVE ThreadTypeOK'
    <3>1. CASE CanReadFront
      <4>1. /\ ridesRead' = [ridesRead EXCEPT ![rideEvent[t]] = @ + 1]
            /\ rideEvent' = [rideEvent EXCEPT ![t] = 0]
            /\ Goto(t, "popRide") /\ UNCHANGED sendVars
        BY <2>4, <3>1 DEF GetRideEventPop
      <4>2. ridesRead' \in [1..RideBound -> Nat]
        <5> DEFINE e == rideEvent[t]
        <5>1. CASE e \in 1..RideBound
          <6>1. ridesRead[e] + 1 \in Nat BY <2>d, <5>1
          <6>2. QED BY <2>d, <4>1, <6>1
        <5>2. CASE e \notin 1..RideBound
          BY <2>d, <4>1, <5>2
        <5>3. QED BY <5>1, <5>2
      <4>3. pc' \in [Thread -> PCs] BY <2>e, <4>1 DEF PCs
      <4>4. rideEvent' \in [Thread -> 0..RideBound]
        <5>1. 0 \in 0..RideBound BY PTAssumption
        <5>2. QED BY <2>d, <4>1, <5>1
      <4>5. QED BY <2>a, <2>d, <4>1, <4>2, <4>3, <4>4 DEF ThreadTypeOK, sendVars
    <3>2. CASE ~CanReadFront
      <4>1. Goto(t, "undefined") /\ Others BY <2>4, <3>2 DEF GetRideEventPop
      <4>2. pc' \in [Thread -> PCs] BY <2>e, <4>1 DEF PCs
      <4>3. QED BY <2>b, <4>1, <4>2
    <3>3. QED BY <3>1, <3>2
  <2>5. ASSUME NEW t \in Thread, RideStep(t) PROVE ThreadTypeOK'
    <3>1. Goto(t, "idle") \/ pc' = pc BY <2>5 DEF RideStep
    <3>2. pc' \in [Thread -> PCs] BY <2>d, <2>e, <3>1 DEF PCs
    <3>3. QED BY <2>5, <2>b, <3>2 DEF RideStep
  <2>6. ASSUME NEW t \in Thread, tacInsertAmliEventToArchive(t) PROVE ThreadTypeOK'
    <3>1. \E l \in {"addAmli", "undefined"} : Goto(t, l)
      BY <2>6 DEF tacInsertAmliEventToArchive
    <3>2. pc' \in [Thread -> PCs] BY <2>e, <3>1 DEF PCs
    <3>3. QED BY <2>6, <2>b, <3>2 DEF tacInsertAmliEventToArchive
  <2>7. ASSUME NEW t \in Thread, AmliStep(t) PROVE ThreadTypeOK'
    <3>1. (\E l \in {"idle", "popping"} : Goto(t, l)) \/ pc' = pc
      BY <2>7 DEF AmliStep
    <3>2. pc' \in [Thread -> PCs] BY <2>d, <2>e, <3>1 DEF PCs
    <3>3. QED BY <2>7, <2>b, <3>2 DEF AmliStep
  <2>8. CASE SendAmlis
    <3>1. /\ remaining' = Len(amliBuffer) /\ UNCHANGED <<readVars, inflight, fwTaken>>
          /\ Goto("main", "building")
      BY <2>8 DEF SendAmlis
    <3>2. pc' \in [Thread -> PCs] BY <2>e, <3>1 DEF PCs, Thread
    <3>3. remaining' \in Nat BY <3>1, BufferSerials
    <3>4. QED BY <2>c, <2>d, <3>1, <3>2, <3>3
  <2>9. CASE BuildRequest
    <3>1. /\ inflight' = AmliP!Gone + 1 .. AmliP!Gone + Len(amliBuffer)
             \/ inflight' = inflight
          /\ UNCHANGED <<readVars, remaining, fwTaken>>
          /\ \E l \in {"sending", "undefined"} : Goto("main", l)
      BY <2>9, RequestSerials DEF BuildRequest
    <3>2. inflight' \subseteq 1..AmliBound
      <4>1. AmliP!Gone + 1 .. AmliP!Gone + Len(amliBuffer) \subseteq 1..AmliBound
        BY BufferSerials, PTAssumption DEF ThreadTypeOK
      <4>2. QED BY <2>d, <3>1, <4>1
    <3>3. pc' \in [Thread -> PCs] BY <2>e, <3>1 DEF PCs, Thread
    <3>4. QED BY <2>c, <2>d, <3>1, <3>2, <3>3
  <2>10. CASE ReplyOk \/ ReplyFails
    <3>1. /\ inflight' = {} /\ remaining' \in {remaining, 0} /\ UNCHANGED readVars
          /\ fwTaken' \in {fwTaken, fwTaken \cup inflight}
          /\ \E l \in {"popping", "idle"} : Goto("main", l)
      BY <2>10 DEF ReplyOk, ReplyFails
    <3>2. pc' \in [Thread -> PCs] BY <2>e, <3>1 DEF PCs, Thread
    <3>3. remaining' \in Nat /\ fwTaken' \subseteq 1..AmliBound BY <2>d, <3>1
    <3>4. QED BY <2>c, <3>1, <3>2, <3>3
  <2>11. CASE PopAmli
    <3>1. /\ remaining' = remaining \/ (remaining > 0 /\ remaining' = remaining - 1)
          /\ UNCHANGED <<readVars, inflight, fwTaken>>
          /\ \E l \in {"idle", "popAmli", "undefined"} : Goto("main", l)
      <4>1. CASE remaining = 0 BY <2>11, <4>1 DEF PopAmli
      <4>2. CASE remaining # 0
        <5>1. remaining > 0 BY <2>d, <4>2
        <5>2. CASE AmliFree /\ amliBuffer # <<>> BY <2>11, <4>2, <5>1, <5>2 DEF PopAmli
        <5>3. CASE ~(AmliFree /\ amliBuffer # <<>>) BY <2>11, <4>2, <5>1, <5>3 DEF PopAmli
        <5>4. QED BY <5>2, <5>3
      <4>3. QED BY <4>1, <4>2
    <3>2. pc' \in [Thread -> PCs] BY <2>e, <3>1 DEF PCs, Thread
    <3>3. remaining' \in Nat BY <2>d, <3>1
    <3>4. QED BY <2>c, <2>d, <3>1, <3>2, <3>3
  <2>12. CASE RidePage \/ AmliPage
    BY <2>12, <2>b, <2>d DEF RidePage, AmliPage
  <2>13. CASE UNCHANGED vars
    BY <2>13, <2>b, <2>d DEF vars
  <2>14. QED
    BY <2>1, <2>2, <2>3, <2>4, <2>5, <2>6, <2>7, <2>8, <2>9, <2>10, <2>11, <2>12, <2>13
    DEF Next
<1>3. QED BY <1>1, <1>2, StoresInvariant, PTL DEF Spec

(* Every variable keeps its type.                                          *)
THEOREM TypesAreRight == Spec => []TypeOK
<1>1. StoresInv /\ ThreadTypeOK => TypeOK
  BY DEF StoresInv, ThreadTypeOK, TypeOK,
         RideP!FullInv, RideP!StoreInv, RideP!StoreTypeOK, Ride!StoreTypeOK,
         RideP!PageInv, RideP!PageTypeOK, Ride!PageTypeOK,
         RideP!TelegramCont, Ride!TelegramCont, RideP!TelegramState, Ride!TelegramState,
         RideP!NoTelegram, Ride!NoTelegram,
         AmliP!FullInv, AmliP!StoreInv, AmliP!StoreTypeOK, Amli!StoreTypeOK,
         AmliP!PageInv, AmliP!PageTypeOK, Amli!PageTypeOK,
         AmliP!TelegramCont, Amli!TelegramCont, AmliP!TelegramState, Amli!TelegramState,
         AmliP!NoTelegram, Amli!NoTelegram
<1>2. QED BY <1>1, ThreadTypes, StoresInvariant, PTL

-----------------------------------------------------------------------------
(* sendAmlis and the archive, when the test pages insert nothing: only the *)
(* main thread is ever inside an operation of the AMLI store.  While the   *)
(* call is under way the request holds exactly what is pending; while      *)
(* telegrams are popped, what is still to be popped is at the front and    *)
(* was taken over, between two operations as well as inside one.           *)
NextToPop == AmliP!Gone + 1 .. AmliP!Gone + remaining

PopUnderWay ==
  /\ amliOp.at \in AmliP!Moving /\ amliOp.cont.state = "PROCESSED"
  /\ remaining + 1 <= Len(amliBuffer)
  /\ AmliP!Gone + 1 .. AmliP!Gone + 1 + remaining \subseteq fwTaken

SendInv ==
  /\ pc["http"] \notin {"addAmli", "popAmli"}
  /\ amliOp # AmliP!NoOp => pc["main"] \in {"addAmli", "popAmli"}
  /\ pc["main"] = "addAmli" => amliOp.cont.state # "PROCESSED"
  /\ pc["main"] = "building" => remaining = Len(amliBuffer)
  /\ pc["main"] = "sending" => remaining = Len(amliBuffer) /\ inflight = NextToPop
  /\ pc["main"] = "popping" => remaining <= Len(amliBuffer) /\ NextToPop \subseteq fwTaken
  /\ pc["main"] = "popAmli" => PopUnderWay
  /\ AmliP!ProcessedIn(fwTaken)

(* A step that leaves the AMLI store alone keeps what its archive says.    *)
LEMMA SameArchive ==
  ASSUME SendInv, fwTaken \subseteq fwTaken',
         UNCHANGED <<amliArchive, amlisSent, amlisOflowed, amliOp>>
  PROVE  AmliP!ProcessedIn(fwTaken)'
BY DEF SendInv, AmliP!ProcessedIn, AmliP!Gone, AmliP!Left

(* A step that leaves the store and the sending alone, and takes main      *)
(* nowhere near them.                                                      *)
LEMMA SameSending ==
  ASSUME SendInv,
         UNCHANGED <<amliBuffer, amliArchive, amlisSent, amlisOflowed, amliOp, sendVars>>,
         pc'["http"] = pc["http"] \/ pc'["http"] \notin {"addAmli", "popAmli"},
         \/ pc'["main"] = pc["main"]
         \/ /\ amliOp = AmliP!NoOp
            /\ pc'["main"] \notin {"addAmli", "building", "sending", "popping", "popAmli"}
  PROVE  SendInv'
<1>1. AmliP!ProcessedIn(fwTaken)' BY SameArchive DEF sendVars
<1>2. AmliP!Gone' = AmliP!Gone /\ AmliP!NoOp' = AmliP!NoOp
  BY DEF AmliP!Gone, AmliP!NoOp, AmliP!NoTelegram
<1>3. NextToPop' = NextToPop /\ (PopUnderWay' <=> PopUnderWay)
  BY <1>2 DEF NextToPop, PopUnderWay, sendVars, AmliP!Moving
<1>4. QED BY <1>1, <1>2, <1>3 DEF SendInv, sendVars

LEMMA InsertKeepsSending ==
  ASSUME "tacInsertAmliEventToArchive" \notin HttpApi,
         StoresInv, ThreadTypeOK, SendInv,
         NEW t \in Thread, tacInsertAmliEventToArchive(t)
  PROVE  SendInv'
<1>1. t = "main" /\ pc["main"] = "idle" /\ amliOp = AmliP!NoOp
  BY DEF tacInsertAmliEventToArchive, Idle, At, SendInv
<1>2. AmliP!AddBegin /\ Goto("main", "addAmli") /\ UNCHANGED sendVars
  BY <1>1, SameActions DEF tacInsertAmliEventToArchive, AmliFree
<1>3. pc'["main"] = "addAmli" /\ pc'["http"] = pc["http"]
  BY <1>2 DEF Goto, ThreadTypeOK, Thread
<1>4. AmliP!StoreInv BY DEF StoresInv, AmliP!FullInv
<1>5. amliOp'.cont.state # "PROCESSED"
  BY <1>2, <1>4, StoreAssumptions, AmliP!BeginFacts
<1>6. AmliP!ProcessedInNext(fwTaken)
  BY <1>2, <1>4, StoreAssumptions, AmliP!StepKeepsProcessed DEF SendInv
<1>7. AmliP!ProcessedIn(fwTaken)'
  BY <1>2, <1>6 DEF AmliP!ProcessedIn, AmliP!ProcessedInNext, sendVars
<1>8. QED BY <1>3, <1>5, <1>7 DEF SendInv

LEMMA AmliStepKeepsSending ==
  ASSUME StoresInv, ThreadTypeOK, SendInv, NEW t \in Thread, AmliStep(t)
  PROVE  SendInv'
<1>1. t = "main" BY DEF AmliStep, At, SendInv, Thread
<1>2. AmliP!Step /\ pc["main"] \in {"addAmli", "popAmli"} /\ UNCHANGED sendVars
  BY <1>1, SameActions DEF AmliStep, At
<1>3. /\ AmliP!StoreInv /\ AmliP!StoreAssumption /\ pc \in [Thread -> PCs]
      /\ pc["http"] \notin {"addAmli", "popAmli"} /\ remaining \in Nat
  BY StoreAssumptions DEF StoresInv, AmliP!FullInv, ThreadTypeOK, SendInv
<1>4. AmliP!ProcessedInNext(fwTaken)
  BY <1>2, <1>3, AmliP!StepKeepsProcessed DEF SendInv
<1>5. AmliP!ProcessedIn(fwTaken)'
  BY <1>2, <1>4 DEF AmliP!ProcessedIn, AmliP!ProcessedInNext, sendVars
<1>6. AmliP!WorksOn \/ AmliP!OneLeaves \/ AmliP!OneComes
  BY <1>2, <1>3, AmliP!StepFacts
<1>7. pc'["http"] = pc["http"]
  BY <1>1, <1>3 DEF AmliStep, Goto, Thread
<1>8. /\ amliOp' = AmliP!NoOp =>
           pc'["main"] = IF pc["main"] = "addAmli" THEN "idle" ELSE "popping"
      /\ amliOp' # AmliP!NoOp => pc'["main"] = pc["main"]
  BY <1>1, <1>3, SameActions DEF AmliStep, Goto, Thread
<1>9. AmliP!NoOp' = AmliP!NoOp
  BY DEF AmliP!NoOp, AmliP!NoTelegram
<1>10. CASE pc["main"] = "addAmli"
  <2>1. amliOp.cont.state # "PROCESSED" BY <1>10 DEF SendInv
  <2>2. amliOp' = AmliP!NoOp \/ amliOp'.cont.state # "PROCESSED"
    BY <1>6, <2>1 DEF AmliP!WorksOn, AmliP!OneLeaves, AmliP!OneComes
  <2>3. CASE amliOp' = AmliP!NoOp
    <3>1. pc'["main"] = "idle" BY <1>8, <1>10, <2>3
    <3>2. QED BY <1>3, <1>5, <1>7, <1>9, <2>3, <3>1 DEF SendInv
  <2>4. CASE amliOp' # AmliP!NoOp
    <3>1. pc'["main"] = "addAmli" BY <1>8, <1>10, <2>4
    <3>2. QED BY <1>3, <1>5, <1>7, <2>2, <2>4, <3>1 DEF SendInv
  <2>5. QED BY <2>3, <2>4
<1>11. CASE pc["main"] = "popAmli"
  <2>1. PopUnderWay BY <1>11 DEF SendInv
  <2>2. CASE AmliP!WorksOn
    <3>1. amliOp' # AmliP!NoOp BY <2>2, AmliP!NoOpFacts DEF AmliP!WorksOn
    <3>2. pc'["main"] = "popAmli" BY <1>8, <1>11, <3>1
    <3>3. PopUnderWay'
      BY <1>2, <2>1, <2>2 DEF PopUnderWay, AmliP!WorksOn, sendVars, AmliP!Moving
    <3>4. QED BY <1>3, <1>5, <1>7, <3>2, <3>3 DEF SendInv
  <2>3. CASE AmliP!OneLeaves
    <3>1. amliOp' = AmliP!NoOp BY <2>1, <2>3 DEF PopUnderWay, AmliP!OneLeaves
    <3>2. pc'["main"] = "popping" BY <1>8, <1>11, <3>1
    <3> DEFINE g == AmliP!Gone
               k == Len(amliBuffer)
               h == AmliP!Gone'
               m == Len(amliBuffer')
    <3>3. h = g + 1 /\ m = k - 1 /\ g \in Nat /\ k \in Nat
      BY <2>3, BufferSerials DEF AmliP!OneLeaves
    <3>4. remaining + 1 <= k /\ g + 1 .. g + 1 + remaining \subseteq fwTaken
      BY <2>1 DEF PopUnderWay
    <3> HIDE DEF g, k, h, m
    <3>5. remaining <= m BY <1>3, <3>3, <3>4
    <3>6. h + 1 .. h + remaining \subseteq fwTaken BY <1>3, <3>3, <3>4
    <3>7. remaining' <= Len(amliBuffer') /\ NextToPop' \subseteq fwTaken'
      BY <1>2, <3>5, <3>6 DEF NextToPop, sendVars, h, m
    <3>8. QED BY <1>3, <1>5, <1>7, <1>9, <3>1, <3>2, <3>7 DEF SendInv
  <2>4. CASE AmliP!OneComes
    BY <2>1, <2>4 DEF PopUnderWay, AmliP!OneComes, AmliP!Moving
  <2>5. QED BY <1>6, <2>2, <2>3, <2>4
<1>12. QED BY <1>2, <1>10, <1>11

LEMMA PopKeepsSending ==
  ASSUME StoresInv, ThreadTypeOK, SendInv, PopAmli
  PROVE  SendInv'
<1>1. /\ pc["main"] = "popping" /\ remaining <= Len(amliBuffer) /\ NextToPop \subseteq fwTaken
      /\ amliOp = AmliP!NoOp
  BY DEF PopAmli, At, SendInv
<1>2. /\ AmliP!StoreInv /\ AmliP!StoreAssumption /\ pc \in [Thread -> PCs]
      /\ remaining \in Nat /\ pc["http"] \notin {"addAmli", "popAmli"}
  BY StoreAssumptions DEF StoresInv, AmliP!FullInv, ThreadTypeOK, SendInv
<1>3. CASE remaining = 0
  <2>1. Goto("main", "idle")
        /\ UNCHANGED <<amliBuffer, amliArchive, amlisSent, amlisOflowed, amliOp, sendVars>>
    BY <1>3 DEF PopAmli, amliVars, sendVars
  <2>2. pc'["main"] = "idle" /\ pc'["http"] = pc["http"]
    BY <1>2, <2>1 DEF Goto, Thread
  <2>3. QED BY <1>1, <2>1, <2>2, SameSending
<1>4. CASE remaining # 0
  <2>1. remaining > 0 /\ Len(amliBuffer) # 0
    BY <1>1, <1>2, <1>4, BufferSerials
  <2>2. amliBuffer # <<>> BY <2>1
  <2>3. AmliFree BY <1>1, SameActions DEF AmliFree
  <2>4. /\ AmliP!PopBegin /\ remaining' = remaining - 1 /\ Goto("main", "popAmli")
        /\ fwTaken' = fwTaken
    BY <1>4, <2>1, <2>2, <2>3, SameActions DEF PopAmli
  <2>5. pc'["main"] = "popAmli" /\ pc'["http"] = pc["http"]
    BY <1>2, <2>4 DEF Goto, Thread
  <2>6. /\ amliBuffer' = amliBuffer /\ AmliP!Gone' = AmliP!Gone
        /\ amliOp'.at = "archive" /\ amliOp'.cont.state = "PROCESSED"
    BY <1>2, <2>4, AmliP!BeginFacts
  <2>7. AmliP!Gone + 1 \in fwTaken
    BY <1>1, <1>2, <2>1, BufferSerials DEF NextToPop
  <2>8. AmliP!ProcessedInNext(fwTaken)
    BY <1>2, <2>4, <2>7, AmliP!PopKeepsProcessed DEF SendInv
  <2>9. AmliP!ProcessedIn(fwTaken)'
    BY <2>4, <2>8 DEF AmliP!ProcessedIn, AmliP!ProcessedInNext
  <2>10. PopUnderWay'
    <3> DEFINE g == AmliP!Gone
    <3>1. g \in Nat BY BufferSerials
    <3>2. g + 1 .. g + remaining \subseteq fwTaken BY <1>1 DEF NextToPop
    <3> DEFINE r == remaining'
    <3>3. r = remaining - 1 BY <2>4
    <3> HIDE DEF g, r
    <3>4. g + 1 .. g + 1 + r \subseteq fwTaken BY <1>2, <3>1, <3>2, <3>3
    <3>5. r + 1 <= Len(amliBuffer) BY <1>1, <1>2, <3>3
    <3>6. QED BY <2>4, <2>6, <3>4, <3>5 DEF PopUnderWay, AmliP!Moving, g, r
  <2>11. QED BY <1>2, <2>5, <2>9, <2>10 DEF SendInv
<1>5. QED BY <1>3, <1>4

LEMMA SendInvStep ==
  ASSUME "tacInsertAmliEventToArchive" \notin HttpApi,
         StoresInv, ThreadTypeOK, SendInv, [Next]_vars
  PROVE  SendInv'
<1>0. pc \in [Thread -> PCs] /\ remaining \in Nat BY DEF ThreadTypeOK
<1>a. ASSUME NEW t \in Thread, NEW l, Goto(t, l)
      PROVE  pc'[t] = l /\ \A u \in Thread \ {t} : pc'[u] = pc[u]
  BY <1>0, <1>a DEF Goto
<1> DEFINE Same == UNCHANGED <<amliBuffer, amliArchive, amlisSent, amlisOflowed, amliOp>>
<1>1. ASSUME NEW t \in Thread, pc[t] \notin {"addAmli", "popAmli"},
             NEW l \in {"idle", "addRide", "counted", "copied", "popRide", "undefined"},
             Goto(t, l), Same, UNCHANGED sendVars
      PROVE  SendInv'
  <2>1. CASE t = "main"
    <3>1. amliOp = AmliP!NoOp BY <1>1, <2>1 DEF SendInv
    <3>2. pc'["http"] = pc["http"] BY <1>1, <1>a, <2>1 DEF Thread
    <3>3. pc'["main"] = l BY <1>1, <1>a, <2>1
    <3>4. QED BY <1>1, <3>1, <3>2, <3>3, SameSending
  <2>2. CASE t = "http"
    <3>1. pc'["main"] = pc["main"] /\ pc'["http"] = l
      BY <1>1, <1>a, <2>2 DEF Thread
    <3>2. QED BY <1>1, <3>1, SameSending
  <2>3. QED BY <2>1, <2>2 DEF Thread
<1>2. CASE rideevent_8_svc
  <2>1. /\ pc["main"] = "idle" /\ Same /\ UNCHANGED sendVars
        /\ \E l \in {"addRide", "undefined"} : Goto("main", l)
    BY <1>2 DEF rideevent_8_svc, Idle, At, amliVars
  <2>2. QED BY <1>1, <2>1 DEF Thread
<1>3. ASSUME NEW t \in Thread,
             GetRideEventCount(t) \/ GetRideEventCopy(t) \/ GetRideEventPop(t)
      PROVE  SendInv'
  <2>1. /\ pc[t] \in {"idle", "counted", "copied"} /\ Same /\ UNCHANGED sendVars
        /\ \E l \in {"counted", "copied", "popRide", "undefined"} : Goto(t, l)
    BY <1>3 DEF GetRideEventCount, GetRideEventCopy, GetRideEventPop, Idle, At, amliVars
  <2>2. QED BY <1>1, <2>1
<1>4. ASSUME NEW t \in Thread, RideStep(t)
      PROVE  SendInv'
  <2>1. /\ pc[t] \in {"addRide", "popRide"} /\ Same /\ UNCHANGED sendVars
        /\ Goto(t, "idle") \/ pc' = pc
    BY <1>4 DEF RideStep, At, amliVars
  <2>2. CASE pc' = pc BY <2>1, <2>2, SameSending
  <2>3. QED BY <1>1, <2>1, <2>2
<1>5. ASSUME NEW t \in Thread, tacInsertAmliEventToArchive(t)
      PROVE  SendInv'
  BY <1>5, InsertKeepsSending
<1>6. ASSUME NEW t \in Thread, AmliStep(t)
      PROVE  SendInv'
  BY <1>6, AmliStepKeepsSending
<1>b. ASSUME Same, fwTaken \subseteq fwTaken'
      PROVE  /\ AmliP!ProcessedIn(fwTaken)' /\ AmliP!Gone' = AmliP!Gone
             /\ AmliP!NoOp' = AmliP!NoOp
  BY <1>b, SameArchive DEF AmliP!Gone, AmliP!NoOp, AmliP!NoTelegram
<1>7. CASE SendAmlis
  <2>1. /\ remaining' = Len(amliBuffer) /\ pc["main"] = "idle" /\ Goto("main", "building")
        /\ Same /\ fwTaken' = fwTaken
    BY <1>7 DEF SendAmlis, amliVars, Idle, At
  <2>2. pc'["main"] = "building" /\ pc'["http"] = pc["http"] BY <1>a, <2>1 DEF Thread
  <2>3. QED BY <1>b, <2>1, <2>2 DEF SendInv
<1>8. CASE BuildRequest
  <2>1. pc["main"] = "building" /\ remaining = Len(amliBuffer) /\ amliOp = AmliP!NoOp
    BY <1>8 DEF BuildRequest, At, SendInv
  <2>2. /\ inflight' = AmliP!Gone + 1 .. AmliP!Gone + Len(amliBuffer)
        /\ remaining' = remaining /\ Goto("main", "sending")
        /\ Same /\ fwTaken' = fwTaken
    BY <1>8, <2>1, RequestSerials, SameActions DEF BuildRequest, AmliFree, amliVars
  <2>3. pc'["main"] = "sending" /\ pc'["http"] = pc["http"] BY <1>a, <2>2 DEF Thread
  <2>4. AmliP!ProcessedIn(fwTaken)' /\ AmliP!Gone' = AmliP!Gone
        /\ AmliP!NoOp' = AmliP!NoOp
    BY <1>b, <2>2
  <2>5. remaining' = Len(amliBuffer') /\ inflight' = NextToPop'
    BY <2>1, <2>2, <2>4 DEF NextToPop
  <2>6. QED BY <2>1, <2>2, <2>3, <2>4, <2>5 DEF SendInv
<1>9. CASE ReplyOk
  <2>1. /\ pc["main"] = "sending" /\ Goto("main", "popping")
        /\ fwTaken' = fwTaken \cup inflight /\ remaining' = remaining /\ Same
    BY <1>9 DEF ReplyOk, At, amliVars
  <2>2. pc'["main"] = "popping" /\ pc'["http"] = pc["http"] BY <1>a, <2>1 DEF Thread
  <2>3. /\ AmliP!ProcessedIn(fwTaken)' /\ AmliP!Gone' = AmliP!Gone
        /\ AmliP!NoOp' = AmliP!NoOp
    BY <1>b, <2>1
  <2>4. remaining' <= Len(amliBuffer') BY <1>0, <2>1 DEF SendInv
  <2>5. NextToPop' \subseteq fwTaken' BY <2>1, <2>3 DEF SendInv, NextToPop
  <2>6. amliOp = AmliP!NoOp BY <2>1 DEF SendInv
  <2>7. QED BY <2>1, <2>2, <2>3, <2>4, <2>5, <2>6 DEF SendInv
<1>10. CASE ReplyFails
  <2>1. /\ pc["main"] = "sending" /\ Goto("main", "idle")
        /\ fwTaken \subseteq fwTaken' /\ Same
    BY <1>10 DEF ReplyFails, At, amliVars
  <2>2. pc'["main"] = "idle" /\ pc'["http"] = pc["http"] BY <1>a, <2>1 DEF Thread
  <2>3. amliOp = AmliP!NoOp BY <2>1 DEF SendInv
  <2>4. QED BY <1>b, <2>1, <2>2, <2>3 DEF SendInv
<1>11. CASE PopAmli
  BY <1>11, PopKeepsSending
<1>12. CASE RidePage \/ AmliPage \/ UNCHANGED vars
  <2>1. Same /\ UNCHANGED sendVars /\ pc' = pc
    BY <1>12, PagesOnlyRead DEF RidePage, AmliPage, vars, amliVars
  <2>2. QED BY <2>1, SameSending
<1>13. QED
  BY <1>2, <1>3, <1>4, <1>5, <1>6, <1>7, <1>8, <1>9, <1>10, <1>11, <1>12 DEF Next

LEMMA SendInvariant ==
  ASSUME "tacInsertAmliEventToArchive" \notin HttpApi
  PROVE  Spec => []SendInv
<1>1. Init => SendInv
  BY SameActions, AmliP!NoOpFacts
  DEF Init, Amli!Init, AmliP!Init, Thread, SendInv, AmliP!ProcessedIn
<1>2. StoresInv /\ ThreadTypeOK /\ SendInv /\ [Next]_vars => SendInv'
  BY SendInvStep
<1>3. QED BY <1>1, <1>2, StoresInvariant, ThreadTypes, PTL DEF Spec

(* As long as only the TA inserts AMLIs, no telegram is archived as        *)
(* PROCESSED, or counted as sent, that the firmware did not take over,     *)
(* whatever requests and answers are lost and whatever the HTTP thread     *)
(* reads.  The hypothesis is needed: sendAmlis pops by a count it has read *)
(* before the call.                                                        *)
THEOREM ProcessedTelegramsWereTaken ==
  ASSUME "tacInsertAmliEventToArchive" \notin HttpApi
  PROVE  Spec => []ProcessedWasTaken
<1>1. StoresInv /\ SendInv => ProcessedWasTaken
  BY DEF StoresInv, AmliP!FullInv, AmliP!StoreInv, AmliP!TelegramsIntact,
         SendInv, AmliP!ProcessedIn, ProcessedWasTaken, Processed
<1>2. QED BY <1>1, StoresInvariant, SendInvariant, PTL

-----------------------------------------------------------------------------
(* What is pending is the run of serial numbers after those gone, before   *)
(* and after a step.                                                       *)
LEMMA PendingAmlis ==
  ASSUME StoresInv
  PROVE  /\ Serials(amliHeap, amliBuffer) = AmliP!Gone + 1 .. AmliP!Gone + Len(amliBuffer)
         /\ AmliP!Gone \in Nat /\ Len(amliBuffer) \in Nat
BY RequestSerials, BufferSerials DEF Serials

LEMMA StillPending ==
  ASSUME StoresInv',
         NEW n \in AmliP!Gone' + 1 .. AmliP!Gone' + Len(amliBuffer')
  PROVE  n \in Serials(amliHeap', amliBuffer')
<1>1. /\ AmliP!PendingSerials' = AmliP!Run(Len(amliBuffer'), AmliP!Gone')
      /\ Len(amliBuffer') \in Nat /\ AmliP!Gone' \in Nat
  <2>1. AmliP!StoreInv' BY DEF StoresInv, AmliP!FullInv
  <2>2. QED BY <2>1, AmliP!PendingIsRunNext
<1> DEFINE g == AmliP!Gone'
           k == Len(amliBuffer')
           i == n - g
<1>2. i \in 1..k /\ g + i = n
  <2>1. n \in g + 1 .. g + k /\ g \in Nat /\ k \in Nat BY <1>1
  <2> HIDE DEF g, k
  <2>2. QED BY <2>1
<1> HIDE DEF i
<1>3. amliHeap'[amliBuffer'[i].telegram] = n
  BY <1>1, <1>2 DEF AmliP!PendingSerials, AmliP!Run
<1>4. QED BY <1>2, <1>3 DEF Serials

(* The AMLI list changes in the steps of an operation: at "popAmli" the    *)
(* loop of sendAmlis pops, else a telegram comes in.                       *)
LEMMA AmliSteps ==
  ASSUME [Next]_vars
  PROVE  \/ AmliP!AddBegin \/ AmliP!PopBegin
         \/ \E t \in Thread : pc[t] \in {"addAmli", "popAmli"} /\ AmliP!Step
         \/ UNCHANGED <<amliBuffer, amliHeap>>
<1> USE DEF amliVars
<1>1. ASSUME NEW t \in Thread, tacInsertAmliEventToArchive(t)
      PROVE  AmliP!AddBegin \/ UNCHANGED <<amliBuffer, amliHeap>>
  BY <1>1, SameActions DEF tacInsertAmliEventToArchive
<1>2. CASE PopAmli
  BY <1>2, SameActions DEF PopAmli
<1>3. ASSUME NEW t \in Thread, AmliStep(t)
      PROVE  pc[t] \in {"addAmli", "popAmli"} /\ AmliP!Step
  BY <1>3, SameActions DEF AmliStep, At
<1>4. ASSUME NEW t \in Thread,
             GetRideEventCount(t) \/ GetRideEventCopy(t) \/ GetRideEventPop(t) \/ RideStep(t)
      PROVE  UNCHANGED <<amliBuffer, amliHeap>>
  BY <1>4 DEF GetRideEventCount, GetRideEventCopy, GetRideEventPop, RideStep
<1>5. CASE rideevent_8_svc \/ SendAmlis \/ BuildRequest \/ ReplyOk \/ ReplyFails
  BY <1>5 DEF rideevent_8_svc, SendAmlis, BuildRequest, ReplyOk, ReplyFails
<1>6. CASE RidePage \/ AmliPage \/ UNCHANGED vars
  BY <1>6, PagesOnlyRead DEF RidePage, AmliPage, vars
<1>7. QED BY <1>1, <1>2, <1>3, <1>4, <1>5, <1>6 DEF Next

(* A telegram that leaves the list is the oldest one: it is pushed out of  *)
(* a full list, or sendAmlis pops it after the firmware took it over.      *)
LEMMA OverflowStep ==
  ASSUME StoresInv, StoresInv', ThreadTypeOK, SendInv, [Next]_vars,
         NEW n \in 1..AmliBound, AmliPending(n), ~AmliPending(n)', n \notin fwTaken
  PROVE  Len(amliBuffer) = MAX_TELEGRAMS /\ amlisOflowed' = amlisOflowed + 1
<1> DEFINE g == AmliP!Gone
           k == Len(amliBuffer)
           h == AmliP!Gone'
           m == Len(amliBuffer')
<1>1. n \in g + 1 .. g + k /\ g \in Nat /\ k \in Nat
  BY PendingAmlis DEF AmliPending
<1>2. n \notin h + 1 .. h + m
  BY StillPending DEF AmliPending
<1>3. AmliP!StoreInv /\ AmliP!StoreAssumption
  BY StoreAssumptions DEF StoresInv, AmliP!FullInv
<1>4. CASE AmliP!AddBegin \/ AmliP!PopBegin
  <2>1. h = g /\ m = k BY <1>3, <1>4, AmliP!BeginFacts
  <2> HIDE DEF g, k, h, m
  <2>2. QED BY <1>1, <1>2, <2>1
<1>5. ASSUME NEW t \in Thread, pc[t] \in {"addAmli", "popAmli"}, AmliP!Step
      PROVE  Len(amliBuffer) = MAX_TELEGRAMS /\ amlisOflowed' = amlisOflowed + 1
  <2>1. AmliP!WorksOn \/ AmliP!OneLeaves \/ AmliP!OneComes
    BY <1>3, <1>5, AmliP!StepFacts
  <2>2. ASSUME h = g, m = k \/ m = k + 1 PROVE FALSE
    <3>1. h = g /\ (m = k \/ m = k + 1) BY <2>2
    <3> HIDE DEF g, k, h, m
    <3>2. QED BY <1>1, <1>2, <3>1
  <2>3. AmliP!OneLeaves
    BY <2>1, <2>2 DEF AmliP!WorksOn, AmliP!OneComes
  <2>4. CASE amliOp.cont.state = "PROCESSED"
    <3>1. t = "main" /\ pc["main"] = "popAmli"
      BY <1>5, <2>4 DEF SendInv, Thread
    <3>2. g + 1 .. g + 1 + remaining \subseteq fwTaken /\ remaining \in Nat
      BY <3>1 DEF SendInv, PopUnderWay, ThreadTypeOK
    <3>3. h = g + 1 /\ m = k - 1 BY <2>3 DEF AmliP!OneLeaves
    <3> HIDE DEF g, k, h, m
    <3>4. n = g + 1 BY <1>1, <1>2, <3>3
    <3>5. n \in fwTaken BY <1>1, <3>2, <3>4
    <3>6. QED BY <3>5
  <2>5. QED BY <2>3, <2>4 DEF AmliP!OneLeaves
<1>6. CASE UNCHANGED <<amliBuffer, amliHeap>>
  BY <1>6 DEF AmliPending, Serials
<1>7. QED BY <1>4, <1>5, <1>6, AmliSteps

(* As long as only the TA inserts AMLIs, one the firmware has not taken    *)
(* over leaves the pending list only because the list is full, and is then *)
(* counted as overflowed: no lost request or answer makes sendAmlis forget *)
(* a telegram.                                                             *)
THEOREM NoAmliIsForgotten ==
  ASSUME "tacInsertAmliEventToArchive" \notin HttpApi
  PROVE  Spec => OnlyOverflowLoses
<1>1. StoresInv /\ StoresInv' /\ ThreadTypeOK /\ SendInv /\ [Next]_vars =>
        [\A n \in 1..AmliBound :
           AmliPending(n) /\ ~AmliPending(n)' /\ n \notin fwTaken
             => Len(amliBuffer) = MAX_TELEGRAMS /\ amlisOflowed' = amlisOflowed + 1]_vars
  BY OverflowStep
<1>2. QED
  BY <1>1, StoresInvariant, ThreadTypes, SendInvariant, PTL
  DEF Spec, OnlyOverflowLoses

-----------------------------------------------------------------------------
(* tacGetRideEvent, when the test pages do not call it: only the main      *)
(* thread is ever inside an operation of the ride event store, and no      *)
(* event arrives while it is busy, so the list it counted is the list it   *)
(* pops.  What it copied is then the oldest event, which nobody has read;  *)
(* events are read in the order they leave.                                *)
WasRead == {n \in 1..RideBound : ridesRead[n] = 1}

\* the events that left, or are being taken out by the caller who read them
LeftOrRead ==
  IF rideOp.at \in RideP!Moving /\ rideOp.cont.state = "PROCESSED"
  THEN RideP!Gone + 1 ELSE RideP!Gone

ReadsInv ==
  /\ \A n \in 1..RideBound : ridesRead[n] <= 1
  /\ \A n \in 1..RideBound : n > LeftOrRead => ridesRead[n] = 0
  /\ RideP!ProcessedIn(WasRead)

CallerInv ==
  /\ pc["http"] \notin {"addRide", "counted", "copied", "popRide"}
  /\ rideOp # RideP!NoOp => pc["main"] \in {"addRide", "popRide"}
  /\ pc["main"] \in {"counted", "copied"} => ptTelegramBuffer # <<>>
  /\ pc["main"] = "copied" => rideEvent["main"] = RideP!Gone + 1

(* A step that leaves the ride store and the readers' books alone.         *)
LEMMA SameReads ==
  ASSUME ReadsInv,
         UNCHANGED <<ptTelegramArchive, ridesSent, ridesOflowed, rideOp, ridesRead>>
  PROVE  ReadsInv'
BY DEF ReadsInv, WasRead, LeftOrRead, RideP!ProcessedIn, RideP!Gone, RideP!Left,
       RideP!Moving

LEMMA SameCaller ==
  ASSUME CallerInv,
         UNCHANGED <<ptTelegramBuffer, ridesSent, ridesOflowed, rideOp, rideEvent>>,
         \/ pc'["http"] = pc["http"]
         \/ pc'["http"] \notin {"addRide", "counted", "copied", "popRide"},
         \/ pc'["main"] = pc["main"]
         \/ rideOp = RideP!NoOp /\ pc'["main"] \notin {"counted", "copied"}
  PROVE  CallerInv'
<1>1. RideP!NoOp' = RideP!NoOp /\ RideP!Gone' = RideP!Gone
  BY DEF RideP!NoOp, RideP!NoTelegram, RideP!Gone
<1>2. QED BY <1>1 DEF CallerInv

(* The numbers of events that left only grow.                              *)
LEMMA LaterReads ==
  ASSUME ThreadTypeOK, ReadsInv, ridesRead' = ridesRead, RideP!ProcessedInNext(WasRead),
         LeftOrRead \in Nat, LeftOrRead' \in Nat, LeftOrRead' >= LeftOrRead
  PROVE  ReadsInv'
<1> DEFINE l == LeftOrRead
           h == LeftOrRead'
<1>1. WasRead' = WasRead BY DEF WasRead
<1>2. RideP!ProcessedIn(WasRead)'
  BY <1>1 DEF RideP!ProcessedIn, RideP!ProcessedInNext
<1>3. l \in Nat /\ h \in Nat /\ h >= l OBVIOUS
<1>4. \A n \in 1..RideBound : n > l => ridesRead[n] = 0 BY DEF ReadsInv
<1> HIDE DEF l, h
<1>5. \A n \in 1..RideBound : n > h => ridesRead[n] = 0 BY <1>3, <1>4, PTAssumption
<1>6. QED BY <1>2, <1>5 DEF ReadsInv, h

LEMMA ArrivalKeepsReads ==
  ASSUME StoresInv, ThreadTypeOK, ReadsInv, RideP!AddBegin, ridesRead' = ridesRead
  PROVE  ReadsInv'
<1>1. RideP!StoreInv /\ RideP!StoreAssumption
  BY StoreAssumptions DEF StoresInv, RideP!FullInv
<1>2. RideP!ProcessedInNext(WasRead)
  BY <1>1, RideP!StepKeepsProcessed DEF ReadsInv
<1>3. /\ rideOp = RideP!NoOp /\ rideOp'.cont.state # "PROCESSED"
      /\ RideP!Gone' = RideP!Gone /\ RideP!Gone \in Nat
  BY <1>1, RideP!BeginFacts, BufferSerials
<1>4. LeftOrRead = RideP!Gone /\ LeftOrRead' = RideP!Gone
  BY <1>3, RideP!NoOpFacts DEF LeftOrRead
<1>5. QED BY <1>2, <1>3, <1>4, LaterReads

LEMMA StepKeepsReads ==
  ASSUME StoresInv, ThreadTypeOK, ReadsInv, RideP!Step, ridesRead' = ridesRead
  PROVE  ReadsInv'
<1>1. RideP!StoreInv /\ RideP!StoreAssumption
  BY StoreAssumptions DEF StoresInv, RideP!FullInv
<1>2. RideP!ProcessedInNext(WasRead)
  BY <1>1, RideP!StepKeepsProcessed DEF ReadsInv
<1> DEFINE g == RideP!Gone
           h == RideP!Gone'
           Read     == rideOp.at \in RideP!Moving /\ rideOp.cont.state = "PROCESSED"
           ReadNext == rideOp'.at \in RideP!Moving /\ rideOp'.cont.state = "PROCESSED"
<1>3. /\ LeftOrRead = IF Read THEN g + 1 ELSE g
      /\ LeftOrRead' = IF ReadNext THEN h + 1 ELSE h
  BY DEF LeftOrRead, RideP!Moving
<1>4. g \in Nat BY BufferSerials
<1>5. /\ h = g \/ h = g + 1
      /\ h = g /\ Read => ReadNext
  <2>1. CASE RideP!WorksOn BY <2>1 DEF RideP!WorksOn
  <2>2. CASE RideP!OneLeaves
    <3>1. h = g + 1 BY <2>2 DEF RideP!OneLeaves
    <3>2. h # g BY <1>4, <3>1
    <3>3. QED BY <3>1, <3>2
  <2>3. CASE RideP!OneComes BY <2>3 DEF RideP!OneComes, RideP!Moving
  <2>4. QED BY <1>1, <2>1, <2>2, <2>3, RideP!StepFacts
<1> HIDE DEF g, h, Read, ReadNext
<1>6. LeftOrRead \in Nat /\ LeftOrRead' \in Nat /\ LeftOrRead' >= LeftOrRead
  BY <1>3, <1>4, <1>5
<1>7. QED BY <1>2, <1>6, LaterReads

(* The pop books the oldest event, the one copied.                         *)
LEMMA PopKeepsReads ==
  ASSUME StoresInv, ThreadTypeOK, ReadsInv, RideP!PopBegin,
         ridesRead' = [ridesRead EXCEPT ![RideP!Gone + 1] = @ + 1]
  PROVE  ReadsInv'
<1> DEFINE g == RideP!Gone
<1>1. RideP!StoreInv /\ RideP!StoreAssumption
  BY StoreAssumptions DEF StoresInv, RideP!FullInv
<1>2. /\ rideOp = RideP!NoOp /\ RideP!Gone' = g /\ Len(ptTelegramBuffer) > 0
      /\ rideOp'.at = "archive" /\ rideOp'.cont.state = "PROCESSED"
  BY <1>1, RideP!BeginFacts
<1>a. LeftOrRead = g /\ LeftOrRead' = g + 1 /\ g \in Nat
  BY <1>2, RideP!NoOpFacts, BufferSerials DEF LeftOrRead, RideP!Moving
<1>3. g + 1 \in 1..RideBound
  <2>1. ridesRecvd <= RideBound BY DEF ThreadTypeOK
  <2>2. /\ g \in Nat /\ Len(ptTelegramBuffer) \in Nat /\ ridesRecvd \in Nat
        /\ ridesRecvd = g + Len(ptTelegramBuffer)
    BY BufferSerials
  <2> HIDE DEF g
  <2>3. QED BY <1>2, <2>1, <2>2, PTAssumption
<1>4. /\ ridesRead \in [1..RideBound -> Nat]
      /\ \A n \in 1..RideBound : ridesRead[n] <= 1
      /\ \A n \in 1..RideBound : n > g => ridesRead[n] = 0
  BY <1>a DEF ThreadTypeOK, ReadsInv
<1>5. ridesRead' = [ridesRead EXCEPT ![g + 1] = @ + 1]
  OBVIOUS
<1>6. WasRead' = {n \in 1..RideBound : ridesRead'[n] = 1}
  BY DEF WasRead
<1> HIDE DEF g
<1>7. ridesRead[g + 1] = 0 BY <1>a, <1>3, <1>4
<1>8. /\ ridesRead'[g + 1] = 1
      /\ \A n \in 1..RideBound : n # g + 1 => ridesRead'[n] = ridesRead[n]
  BY <1>3, <1>4, <1>5, <1>7
<1>9. \A n \in 1..RideBound : ridesRead'[n] <= 1
  BY <1>4, <1>8
<1>10. \A n \in 1..RideBound : n > g + 1 => ridesRead'[n] = 0
  BY <1>a, <1>4, <1>8, PTAssumption
<1>11. WasRead \subseteq WasRead' /\ g + 1 \in WasRead'
  BY <1>3, <1>6, <1>7, <1>8 DEF WasRead
<1>12. RideP!ProcessedIn(WasRead')
  <2> HIDE DEF WasRead
  <2>1. RideP!ProcessedIn(WasRead) BY DEF ReadsInv
  <2>2. QED BY <1>11, <2>1 DEF RideP!ProcessedIn
<1>13. RideP!ProcessedInNext(WasRead')
  <2> DEFINE T == WasRead'
  <2>1. RideP!ProcessedIn(T) /\ RideP!Gone + 1 \in T BY <1>11, <1>12 DEF g
  <2> HIDE DEF T
  <2>2. RideP!ProcessedInNext(T) BY <1>1, <2>1, RideP!PopKeepsProcessed
  <2>3. QED BY <2>2 DEF T
<1>14. RideP!ProcessedIn(WasRead)'
  BY <1>13 DEF RideP!ProcessedIn, RideP!ProcessedInNext
<1>15. QED BY <1>a, <1>9, <1>10, <1>14 DEF ReadsInv

LEMMA ReadsInvStep ==
  ASSUME "tacGetRideEvent" \notin HttpApi,
         StoresInv, ThreadTypeOK, ReadsInv, CallerInv, [Next]_vars
  PROVE  ReadsInv' /\ CallerInv'
<1>0. pc \in [Thread -> PCs] /\ rideEvent \in [Thread -> 0..RideBound]
  BY DEF ThreadTypeOK
<1>a. ASSUME NEW t \in Thread, NEW l, Goto(t, l)
      PROVE  pc'[t] = l /\ \A u \in Thread \ {t} : pc'[u] = pc[u]
  BY <1>0, <1>a DEF Goto
<1>b. RideP!StoreInv /\ RideP!StoreAssumption
  BY StoreAssumptions DEF StoresInv, RideP!FullInv
<1>c. RideP!NoOp' = RideP!NoOp /\ Ride!NoOp = RideP!NoOp
  BY SameActions DEF RideP!NoOp, RideP!NoTelegram
<1> DEFINE Same == UNCHANGED <<ptTelegramBuffer, ptTelegramArchive, ridesSent,
                               ridesOflowed, rideOp>>
<1>1. ASSUME NEW t \in Thread, pc[t] \notin {"addRide", "popRide"},
             pc' = pc \/ \E l \in PCs \ {"addRide", "counted", "copied", "popRide"} :
                           Goto(t, l),
             Same, UNCHANGED readVars
      PROVE  ReadsInv' /\ CallerInv'
  <2>1. ReadsInv' BY <1>1, SameReads DEF readVars
  <2>2. CASE pc' = pc BY <1>1, <2>1, <2>2, SameCaller DEF readVars
  <2>3. ASSUME NEW l \in PCs \ {"addRide", "counted", "copied", "popRide"}, Goto(t, l)
        PROVE  CallerInv'
    <3>1. CASE t = "main"
      <4>1. rideOp = RideP!NoOp BY <1>1, <3>1 DEF CallerInv
      <4>2. pc'["http"] = pc["http"] /\ pc'["main"] = l BY <1>a, <2>3, <3>1 DEF Thread
      <4>3. QED BY <1>1, <4>1, <4>2, SameCaller DEF readVars
    <3>2. CASE t = "http"
      <4>1. pc'["main"] = pc["main"] /\ pc'["http"] = l BY <1>a, <2>3, <3>2 DEF Thread
      <4>2. QED BY <1>1, <4>1, SameCaller DEF readVars
    <3>3. QED BY <3>1, <3>2 DEF Thread
  <2>4. QED BY <1>1, <2>1, <2>2, <2>3
<1>2. CASE rideevent_8_svc
  <2>1. pc["main"] = "idle" /\ UNCHANGED readVars
    BY <1>2 DEF rideevent_8_svc, Idle, At
  <2>2. RideFree BY <1>c, <2>1 DEF CallerInv, RideFree
  <2>3. RideP!AddBegin /\ Goto("main", "addRide")
    BY <1>2, <2>2, SameActions DEF rideevent_8_svc
  <2>4. ReadsInv' BY <2>1, <2>3, ArrivalKeepsReads DEF readVars
  <2>5. pc'["main"] = "addRide" /\ pc'["http"] = pc["http"] BY <1>a, <2>3 DEF Thread
  <2>6. QED BY <2>4, <2>5 DEF CallerInv
<1>3. ASSUME NEW t \in Thread, GetRideEventCount(t)
      PROVE  ReadsInv' /\ CallerInv'
  <2>1. /\ t = "main" /\ ptTelegramBuffer # <<>> /\ Same /\ UNCHANGED readVars
        /\ pc["main"] = "idle" /\ Goto("main", "counted")
    BY <1>3 DEF GetRideEventCount, CanGetRideEvent, Idle, At, Thread, rideVars
  <2>2. pc'["http"] = pc["http"] /\ pc'["main"] = "counted" BY <1>a, <2>1 DEF Thread
  <2>3. ReadsInv' BY <2>1, SameReads DEF readVars
  <2>4. rideOp = RideP!NoOp BY <2>1 DEF CallerInv
  <2>5. CallerInv' BY <1>c, <2>1, <2>2, <2>4 DEF CallerInv
  <2>6. QED BY <2>3, <2>5
<1>4. ASSUME NEW t \in Thread, GetRideEventCopy(t)
      PROVE  ReadsInv' /\ CallerInv'
  <2>1. t = "main" /\ pc["main"] = "counted" /\ ptTelegramBuffer # <<>>
    BY <1>4 DEF GetRideEventCopy, At, CallerInv, Thread
  <2>2. CanReadFront /\ rideOp = RideP!NoOp
    BY <1>c, <2>1 DEF CallerInv, CanReadFront, RideFree
  <2>3. /\ Same /\ ridesRead' = ridesRead /\ Goto("main", "copied")
        /\ rideEvent' = [rideEvent EXCEPT
                            !["main"] = rideHeap[Head(ptTelegramBuffer).telegram]]
    BY <1>4, <2>1, <2>2 DEF GetRideEventCopy, rideVars
  <2>4. rideHeap[Head(ptTelegramBuffer).telegram] = RideP!Gone + 1
    <3>1. ptTelegramBuffer \in Seq(RideP!TelegramCont)
      BY <1>b DEF RideP!StoreInv, RideP!StoreTypeOK
    <3>2. Head(ptTelegramBuffer) = ptTelegramBuffer[1] /\ 1 \in 1..Len(ptTelegramBuffer)
      BY <2>1, <3>1
    <3>3. QED BY <3>2, BufferSerials
  <2>5. rideEvent'["main"] = RideP!Gone + 1 BY <1>0, <2>3, <2>4 DEF Thread
  <2>6. RideP!Gone' = RideP!Gone BY <2>3 DEF RideP!Gone
  <2>7. pc'["http"] = pc["http"] /\ pc'["main"] = "copied" BY <1>a, <2>3 DEF Thread
  <2>8. ReadsInv' BY <2>3, SameReads
  <2>9. CallerInv' BY <1>c, <2>1, <2>2, <2>3, <2>5, <2>6, <2>7 DEF CallerInv
  <2>10. QED BY <2>8, <2>9
<1>5. ASSUME NEW t \in Thread, GetRideEventPop(t)
      PROVE  ReadsInv' /\ CallerInv'
  <2>1. /\ t = "main" /\ pc["main"] = "copied" /\ ptTelegramBuffer # <<>>
        /\ rideEvent["main"] = RideP!Gone + 1
    BY <1>5 DEF GetRideEventPop, At, CallerInv, Thread
  <2>2. CanReadFront BY <1>c, <2>1 DEF CallerInv, CanReadFront, RideFree
  <2>3. /\ RideP!PopBegin /\ Goto("main", "popRide")
        /\ ridesRead' = [ridesRead EXCEPT ![RideP!Gone + 1] = @ + 1]
    BY <1>5, <2>1, <2>2, SameActions DEF GetRideEventPop
  <2>4. pc'["http"] = pc["http"] /\ pc'["main"] = "popRide" BY <1>a, <2>3 DEF Thread
  <2>5. CallerInv' BY <2>4 DEF CallerInv
  <2>6. QED BY <2>3, <2>5, PopKeepsReads
<1>6. ASSUME NEW t \in Thread, RideStep(t)
      PROVE  ReadsInv' /\ CallerInv'
  <2>1. /\ t = "main" /\ pc["main"] \in {"addRide", "popRide"}
        /\ RideP!Step /\ UNCHANGED readVars
        /\ IF rideOp' = RideP!NoOp THEN Goto("main", "idle") ELSE pc' = pc
    BY <1>6, <1>c, SameActions DEF RideStep, At, CallerInv, Thread
  <2>2. /\ pc'["http"] = pc["http"]
        /\ rideOp' = RideP!NoOp => pc'["main"] = "idle"
        /\ rideOp' # RideP!NoOp => pc'["main"] = pc["main"]
    BY <1>a, <2>1 DEF Thread
  <2>3. CallerInv' BY <1>c, <2>1, <2>2 DEF CallerInv
  <2>4. QED BY <2>1, <2>3, StepKeepsReads DEF readVars
<1>7. ASSUME NEW t \in Thread, tacInsertAmliEventToArchive(t)
      PROVE  ReadsInv' /\ CallerInv'
  BY <1>1, <1>7 DEF tacInsertAmliEventToArchive, Idle, At, rideVars, PCs
<1>8. ASSUME NEW t \in Thread, AmliStep(t)
      PROVE  ReadsInv' /\ CallerInv'
  <2>1. /\ pc[t] \in {"addAmli", "popAmli"} /\ Same /\ UNCHANGED readVars
        /\ pc' = pc \/ \E l \in {"idle", "popping"} : Goto(t, l)
    BY <1>8 DEF AmliStep, At, rideVars
  <2>2. QED BY <1>1, <2>1 DEF PCs
<1>9. CASE SendAmlis \/ BuildRequest \/ ReplyOk \/ ReplyFails
  <2>1. /\ pc["main"] \in {"idle", "building", "sending"} /\ Same /\ UNCHANGED readVars
        /\ \E l \in {"building", "sending", "popping", "idle", "undefined"} :
             Goto("main", l)
    BY <1>9 DEF SendAmlis, BuildRequest, ReplyOk, ReplyFails, Idle, At, rideVars
  <2>2. QED BY <1>1, <2>1 DEF PCs, Thread
<1>10. CASE PopAmli
  <2>1. /\ pc["main"] = "popping" /\ Same /\ UNCHANGED readVars
        /\ \E l \in {"idle", "popAmli", "undefined"} : Goto("main", l)
    <3>1. pc["main"] = "popping" /\ Same /\ UNCHANGED readVars /\ remaining \in Nat
      BY <1>10 DEF PopAmli, At, rideVars, ThreadTypeOK
    <3>2. CASE remaining = 0 BY <1>10, <3>1, <3>2 DEF PopAmli
    <3>3. CASE remaining # 0
      <4>1. remaining > 0 BY <3>1, <3>3
      <4>2. CASE AmliFree /\ amliBuffer # <<>> BY <1>10, <3>1, <3>3, <4>1, <4>2 DEF PopAmli
      <4>3. CASE ~(AmliFree /\ amliBuffer # <<>>) BY <1>10, <3>1, <3>3, <4>1, <4>3 DEF PopAmli
      <4>4. QED BY <4>2, <4>3
    <3>4. QED BY <3>2, <3>3
  <2>2. QED BY <1>1, <2>1 DEF PCs, Thread
<1>11. CASE RidePage \/ AmliPage \/ UNCHANGED vars
  <2>1. Same /\ UNCHANGED readVars /\ pc' = pc
    BY <1>11, PagesOnlyRead DEF RidePage, AmliPage, vars, rideVars
  <2>2. QED BY <2>1, SameReads, SameCaller DEF readVars
<1>12. QED
  BY <1>2, <1>3, <1>4, <1>5, <1>6, <1>7, <1>8, <1>9, <1>10, <1>11 DEF Next

LEMMA ReadsInvariant ==
  ASSUME "tacGetRideEvent" \notin HttpApi
  PROVE  Spec => [](ReadsInv /\ CallerInv)
<1>1. Init => ReadsInv /\ CallerInv
  BY SameActions, RideP!NoOpFacts
  DEF Init, Ride!Init, RideP!Init, Thread, ReadsInv, CallerInv, WasRead, LeftOrRead,
      RideP!ProcessedIn, RideP!Gone, RideP!Moving
<1>2. StoresInv /\ ThreadTypeOK /\ ReadsInv /\ CallerInv /\ [Next]_vars =>
        ReadsInv' /\ CallerInv'
  BY ReadsInvStep
<1>3. QED BY <1>1, <1>2, StoresInvariant, ThreadTypes, PTL DEF Spec

(* As long as only the TA calls tacGetRideEvent, no ride event is handed   *)
(* out twice, and one archived as PROCESSED was handed out once, whatever  *)
(* overflows and however memory is reused.  The hypothesis is needed: two  *)
(* callers can both pass the count check with one event left.              *)
THEOREM RideEventsAreReadOnce ==
  ASSUME "tacGetRideEvent" \notin HttpApi
  PROVE  Spec => []RideEventReadOnce
<1>1. StoresInv /\ ReadsInv => RideEventReadOnce
  BY DEF StoresInv, RideP!FullInv, RideP!StoreInv, RideP!TelegramsIntact,
         ReadsInv, RideP!ProcessedIn, WasRead, RideEventReadOnce, Processed
<1>2. QED BY <1>1, ReadsInvariant, StoresInvariant, PTL

(* With one caller the count check of tacGetRideEvent is enough: neither   *)
(* front() nor pop_front() is called on an empty list or while another     *)
(* operation on the list is under way, and no event arrives during one.    *)
THEOREM ListsAreNotEmptyWhenRead ==
  ASSUME "tacGetRideEvent" \notin HttpApi
  PROVE  Spec => [](/\ \A t \in Thread : pc[t] \in {"counted", "copied"} => CanReadFront
                    /\ pc["main"] = "idle" => RideFree)
<1>1. CallerInv => /\ \A t \in Thread : pc[t] \in {"counted", "copied"} => CanReadFront
                   /\ pc["main"] = "idle" => RideFree
  BY SameActions DEF CallerInv, Thread, CanReadFront, RideFree
<1>2. QED BY <1>1, ReadsInvariant, PTL

(* If the test pages call neither function, the two threads never run into *)
(* each other in a store, and sendAmlis stays within the request it        *)
(* allocated: what the HTTP thread must not do is write.                   *)
NoClash == \A t \in Thread : pc[t] # "undefined"

THEOREM TheTaAloneIsSafe == ASSUME HttpApi = {} PROVE Spec => []NoClash
<1>1. Init => NoClash
  BY DEF Init, NoClash
<1>2. StoresInv /\ ThreadTypeOK /\ SendInv /\ CallerInv /\ NoClash /\ [Next]_vars => NoClash'
  <2> SUFFICES ASSUME StoresInv, ThreadTypeOK, SendInv, CallerInv, NoClash, [Next]_vars
               PROVE  NoClash'
    OBVIOUS
  <2>1. pc \in [Thread -> PCs] /\ remaining \in Nat BY DEF ThreadTypeOK
  <2>2. ASSUME NEW t \in Thread, NEW l \in PCs \ {"undefined"}, Goto(t, l)
        PROVE  NoClash'
    BY <2>1, <2>2 DEF Goto, NoClash
  <2>3. Ride!NoOp = RideP!NoOp /\ Amli!NoOp = AmliP!NoOp BY SameActions
  <2>4. CASE rideevent_8_svc
    <3>1. pc["main"] = "idle" BY <2>4 DEF rideevent_8_svc, Idle, At
    <3>2. RideFree BY <2>3, <3>1 DEF CallerInv, RideFree
    <3>3. Goto("main", "addRide") BY <2>4, <3>2 DEF rideevent_8_svc
    <3>4. QED BY <2>2, <3>3 DEF PCs, Thread
  <2>5. ASSUME NEW t \in Thread,
               GetRideEventCount(t) \/ GetRideEventCopy(t) \/ GetRideEventPop(t)
        PROVE  NoClash'
    <3>1. CASE GetRideEventCount(t)
      BY <2>2, <3>1 DEF GetRideEventCount, PCs
    <3>2. CASE GetRideEventCopy(t) \/ GetRideEventPop(t)
      <4>1. pc[t] \in {"counted", "copied"}
        BY <3>2 DEF GetRideEventCopy, GetRideEventPop, At
      <4>2. t = "main" BY <4>1 DEF CallerInv, Thread
      <4>3. CanReadFront BY <2>3, <4>1, <4>2 DEF CallerInv, CanReadFront, RideFree
      <4>4. Goto(t, "copied") \/ Goto(t, "popRide")
        BY <3>2, <4>3 DEF GetRideEventCopy, GetRideEventPop
      <4>5. QED BY <2>2, <4>4 DEF PCs
    <3>3. QED BY <2>5, <3>1, <3>2
  <2>6. ASSUME NEW t \in Thread, RideStep(t) \/ AmliStep(t)
        PROVE  NoClash'
    <3>1. pc' = pc \/ \E l \in {"idle", "popping"} : Goto(t, l)
      BY <2>6 DEF RideStep, AmliStep
    <3>2. QED BY <2>2, <3>1 DEF PCs, NoClash
  <2>7. ASSUME NEW t \in Thread, tacInsertAmliEventToArchive(t)
        PROVE  NoClash'
    <3>1. t = "main" /\ pc["main"] = "idle"
      BY <2>7 DEF tacInsertAmliEventToArchive, Idle, At
    <3>2. AmliFree BY <2>3, <3>1 DEF SendInv, AmliFree
    <3>3. Goto("main", "addAmli")
      BY <2>7, <3>1, <3>2 DEF tacInsertAmliEventToArchive
    <3>4. QED BY <2>2, <3>3 DEF PCs, Thread
  <2>8. CASE SendAmlis \/ ReplyOk \/ ReplyFails
    <3>1. \E l \in {"building", "popping", "idle"} : Goto("main", l)
      BY <2>8 DEF SendAmlis, ReplyOk, ReplyFails
    <3>2. QED BY <2>2, <3>1 DEF PCs, Thread
  <2>9. CASE BuildRequest
    <3>1. pc["main"] = "building" BY <2>9 DEF BuildRequest, At
    <3>2. AmliFree /\ Len(amliBuffer) = remaining
      BY <2>3, <3>1 DEF SendInv, AmliFree
    <3>3. Goto("main", "sending") BY <2>9, <3>2 DEF BuildRequest
    <3>4. QED BY <2>2, <3>3 DEF PCs, Thread
  <2>10. CASE PopAmli
    <3>1. pc["main"] = "popping" BY <2>10 DEF PopAmli, At
    <3>2. AmliFree /\ remaining <= Len(amliBuffer)
      BY <2>3, <3>1 DEF SendInv, AmliFree
    <3>3. CASE remaining = 0
      <4>1. Goto("main", "idle") BY <2>10, <3>3 DEF PopAmli
      <4>2. QED BY <2>2, <4>1 DEF PCs, Thread
    <3>4. CASE remaining # 0
      <4>1. remaining > 0 /\ Len(amliBuffer) # 0 BY <2>1, <3>2, <3>4, BufferSerials
      <4>2. amliBuffer # <<>> BY <4>1
      <4>3. Goto("main", "popAmli") BY <2>10, <3>2, <3>4, <4>1, <4>2 DEF PopAmli
      <4>4. QED BY <2>2, <4>3 DEF PCs, Thread
    <3>5. QED BY <3>3, <3>4
  <2>11. CASE RidePage \/ AmliPage \/ UNCHANGED vars
    BY <2>11 DEF RidePage, AmliPage, vars, NoClash
  <2>12. QED
    BY <2>4, <2>5, <2>6, <2>7, <2>8, <2>9, <2>10, <2>11 DEF Next
<1>3. Spec => []SendInv
  BY SendInvariant
<1>4. Spec => [](ReadsInv /\ CallerInv)
  BY ReadsInvariant
<1>5. QED BY <1>1, <1>2, <1>3, <1>4, StoresInvariant, ThreadTypes, PTL DEF Spec
=============================================================================
