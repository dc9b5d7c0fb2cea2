--------------------------- MODULE TelegramStore ---------------------------
(***************************************************************************)
(* One telegram family of class PublicTransport (cctrl/PublicTransport.h,  *)
(* cctrl/api_PublicTransport.cpp).  The code has two copies of it, for     *)
(* AMLI telegrams (amliBuffer, amliArchive, amliMemPool) and for ride      *)
(* events (ptTelegramBuffer, ptTelegramArchive, rideEventMemPool).         *)
(*                                                                         *)
(* The lists hold pointers.  heap is the memory behind them: heap[a] is    *)
(* the serial number of the telegram last written at address a, 0 if a was *)
(* never allocated.  The serial number stands for the telegram's contents. *)
(*                                                                         *)
(* page is the HTTP thread's walk over the lists                           *)
(* (util/PublicTransportHttp.cpp), which takes no lock: each of its steps  *)
(* may fall between any two operations of the main thread.                 *)
(***************************************************************************)
EXTENDS Integers, Sequences, FiniteSets

CONSTANTS Addr,                     \* addresses the allocator can return
          MAX_TELEGRAMS,
          MAX_ARCHIVED_TELEGRAMS,
          RecvBound                 \* bound on the telegrams received

\* what a module that uses the store must see to
StoreAssumption ==
  /\ MAX_TELEGRAMS \in Nat \ {0}
  /\ MAX_ARCHIVED_TELEGRAMS \in Nat \ {0}
  /\ RecvBound \in Nat

VARIABLES buffer,    \* telegrams waiting, oldest first
          archive,   \* telegrams that left the buffer, oldest first
          memPool,   \* pointers free for reuse
          heap,
          recvd, sent, oflowed,   \* struct TelegramStats
          op,        \* the add*Telegram or pop*Telegram under way
          page

storeVars == <<buffer, archive, memPool, heap, recvd, sent, oflowed, op>>

TelegramState == {"PENDING", "PROCESSED", "OVERFLOWED"}
TelegramCont  == [telegram : Addr, state : TelegramState]

NoTelegram == [telegram |-> 0, state |-> "PENDING"]

-----------------------------------------------------------------------------
(* add*Telegram and pop*Telegram hold no lock, so each operation on one of *)
(* the three lists is a step: op.at is the one that comes next, op.cont    *)
(* the container on the stack, op.new the memory for the new telegram.     *)
(* One thread at a time is in here; who composes stores says what another  *)
(* thread finds that starts before op is NoOp again.                       *)

NoOp == [at |-> "none", cont |-> NoTelegram, new |-> NoTelegram.telegram]

ArchiveFull == Len(archive) = MAX_ARCHIVED_TELEGRAMS

Leaving(s) == [NoOp EXCEPT !.at = "archive", !.cont = [Head(buffer) EXCEPT !.state = s]]

\* mutant: a full buffer refuses the new telegram
AddBegin_DropsNewest ==
  /\ op = NoOp /\ recvd < RecvBound
  /\ IF Len(buffer) = MAX_TELEGRAMS
     THEN recvd' = recvd + 1 /\ oflowed' = oflowed + 1 /\ UNCHANGED op
     ELSE op' = [op EXCEPT !.at = "new"] /\ UNCHANGED <<recvd, oflowed>>
  /\ UNCHANGED <<buffer, archive, memPool, heap, sent, page>>

\* add*Telegram: a full buffer first gives up its front
AddBegin ==
  /\ op = NoOp /\ recvd < RecvBound
  /\ \/ /\ Len(buffer) = MAX_TELEGRAMS
        /\ op' = Leaving("OVERFLOWED")
     \/ /\ Len(buffer) # MAX_TELEGRAMS
        /\ op' = [NoOp EXCEPT !.at = "new"]
  /\ UNCHANGED <<buffer, archive, memPool, heap, recvd, sent, oflowed, page>>

\* pop*Telegram, on a list that is not empty
PopBegin ==
  /\ op = NoOp /\ buffer # <<>>
  /\ op' = Leaving("PROCESSED")
  /\ UNCHANGED <<buffer, archive, memPool, heap, recvd, sent, oflowed, page>>

(* archive*Telegram: the archive keeps the newest telegrams; the memory of *)
(* the one it gives up goes to the pool and is never freed.                *)
Recycle ==
  /\ op.at = "archive" /\ ArchiveFull
  /\ memPool' = Append(memPool, Head(archive).telegram)
  /\ op' = [op EXCEPT !.at = "drop"]
  /\ UNCHANGED <<buffer, archive, heap, recvd, sent, oflowed, page>>

DropArchived ==
  /\ op.at = "drop"
  /\ archive' = Tail(archive)
  /\ op' = [op EXCEPT !.at = "store"]
  /\ UNCHANGED <<buffer, memPool, heap, recvd, sent, oflowed, page>>

Store ==
  /\ op.at = "store" \/ (op.at = "archive" /\ ~ArchiveFull)
  /\ archive' = Append(archive, op.cont)
  /\ op' = [op EXCEPT !.at = "leave"]
  /\ UNCHANGED <<buffer, memPool, heap, recvd, sent, oflowed, page>>

\* back in the caller: the front leaves the buffer and is counted
Leave ==
  /\ op.at = "leave"
  /\ buffer' = Tail(buffer)
  /\ \/ /\ op.cont.state = "PROCESSED"
        /\ sent' = sent + 1 /\ op' = NoOp /\ UNCHANGED oflowed
     \/ /\ op.cont.state = "OVERFLOWED"
        /\ oflowed' = oflowed + 1 /\ op' = [op EXCEPT !.at = "new"] /\ UNCHANGED sent
  /\ UNCHANGED <<archive, memPool, heap, recvd, page>>

\* poolNew*: reuse the front of the pool, or allocate
New ==
  /\ op.at = "new"
  /\ \E a \in Addr :
       /\ IF memPool # <<>> THEN a = Head(memPool) ELSE heap[a] = 0
       /\ heap' = [heap EXCEPT ![a] = recvd + 1]
       /\ op' = [op EXCEPT !.at = IF memPool # <<>> THEN "unpool" ELSE "emplace",
                           !.new = a]
  /\ UNCHANGED <<buffer, archive, memPool, recvd, sent, oflowed, page>>

\* mutant: pop_front on the pool is missing
Unpool_Keeps ==
  /\ op.at = "unpool"
  /\ op' = [op EXCEPT !.at = "emplace"]
  /\ UNCHANGED <<buffer, archive, memPool, heap, recvd, sent, oflowed, page>>

Unpool ==
  /\ op.at = "unpool"
  /\ memPool' = Tail(memPool)
  /\ op' = [op EXCEPT !.at = "emplace"]
  /\ UNCHANGED <<buffer, archive, heap, recvd, sent, oflowed, page>>

Emplace ==
  /\ op.at = "emplace"
  /\ buffer' = Append(buffer, [telegram |-> op.new, state |-> "PENDING"])
  /\ recvd' = recvd + 1
  /\ op' = NoOp
  /\ UNCHANGED <<archive, memPool, heap, sent, oflowed, page>>

Step == Recycle \/ DropArchived \/ Store \/ Leave \/ New \/ Unpool \/ Emplace

-----------------------------------------------------------------------------
(* The page walks each list from rbegin() to rend().  A reverse iterator   *)
(* holds the list node after the one it shows, so page.base names a node   *)
(* by the serial number of its telegram; 0 is the list's end().  Nodes are *)
(* freed by pop_front: a step that must follow a freed node is undefined.  *)

Gone == sent + oflowed                \* telegrams that left the buffer

\* telegrams the archive has taken: the buffer's front may be in both lists
Left == IF op.at = "leave" THEN Gone + 1 ELSE Gone

List(l)   == IF l = "buffer" THEN buffer ELSE archive
Oldest(l) == (IF l = "buffer" THEN Gone ELSE Left - Len(archive)) + 1
Newest(l) == IF l = "buffer" THEN Gone + Len(buffer) ELSE Left

HasNode(l, n) == n \in Oldest(l) .. Newest(l)

\* the node before end() or before a node; begin() is preceded by end()
Before(l, n) ==
  CASE n = 0         -> IF List(l) = <<>> THEN 0 ELSE Newest(l)
    [] n = Oldest(l) -> 0
    [] OTHER         -> n - 1

PageClosed == [pc |-> "closed", list |-> "buffer", base |-> 0, cont |-> NoTelegram]

PageOpen ==
  /\ page.pc = "closed"
  /\ page' = [page EXCEPT !.pc = "compare"]
  /\ UNCHANGED storeVars

AtEnd == page.base = Oldest(page.list) \/ (page.base = 0 /\ List(page.list) = <<>>)

\* it != rend(): to the row, to the archive, or to the end of the page
PageCompare ==
  /\ page.pc = "compare"
  /\ page' = CASE ~AtEnd                    -> [page EXCEPT !.pc = "deref"]
               [] AtEnd /\ page.list = "buffer" ->
                    [page EXCEPT !.list = "archive", !.base = 0]
               [] OTHER                     -> PageClosed
  /\ UNCHANGED storeVars

\* mutant: the iterator is moved with the copy, from end() as from a node
PageCopy_Moves ==
  /\ page.pc = "deref"
  /\ page.base = 0 /\ List(page.list) # <<>>
  /\ page' = [page EXCEPT !.pc = "copied", !.base = page.base - 1,
                          !.cont = List(page.list)[Len(List(page.list))]]
  /\ UNCHANGED storeVars

\* TelegramCont cont = *it: the list may have moved on since the comparison
PageCopy ==
  /\ page.pc = "deref"
  /\ LET n == Before(page.list, page.base)
     IN \/ /\ page.base = 0 \/ HasNode(page.list, page.base)
           /\ n # 0
           /\ page' = [page EXCEPT !.pc = "copied",
                          !.cont = List(page.list)[n - Oldest(page.list) + 1]]
        \/ /\ n = 0 \/ ~(page.base = 0 \/ HasNode(page.list, page.base))
           /\ page' = [page EXCEPT !.pc = "undefined"]
  /\ UNCHANGED storeVars

\* add*Row(t, cont) reads the telegram behind the copied pointer; ++it
PageRow ==
  /\ page.pc = "copied"
  /\ \/ /\ page.base = 0 \/ HasNode(page.list, page.base)
        /\ page' = [page EXCEPT !.pc = "compare", !.cont = NoTelegram,
                                !.base = Before(page.list, page.base)]
     \/ /\ ~(page.base = 0 \/ HasNode(page.list, page.base))
        /\ page' = [page EXCEPT !.pc = "undefined"]
  /\ UNCHANGED storeVars

PageNext == PageOpen \/ PageCompare \/ PageCopy \/ PageRow

-----------------------------------------------------------------------------
Init ==
  /\ buffer = <<>> /\ archive = <<>> /\ memPool = <<>>
  /\ heap = [a \in Addr |-> 0]
  /\ recvd = 0 /\ sent = 0 /\ oflowed = 0
  /\ op = NoOp
  /\ page = PageClosed

-----------------------------------------------------------------------------
(* Types of the lists, the memory, the counters and the operation.         *)
StoreTypeOK ==
  /\ buffer  \in Seq(TelegramCont)
  /\ archive \in Seq(TelegramCont)
  /\ memPool \in Seq(Addr)
  /\ heap \in [Addr -> Nat]
  /\ recvd \in Nat /\ sent \in Nat /\ oflowed \in Nat
  /\ op \in [at : {"none", "archive", "drop", "store", "leave",
                   "new", "unpool", "emplace"},
             cont : TelegramCont \cup {NoTelegram},
             new : Addr \cup {NoTelegram.telegram}]

PageTypeOK ==
  page \in [pc : {"closed", "compare", "deref", "copied", "undefined"},
           list : {"buffer", "archive"}, base : Nat,
           cont : TelegramCont \cup {NoTelegram}]

(* The lists never outgrow their limits, and every telegram received is    *)
(* waiting, sent or counted as overflowed (struct TelegramStats).          *)
Accounted ==
  /\ recvd = sent + oflowed + Len(buffer)
  /\ Len(buffer)  <= MAX_TELEGRAMS
  /\ Len(archive) <= MAX_ARCHIVED_TELEGRAMS
  /\ Len(archive) <= Left

(* Memory reuse never touches a telegram a list still points at, not even  *)
(* between two steps of one operation: the buffer shows the newest         *)
(* telegrams in the order they came, the archive the ones just before them *)
(* (its newest may still be the buffer's front), and what the pool offers  *)
(* for reuse is older than both and offered once (PublicTransport.h:53).   *)
(* Two pool entries are on their way: at "drop" the last one is still the  *)
(* archive's front, at "unpool" the first one already holds the telegram   *)
(* that is being added.                                                    *)
Pooled   == (IF op.at = "unpool" THEN 2 ELSE 1) .. Len(memPool)
Unlisted == IF op.at = "drop" THEN Left - Len(archive) + 1 ELSE Left - Len(archive)

TelegramsIntact ==
  /\ \A i \in 1..Len(buffer)  : heap[buffer[i].telegram]  = Gone + i
  /\ \A i \in 1..Len(archive) : heap[archive[i].telegram] = Left - Len(archive) + i
  /\ \A i \in Pooled : heap[memPool[i]] \in 1..Unlisted
  /\ \A i, j \in Pooled : i < j => heap[memPool[i]] < heap[memPool[j]]

(* The pools are never emptied, yet the memory they hold is bounded: no    *)
(* more than a full buffer and a full archive is ever allocated.           *)
Allocated == {a \in Addr : heap[a] # 0}

MemoryBounded ==
  Cardinality(Allocated) <= MAX_TELEGRAMS + MAX_ARCHIVED_TELEGRAMS

(* The pointer the HTTP thread copied stays good while it prints the row:  *)
(* memory of a telegram is never given back (PublicTransport.h:53-56).     *)
PagePointerAllocated ==
  page.pc = "copied" => page.cont.telegram \in Allocated

(* The store implements the bounded queue, read through its pointers.      *)
Queue == INSTANCE TelegramQueue
  WITH queue <- [i \in 1..Len(buffer) |-> heap[buffer[i].telegram]],
       room  <- /\ op.at \in {"new", "unpool", "emplace"}
                /\ op.cont.state = "OVERFLOWED"

QueueSpec == Queue!Spec
=============================================================================
