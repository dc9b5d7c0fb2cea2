----------------------- MODULE TelegramStore_proofs -----------------------
(***************************************************************************)
(* Proofs about one telegram family.  The step lemmas are about the        *)
(* actions alone, so that PublicTransport_proofs can use them for its two  *)
(* instances of the store.                                                 *)
(***************************************************************************)
EXTENDS TelegramStore, SequenceTheorems, FiniteSetTheorems, TLAPS

(* What is inductive: types, the books, the order of the serial numbers    *)
(* behind the pointers, and what the operation under way has found.  Equal *)
(* order means distinct pointers, so no separate disjointness is needed.   *)
OpType == [at : {"none", "archive", "drop", "store", "leave", "new", "unpool", "emplace"},
           cont : TelegramCont \cup {NoTelegram},
           new : Addr \cup {NoTelegram.telegram}]

Moving == {"archive", "drop", "store", "leave"}
Adding == {"new", "unpool", "emplace"}

OpInv ==
  /\ op.at = "none" => op = NoOp
  /\ op.at \in Moving =>
       /\ buffer # <<>> /\ op.cont \in TelegramCont
       /\ op.cont.telegram = buffer[1].telegram
       /\ op.cont.state \in {"PROCESSED", "OVERFLOWED"}
       /\ op.cont.state = "OVERFLOWED" => Len(buffer) = MAX_TELEGRAMS /\ recvd < RecvBound
  /\ op.at = "drop" => ArchiveFull
  /\ op.at = "store" => Len(archive) < MAX_ARCHIVED_TELEGRAMS
  /\ op.at \in Adding => Len(buffer) < MAX_TELEGRAMS /\ recvd < RecvBound
  /\ op.at = "unpool" => memPool # <<>>
  /\ op.at \in {"unpool", "emplace"} => op.new \in Addr /\ heap[op.new] = recvd + 1

StoreInv == StoreTypeOK /\ Accounted /\ TelegramsIntact /\ OpInv

-----------------------------------------------------------------------------
(* Appending to and removing from a sequence, element by element.          *)
LEMMA AppendFacts ==
  ASSUME NEW S, NEW s \in Seq(S), NEW e \in S
  PROVE  /\ Append(s, e) \in Seq(S)
         /\ Len(Append(s, e)) = Len(s) + 1
         /\ \A i \in 1..Len(s) : Append(s, e)[i] = s[i]
         /\ Append(s, e)[Len(s) + 1] = e
OBVIOUS

LEMMA TailFacts ==
  ASSUME NEW S, NEW s \in Seq(S), s # <<>>
  PROVE  /\ Len(s) \in Nat \ {0}
         /\ Head(s) = s[1] /\ Head(s) \in S
         /\ Tail(s) \in Seq(S)
         /\ Len(Tail(s)) = Len(s) - 1
         /\ \A i \in 1..Len(s) - 1 : Tail(s)[i] = s[i + 1]
OBVIOUS

(* TelegramsIntact for any lists: g telegrams are gone and l have left, of *)
(* the pool the entries from f on are older than u.                        *)
Intact(b, ar, p, h, g, l, f, u) ==
  /\ \A i \in 1..Len(b)  : h[b[i].telegram]  = g + i
  /\ \A i \in 1..Len(ar) : h[ar[i].telegram] = l - Len(ar) + i
  /\ \A i \in f..Len(p)  : h[p[i]] \in 1..u
  /\ \A i, j \in f..Len(p) : i < j => h[p[i]] < h[p[j]]

First == IF op.at = "unpool" THEN 2 ELSE 1

LEMMA IntactNow ==
  TelegramsIntact <=> Intact(buffer, archive, memPool, heap, Gone, Left, First, Unlisted)
BY DEF TelegramsIntact, Intact, Pooled, First

LEMMA IntactNext ==
  TelegramsIntact' <=>
    Intact(buffer', archive', memPool', heap', Gone', Left', First', Unlisted')
BY DEF TelegramsIntact, Intact, Pooled, First

(* The types and the books, with the numbers they speak of.                *)
LEMMA Facts ==
  ASSUME StoreAssumption, StoreInv
  PROVE  /\ buffer \in Seq(TelegramCont) /\ archive \in Seq(TelegramCont)
         /\ memPool \in Seq(Addr) /\ heap \in [Addr -> Nat] /\ op \in OpType
         /\ recvd \in Nat /\ sent \in Nat /\ oflowed \in Nat
         /\ Len(buffer) \in Nat /\ Len(archive) \in Nat /\ Len(memPool) \in Nat
         /\ Gone \in Nat /\ Left \in Nat
         /\ Gone = sent + oflowed /\ recvd = Gone + Len(buffer)
         /\ op.at = "leave" => Left = Gone + 1
         /\ op.at # "leave" => Left = Gone
         /\ op.at = "drop" => Unlisted = Left - Len(archive) + 1
         /\ op.at # "drop" => Unlisted = Left - Len(archive)
         /\ Len(buffer) <= MAX_TELEGRAMS /\ Len(archive) <= MAX_ARCHIVED_TELEGRAMS
         /\ Len(archive) <= Left
         /\ MAX_TELEGRAMS \in Nat \ {0} /\ MAX_ARCHIVED_TELEGRAMS \in Nat \ {0}
         /\ OpInv
         /\ Intact(buffer, archive, memPool, heap, Gone, Left, First, Unlisted)
<1>1. StoreTypeOK /\ Accounted /\ TelegramsIntact /\ OpInv
  BY DEF StoreInv
<1>2. Gone \in Nat /\ Left \in Nat
  BY <1>1 DEF StoreTypeOK, Gone, Left
<1>3. op \in OpType
  BY <1>1 DEF StoreTypeOK, OpType
<1>4. Intact(buffer, archive, memPool, heap, Gone, Left, First, Unlisted)
  BY <1>1, IntactNow
<1>5. QED
  BY <1>1, <1>2, <1>3, <1>4
  DEF StoreTypeOK, Accounted, StoreAssumption, Gone, Left, Unlisted

(* The numbers alone.                                                      *)
LEMMA Numbers ==
  ASSUME StoreAssumption, StoreInv
  PROVE  /\ recvd \in Nat /\ sent \in Nat /\ oflowed \in Nat
         /\ Len(buffer) \in Nat /\ Len(archive) \in Nat /\ Len(memPool) \in Nat
         /\ Gone \in Nat /\ Left \in Nat /\ Len(archive) <= Left
         /\ Gone = sent + oflowed /\ recvd = Gone + Len(buffer)
         /\ Len(buffer) <= MAX_TELEGRAMS /\ Len(archive) <= MAX_ARCHIVED_TELEGRAMS
         /\ MAX_TELEGRAMS \in Nat \ {0} /\ MAX_ARCHIVED_TELEGRAMS \in Nat \ {0}
         /\ op.at = "leave" => Left = Gone + 1
         /\ op.at # "leave" => Left = Gone
BY Facts

(* The invariant of the next state, from its parts.                        *)
LEMMA FactsNext ==
  ASSUME buffer' \in Seq(TelegramCont), archive' \in Seq(TelegramCont),
         memPool' \in Seq(Addr), heap' \in [Addr -> Nat], op' \in OpType,
         recvd' \in Nat, sent' \in Nat, oflowed' \in Nat,
         recvd' = sent' + oflowed' + Len(buffer'),
         Len(buffer') <= MAX_TELEGRAMS, Len(archive') <= MAX_ARCHIVED_TELEGRAMS,
         Len(archive') <= Left', OpInv',
         Intact(buffer', archive', memPool', heap', Gone', Left', First', Unlisted')
  PROVE  StoreInv'
<1>1. StoreTypeOK' BY DEF StoreTypeOK, OpType
<1>2. Accounted' BY DEF Accounted
<1>3. TelegramsIntact' BY IntactNext
<1>4. QED BY <1>1, <1>2, <1>3 DEF StoreInv

(* An operation goes on to the next of its steps.                          *)
LEMMA OpGoesOn ==
  ASSUME op \in OpType,
         NEW l \in {"archive", "drop", "store", "leave", "new", "unpool", "emplace"},
         op' = [op EXCEPT !.at = l]
  PROVE  op' \in OpType /\ op'.at = l /\ op'.cont = op.cont /\ op'.new = op.new
BY DEF OpType

LEMMA NoOpFacts ==
  NoOp \in OpType /\ NoOp.at = "none" /\ NoOp.cont = NoTelegram /\ NoTelegram.state = "PENDING"
BY DEF NoOp, OpType, NoTelegram

LEMMA LeavingFacts ==
  ASSUME StoreAssumption, StoreInv, buffer # <<>>, NEW s \in {"PROCESSED", "OVERFLOWED"}
  PROVE  /\ Leaving(s) \in OpType /\ Leaving(s).at = "archive"
         /\ Leaving(s).cont \in TelegramCont
         /\ Leaving(s).cont.telegram = buffer[1].telegram
         /\ Leaving(s).cont.state = s
<1>1. Head(buffer) = buffer[1] /\ Head(buffer) \in TelegramCont
  BY Facts, TailFacts
<1> DEFINE c == [Head(buffer) EXCEPT !.state = s]
<1>2. c \in TelegramCont /\ c.telegram = buffer[1].telegram /\ c.state = s
  BY <1>1 DEF TelegramCont, TelegramState
<1> HIDE DEF c
<1>3. Leaving(s) = [NoOp EXCEPT !.at = "archive", !.cont = c]
  BY DEF Leaving, c
<1>4. Leaving(s) \in OpType /\ Leaving(s).at = "archive" /\ Leaving(s).cont = c
  BY <1>2, <1>3 DEF NoOp, OpType, NoTelegram
<1>5. QED BY <1>2, <1>4

-----------------------------------------------------------------------------
(* Each step of add*Telegram and pop*Telegram keeps the invariant.  The    *)
(* first one only notes what it found.                                     *)
LEMMA BeginKeepsInv ==
  ASSUME StoreAssumption, StoreInv, AddBegin \/ PopBegin
  PROVE  StoreInv'
<1>1. /\ op = NoOp
      /\ UNCHANGED <<buffer, archive, memPool, heap, recvd, sent, oflowed>>
  BY DEF AddBegin, PopBegin
<1>2. op.at = "none" BY <1>1, NoOpFacts
<1>3. op' \in OpType /\ op'.at \in {"archive", "new"} /\ OpInv'
  <2>1. CASE AddBegin /\ Len(buffer) = MAX_TELEGRAMS
    <3>1. op' = Leaving("OVERFLOWED") /\ recvd < RecvBound
      BY <2>1 DEF AddBegin
    <3>2. buffer # <<>> BY <2>1 DEF StoreAssumption
    <3>3. /\ op' \in OpType /\ op'.at = "archive"
          /\ op'.cont \in TelegramCont
          /\ op'.cont.telegram = buffer[1].telegram
          /\ op'.cont.state = "OVERFLOWED"
      BY <3>1, <3>2, LeavingFacts
    <3>4. OpInv' BY <1>1, <2>1, <3>1, <3>2, <3>3 DEF OpInv, Moving, Adding
    <3>5. QED BY <3>3, <3>4
  <2>2. CASE AddBegin /\ Len(buffer) # MAX_TELEGRAMS
    <3>1. op' = [NoOp EXCEPT !.at = "new"] /\ recvd < RecvBound
      BY <2>2 DEF AddBegin
    <3>2. op' \in OpType /\ op'.at = "new"
      BY <3>1 DEF NoOp, OpType, NoTelegram
    <3>3. Len(buffer) < MAX_TELEGRAMS BY <2>2, Facts
    <3>4. OpInv' BY <1>1, <3>1, <3>2, <3>3 DEF OpInv, Moving, Adding
    <3>5. QED BY <3>2, <3>4
  <2>3. CASE PopBegin
    <3>1. op' = Leaving("PROCESSED") /\ buffer # <<>>
      BY <2>3 DEF PopBegin
    <3>2. /\ op' \in OpType /\ op'.at = "archive"
          /\ op'.cont \in TelegramCont
          /\ op'.cont.telegram = buffer[1].telegram
          /\ op'.cont.state = "PROCESSED"
      BY <3>1, LeavingFacts
    <3>3. OpInv' BY <1>1, <3>1, <3>2 DEF OpInv, Moving, Adding
    <3>4. QED BY <3>2, <3>3
  <2>4. QED BY <2>1, <2>2, <2>3
<1>4. Gone' = Gone /\ Left' = Left /\ Unlisted' = Unlisted /\ First' = First
  BY <1>1, <1>2, <1>3, Facts DEF Gone, Left, Unlisted, First
<1>5. Intact(buffer', archive', memPool', heap', Gone', Left', First', Unlisted')
  BY <1>1, <1>4, Facts
<1>6. QED BY <1>1, <1>3, <1>4, <1>5, Facts, FactsNext

(* The pool gets the pointer the archive is about to give up: the oldest   *)
(* telegram the archive shows, newer than all the pool has.                *)
LEMMA RecycleKeepsInv ==
  ASSUME StoreAssumption, StoreInv, Recycle
  PROVE  StoreInv'
<1>1. /\ op.at = "archive" /\ Len(archive) = MAX_ARCHIVED_TELEGRAMS
      /\ memPool' = Append(memPool, Head(archive).telegram)
      /\ op' = [op EXCEPT !.at = "drop"]
      /\ UNCHANGED <<buffer, archive, heap, recvd, sent, oflowed>>
  BY DEF Recycle, ArchiveFull
<1>2. op' \in OpType /\ op'.at = "drop" /\ op'.cont = op.cont
  BY <1>1, OpGoesOn, Facts
<1>3. OpInv' BY <1>1, <1>2, Facts DEF OpInv, Moving, Adding, ArchiveFull
<1>4. archive # <<>> /\ Head(archive) = archive[1] /\ Head(archive) \in TelegramCont
  BY <1>1, Facts, TailFacts
<1>5. Head(archive).telegram \in Addr BY <1>4 DEF TelegramCont
<1>6. /\ memPool' \in Seq(Addr) /\ Len(memPool') = Len(memPool) + 1
      /\ \A i \in 1..Len(memPool) : memPool'[i] = memPool[i]
      /\ memPool'[Len(memPool) + 1] = archive[1].telegram
  BY <1>1, <1>4, <1>5, AppendFacts, Facts
<1>7. /\ Gone' = Gone /\ Left' = Left /\ First = 1 /\ First' = 1
      /\ Unlisted = Left - Len(archive) /\ Unlisted' = Unlisted + 1
  BY <1>1, <1>2, Facts DEF Gone, Left, Unlisted, First
<1>8. Intact(buffer, archive, memPool, heap, Gone, Left, 1, Left - Len(archive))
  BY <1>7, Facts
<1>9. heap[archive[1].telegram] = Left - Len(archive) + 1
  <2>1. 1 \in 1..Len(archive) BY <1>1, Numbers
  <2>2. QED BY <1>8, <2>1 DEF Intact
<1>10. Intact(buffer', archive', memPool', heap', Gone', Left', First', Unlisted')
  <2> DEFINE p == memPool'
             n == Len(memPool)
             u == Left - Len(archive)
  <2>1. /\ n \in Nat /\ u \in Nat /\ Len(p) = n + 1
        /\ \A i \in 1..n : p[i] = memPool[i] /\ heap[memPool[i]] \in 1..u
        /\ \A i, j \in 1..n : i < j => heap[memPool[i]] < heap[memPool[j]]
        /\ heap[p[n + 1]] = u + 1
    <3>1. n \in Nat /\ u \in Nat /\ Len(p) = n + 1
      <4>1. u \in Nat BY Numbers
      <4>2. QED BY <1>6, <4>1, Numbers
    <3>2. \A i \in 1..n : p[i] = memPool[i] /\ heap[memPool[i]] \in 1..u
      BY <1>6, <1>8 DEF Intact
    <3>3. \A i, j \in 1..n : i < j => heap[memPool[i]] < heap[memPool[j]]
      BY <1>8 DEF Intact
    <3>4. heap[p[n + 1]] = u + 1 BY <1>6, <1>9
    <3>5. QED BY <3>1, <3>2, <3>3, <3>4
  <2> HIDE DEF p, n, u
  <2>2. \A i \in 1..Len(p) : heap[p[i]] \in 1..u + 1
    BY <2>1
  <2>3. \A i, j \in 1..Len(p) : i < j => heap[p[i]] < heap[p[j]]
    <3> SUFFICES ASSUME NEW i \in 1..Len(p), NEW j \in 1..Len(p), i < j
                 PROVE  heap[p[i]] < heap[p[j]]
      OBVIOUS
    <3>1. i \in 1..n BY <2>1
    <3>2. CASE j = n + 1 BY <2>1, <3>1, <3>2
    <3>3. CASE j # n + 1
      <4>1. j \in 1..n BY <2>1, <3>3
      <4>2. QED BY <2>1, <3>1, <4>1
    <3>4. QED BY <3>2, <3>3
  <2>4. QED BY <1>1, <1>7, <1>8, <2>2, <2>3 DEF Intact, p, u
<1>11. QED BY <1>1, <1>2, <1>3, <1>6, <1>7, <1>10, Facts, FactsNext

LEMMA DropKeepsInv ==
  ASSUME StoreAssumption, StoreInv, DropArchived
  PROVE  StoreInv'
<1>1. /\ op.at = "drop" /\ archive' = Tail(archive)
      /\ op' = [op EXCEPT !.at = "store"]
      /\ UNCHANGED <<buffer, memPool, heap, recvd, sent, oflowed>>
  BY DEF DropArchived
<1>2. op' \in OpType /\ op'.at = "store" /\ op'.cont = op.cont
  BY <1>1, OpGoesOn, Facts
<1>3. Len(archive) = MAX_ARCHIVED_TELEGRAMS
  BY <1>1, Facts DEF OpInv, ArchiveFull
<1>4. /\ archive' \in Seq(TelegramCont) /\ Len(archive') = Len(archive) - 1
      /\ \A i \in 1 .. Len(archive) - 1 : archive'[i] = archive[i + 1]
  <2>1. archive # <<>> BY <1>3, Facts
  <2>2. QED BY <1>1, <2>1, Facts, TailFacts
<1>5. OpInv' BY <1>1, <1>2, <1>3, <1>4, Facts DEF OpInv, Moving, Adding, ArchiveFull
<1>6. /\ Gone' = Gone /\ Left' = Left /\ First = 1 /\ First' = 1
      /\ Unlisted' = Unlisted
  BY <1>1, <1>2, <1>4, Facts DEF Gone, Left, Unlisted, First
<1>7. \A i \in 1..Len(archive') : heap[archive'[i].telegram] = Left - Len(archive') + i
  <2> TAKE i \in 1..Len(archive')
  <2>1. i + 1 \in 1..Len(archive) /\ archive'[i] = archive[i + 1] BY <1>4, Facts
  <2>2. heap[archive[i + 1].telegram] = Left - Len(archive) + (i + 1)
    BY <2>1, Facts DEF Intact
  <2>3. QED BY <1>4, <2>1, <2>2, Facts
<1>8. Intact(buffer', archive', memPool', heap', Gone', Left', First', Unlisted')
  BY <1>1, <1>6, <1>7, Facts DEF Intact
<1>9. Len(archive') <= Left' /\ Len(archive') <= MAX_ARCHIVED_TELEGRAMS
  BY SMTT(30), <1>4, <1>6, Numbers
<1>10. QED BY <1>1, <1>2, <1>4, <1>5, <1>8, <1>9, Facts, FactsNext

(* The archive takes the container of the buffer's front.                  *)
LEMMA StoreKeepsInv ==
  ASSUME StoreAssumption, StoreInv, Store
  PROVE  StoreInv'
<1>1. /\ op.at \in {"archive", "store"} /\ archive' = Append(archive, op.cont)
      /\ op' = [op EXCEPT !.at = "leave"]
      /\ UNCHANGED <<buffer, memPool, heap, recvd, sent, oflowed>>
  BY DEF Store
<1>2. op' \in OpType /\ op'.at = "leave" /\ op'.cont = op.cont
  BY <1>1, OpGoesOn, Facts
<1>3. Len(archive) < MAX_ARCHIVED_TELEGRAMS
  BY Facts DEF Store, OpInv, ArchiveFull
<1>4. /\ op.cont \in TelegramCont /\ op.cont.telegram = buffer[1].telegram
      /\ buffer # <<>>
  BY <1>1, Facts DEF OpInv, Moving
<1>5. /\ archive' \in Seq(TelegramCont) /\ Len(archive') = Len(archive) + 1
      /\ \A i \in 1..Len(archive) : archive'[i] = archive[i]
      /\ archive'[Len(archive) + 1] = op.cont
  BY <1>1, <1>4, Facts, AppendFacts
<1>6. OpInv' BY <1>1, <1>2, <1>4, Facts DEF OpInv, Moving, Adding
<1>7. /\ Gone' = Gone /\ Left = Gone /\ Left' = Gone + 1 /\ First = 1 /\ First' = 1
      /\ Unlisted' = Unlisted
  <2>1. Gone' = Gone /\ Left = Gone /\ First = 1 /\ First' = 1
    BY <1>1, <1>2, Numbers DEF Gone, First
  <2>2. Left' = Gone + 1 BY <1>2, <2>1 DEF Left
  <2>3. Unlisted = Gone - Len(archive) /\ Unlisted' = Left' - Len(archive')
    BY <1>1, <1>2, <2>1, Numbers DEF Unlisted
  <2>4. Left' - Len(archive') = Gone - Len(archive)
    <3>1. \A x, y \in Nat : (x + 1) - (y + 1) = x - y OBVIOUS
    <3>2. (Gone + 1) - (Len(archive) + 1) = Gone - Len(archive) BY <3>1, Numbers
    <3>3. QED BY <1>5, <2>2, <3>2
  <2>5. QED BY <2>1, <2>2, <2>3, <2>4
<1>8. heap[op.cont.telegram] = Gone + 1
  <2>1. 1 \in 1..Len(buffer) BY <1>4, Facts
  <2>2. QED BY <1>4, <2>1, Facts DEF Intact
<1>9. \A i \in 1..Len(archive') : heap[archive'[i].telegram] = Left' - Len(archive') + i
  <2> TAKE i \in 1..Len(archive')
  <2>1. CASE i = Len(archive) + 1
    <3>1. Left' - Len(archive') + i = Gone + 1 BY <1>5, <1>7, <2>1, Numbers
    <3>2. QED BY <1>5, <1>8, <2>1, <3>1
  <2>2. CASE i # Len(archive) + 1
    <3>1. i \in 1..Len(archive) /\ archive'[i] = archive[i] BY SMTT(30), <1>5, <2>2, Numbers
    <3>2. heap[archive[i].telegram] = Left - Len(archive) + i
      BY <3>1, Facts DEF Intact
    <3>3. QED BY SMTT(30), <1>5, <1>7, <3>1, <3>2, Numbers
  <2>3. QED BY <2>1, <2>2
<1>10. Intact(buffer', archive', memPool', heap', Gone', Left', First', Unlisted')
  BY <1>1, <1>7, <1>9, Facts DEF Intact
<1>11. Len(archive') <= Left' /\ Len(archive') <= MAX_ARCHIVED_TELEGRAMS
  BY SMTT(30), <1>3, <1>5, <1>7, Numbers
<1>12. QED BY <1>1, <1>2, <1>5, <1>6, <1>10, <1>11, Facts, FactsNext

(* The front leaves the buffer: what was second is now first.              *)
LEMMA LeaveKeepsInv ==
  ASSUME StoreAssumption, StoreInv, Leave
  PROVE  StoreInv'
<1>1. /\ op.at = "leave" /\ buffer' = Tail(buffer)
      /\ UNCHANGED <<archive, memPool, heap, recvd>>
  BY DEF Leave
<1>2. /\ buffer # <<>>
      /\ op.cont.state = "OVERFLOWED" => Len(buffer) = MAX_TELEGRAMS /\ recvd < RecvBound
  BY <1>1, Facts DEF OpInv, Moving
<1>3. /\ buffer' \in Seq(TelegramCont) /\ Len(buffer') = Len(buffer) - 1
      /\ \A i \in 1 .. Len(buffer) - 1 : buffer'[i] = buffer[i + 1]
  BY <1>1, <1>2, Facts, TailFacts
<1>4. /\ op' \in OpType /\ op'.at \in {"none", "new"} /\ OpInv'
      /\ sent' \in Nat /\ oflowed' \in Nat /\ sent' + oflowed' = Gone + 1
  <2>1. CASE op.cont.state = "PROCESSED"
    <3>1. op' = NoOp /\ sent' = sent + 1 /\ oflowed' = oflowed
      BY <2>1 DEF Leave
    <3>2. op' \in OpType /\ op'.at = "none" BY <3>1, NoOpFacts
    <3>3. OpInv' BY <3>1, <3>2 DEF OpInv, Moving, Adding
    <3>4. sent' \in Nat /\ oflowed' \in Nat /\ sent' + oflowed' = Gone + 1
      BY SMTT(30), <3>1, Numbers
    <3>5. QED BY <3>2, <3>3, <3>4
  <2>2. CASE op.cont.state = "OVERFLOWED"
    <3>1. op' = [op EXCEPT !.at = "new"] /\ oflowed' = oflowed + 1 /\ sent' = sent
      BY <2>2 DEF Leave
    <3>2. op' \in OpType /\ op'.at = "new" BY <3>1, OpGoesOn, Facts
    <3>3. Len(buffer') < MAX_TELEGRAMS /\ recvd' < RecvBound
      BY <1>1, <1>2, <1>3, <2>2, Facts
    <3>4. OpInv' BY <3>2, <3>3 DEF OpInv, Moving, Adding
    <3>5. sent' \in Nat /\ oflowed' \in Nat /\ sent' + oflowed' = Gone + 1
      <4>1. sent + (oflowed + 1) = Gone + 1 /\ oflowed + 1 \in Nat BY Numbers
      <4>2. QED BY <3>1, <4>1, Numbers
    <3>6. QED BY <3>2, <3>4, <3>5
  <2>3. QED BY <2>1, <2>2 DEF Leave
<1>5. /\ Gone' = Gone + 1 /\ Left = Gone + 1 /\ Left' = Gone + 1
      /\ First = 1 /\ First' = 1 /\ Unlisted' = Unlisted
  <2>1. Gone' = Gone + 1 /\ First = 1 /\ First' = 1
    BY <1>1, <1>4 DEF Gone, First
  <2>2. Left' = Gone + 1 /\ Left = Gone + 1
    BY <1>1, <1>4, <2>1, Numbers DEF Left
  <2>3. Unlisted = Left - Len(archive) /\ Unlisted' = Left' - Len(archive)
    BY <1>1, <1>4, <2>2, Numbers DEF Unlisted
  <2>4. QED BY <2>1, <2>2, <2>3
<1>6. \A i \in 1..Len(buffer') : heap[buffer'[i].telegram] = Gone' + i
  <2> TAKE i \in 1..Len(buffer')
  <2>1. i + 1 \in 1..Len(buffer) /\ buffer'[i] = buffer[i + 1] BY SMTT(30), <1>3, Numbers
  <2>2. heap[buffer[i + 1].telegram] = Gone + (i + 1) BY <2>1, Facts DEF Intact
  <2>3. i \in Nat /\ Gone' = Gone + 1 /\ Gone \in Nat BY <1>5, Numbers
  <2>4. Gone' + i = Gone + (i + 1)
    <3>1. \A x, y \in Nat : (x + 1) + y = x + (y + 1) OBVIOUS
    <3>2. QED BY <2>3, <3>1
  <2>5. QED BY <2>1, <2>2, <2>4
<1>7. Intact(buffer', archive', memPool', heap', Gone', Left', First', Unlisted')
  BY <1>1, <1>5, <1>6, Facts DEF Intact
<1>8. Len(buffer') <= MAX_TELEGRAMS /\ Len(archive') <= Left'
  BY <1>1, <1>3, <1>5, Facts
<1>9. recvd' = sent' + oflowed' + Len(buffer')
  <2>1. \A x, y \in Nat : x + y = (x + 1) + (y - 1) OBVIOUS
  <2>2. recvd' = Gone + Len(buffer) /\ Len(buffer') = Len(buffer) - 1
    BY <1>1, <1>3, Numbers
  <2>3. Gone + Len(buffer) = (Gone + 1) + (Len(buffer) - 1) BY <2>1, Numbers
  <2>4. QED BY <1>4, <2>2, <2>3
<1>10. QED BY <1>1, <1>3, <1>4, <1>7, <1>8, <1>9, Facts, FactsNext

(* The new telegram goes to memory that was never allocated, or to the     *)
(* front of the pool; in neither case does a list point at it.             *)
LEMMA NewKeepsInv ==
  ASSUME StoreAssumption, StoreInv, New
  PROVE  StoreInv'
<1>1. op.at = "new" /\ UNCHANGED <<buffer, archive, memPool, recvd, sent, oflowed>>
  BY DEF New
<1>2. PICK a \in Addr :
        /\ IF memPool # <<>> THEN a = Head(memPool) ELSE heap[a] = 0
        /\ heap' = [heap EXCEPT ![a] = recvd + 1]
        /\ op' = [op EXCEPT !.at = IF memPool # <<>> THEN "unpool" ELSE "emplace",
                           !.new = a]
  BY DEF New
<1>3. /\ op' \in OpType /\ op'.cont = op.cont /\ op'.new = a
      /\ op'.at = (IF memPool # <<>> THEN "unpool" ELSE "emplace")
  BY <1>2, Facts DEF OpType
<1>4. /\ heap' \in [Addr -> Nat] /\ heap'[a] = recvd + 1
      /\ \A x \in Addr : x # a => heap'[x] = heap[x]
  <2>1. recvd + 1 \in Nat BY Numbers
  <2>2. heap \in [Addr -> Nat] BY Facts
  <2>3. heap' = [heap EXCEPT ![a] = recvd + 1] BY <1>2
  <2>4. QED BY <2>1, <2>2, <2>3
<1>5. OpInv' BY <1>1, <1>3, <1>4, Facts DEF OpInv, Moving, Adding
<1>6. /\ Gone' = Gone /\ Left = Gone /\ Left' = Gone /\ First = 1
      /\ Unlisted = Left - Len(archive) /\ Unlisted' = Unlisted
      /\ First' = (IF memPool # <<>> THEN 2 ELSE 1)
  BY <1>1, <1>3, Facts DEF Gone, Left, Unlisted, First
<1>7. Intact(buffer, archive, memPool, heap, Gone, Gone, 1, Gone - Len(archive))
  BY <1>6, Facts
<1>8. /\ \A i \in 1..Len(buffer)  : buffer[i].telegram \in Addr
      /\ \A i \in 1..Len(archive) : archive[i].telegram \in Addr
      /\ \A i \in 1..Len(memPool) : memPool[i] \in Addr
  <2>1. \A x \in TelegramCont : x.telegram \in Addr BY DEF TelegramCont
  <2>2. /\ buffer \in Seq(TelegramCont) /\ archive \in Seq(TelegramCont)
        /\ memPool \in Seq(Addr)
    BY Facts
  <2>3. QED BY <2>1, <2>2
<1>9. heap[a] \in 0 .. Gone - Len(archive)
  <2>1. CASE memPool = <<>> BY <1>2, <1>6, <2>1, Facts
  <2>2. CASE memPool # <<>>
    <3>1. a = memPool[1] /\ 1 \in 1..Len(memPool) BY <1>2, <2>2, Facts, TailFacts
    <3>2. heap[a] \in 1 .. Gone - Len(archive) BY <1>7, <3>1 DEF Intact
    <3>3. QED BY <3>2, <1>6, Facts
  <2>3. QED BY <2>1, <2>2
<1>10. /\ \A i \in 1..Len(buffer)  : buffer[i].telegram # a
       /\ \A i \in 1..Len(archive) : archive[i].telegram # a
  <2>1. \A i \in 1..Len(buffer) : heap[buffer[i].telegram] > heap[a]
    <3>1. \A i \in 1..Len(buffer) : heap[buffer[i].telegram] = Gone + i
      BY <1>7 DEF Intact
    <3>2. heap[a] <= Gone BY <1>9, Numbers
    <3>3. heap[a] \in Nat BY <1>9, Numbers
    <3>4. QED BY SMTT(30), <3>1, <3>2, <3>3, Numbers
  <2>2. \A i \in 1..Len(archive) : heap[archive[i].telegram] > heap[a]
    BY SMTT(30), <1>6, <1>7, <1>9, Numbers DEF Intact
  <2>3. heap[a] \in Nat BY Facts
  <2>4. QED BY <2>1, <2>2, <2>3
<1>11. \A i \in First'..Len(memPool) : i \in 1..Len(memPool) /\ memPool[i] # a
  <2>1. CASE memPool = <<>> BY <1>6, <2>1
  <2>2. CASE memPool # <<>>
    <3>1. a = memPool[1] /\ 1 \in 1..Len(memPool) BY <1>2, <2>2, Facts, TailFacts
    <3> SUFFICES ASSUME NEW i \in 2..Len(memPool)
                 PROVE  i \in 1..Len(memPool) /\ memPool[i] # a
      BY <1>6, <2>2
    <3>2. i \in 1..Len(memPool) /\ 1 < i BY Facts
    <3>3. heap[memPool[1]] < heap[memPool[i]] BY <1>7, <3>1, <3>2 DEF Intact
    <3>4. heap[a] \in Nat BY Facts
    <3>5. QED BY <3>1, <3>2, <3>3, <3>4
  <2>3. QED BY <2>1, <2>2
<1>12. /\ \A i \in 1..Len(buffer) : heap'[buffer[i].telegram] = Gone + i
       /\ \A i \in 1..Len(archive) : heap'[archive[i].telegram] = Gone - Len(archive) + i
  BY <1>4, <1>7, <1>8, <1>10 DEF Intact
<1>13. \A i \in First'..Len(memPool) : heap'[memPool[i]] = heap[memPool[i]]
  BY <1>4, <1>8, <1>11
<1>14. /\ \A i \in First'..Len(memPool) : heap'[memPool[i]] \in 1 .. Gone - Len(archive)
       /\ \A i, j \in First'..Len(memPool) : i < j => heap'[memPool[i]] < heap'[memPool[j]]
  BY <1>7, <1>11, <1>13 DEF Intact
<1>15. Intact(buffer', archive', memPool', heap', Gone', Left', First', Unlisted')
  BY <1>1, <1>6, <1>12, <1>14 DEF Intact
<1>16. QED BY <1>1, <1>3, <1>4, <1>5, <1>6, <1>15, Facts, FactsNext

LEMMA UnpoolKeepsInv ==
  ASSUME StoreAssumption, StoreInv, Unpool
  PROVE  StoreInv'
<1>1. /\ op.at = "unpool" /\ memPool' = Tail(memPool)
      /\ op' = [op EXCEPT !.at = "emplace"]
      /\ UNCHANGED <<buffer, archive, heap, recvd, sent, oflowed>>
  BY DEF Unpool
<1>2. op' \in OpType /\ op'.at = "emplace" /\ op'.cont = op.cont /\ op'.new = op.new
  BY <1>1, OpGoesOn, Facts
<1>3. memPool # <<>> BY <1>1, Facts DEF OpInv
<1>4. /\ memPool' \in Seq(Addr) /\ Len(memPool') = Len(memPool) - 1
      /\ \A i \in 1 .. Len(memPool) - 1 : memPool'[i] = memPool[i + 1]
  BY <1>1, <1>3, Facts, TailFacts
<1>5. OpInv' BY <1>1, <1>2, Facts DEF OpInv, Moving, Adding
<1>6. /\ Gone' = Gone /\ Left' = Left /\ Unlisted' = Unlisted
      /\ First = 2 /\ First' = 1
  BY <1>1, <1>2, Facts DEF Gone, Left, Unlisted, First
<1>7. Intact(buffer, archive, memPool, heap, Gone, Left, 2, Unlisted)
  BY <1>6, Facts
<1>8. \A i \in 1..Len(memPool') : i + 1 \in 2..Len(memPool) /\ memPool'[i] = memPool[i + 1]
  BY <1>4, Facts
<1>9. \A i \in 1..Len(memPool') : heap[memPool'[i]] \in 1..Unlisted
  BY <1>7, <1>8 DEF Intact
<1>10. \A i, j \in 1..Len(memPool') : i < j => heap[memPool'[i]] < heap[memPool'[j]]
  <2> SUFFICES ASSUME NEW i \in 1..Len(memPool'), NEW j \in 1..Len(memPool'), i < j
               PROVE  heap[memPool'[i]] < heap[memPool'[j]]
    OBVIOUS
  <2>1. i + 1 < j + 1 BY <1>4, Facts
  <2>2. /\ i + 1 \in 2..Len(memPool) /\ j + 1 \in 2..Len(memPool)
        /\ memPool'[i] = memPool[i + 1] /\ memPool'[j] = memPool[j + 1]
    BY <1>8
  <2>3. heap[memPool[i + 1]] < heap[memPool[j + 1]]
    BY <1>7, <2>1, <2>2 DEF Intact
  <2>4. QED BY <2>2, <2>3
<1>11. Intact(buffer', archive', memPool', heap', Gone', Left', First', Unlisted')
  BY <1>1, <1>6, <1>7, <1>9, <1>10 DEF Intact
<1>12. QED BY <1>1, <1>2, <1>4, <1>5, <1>6, <1>11, Facts, FactsNext

LEMMA EmplaceKeepsInv ==
  ASSUME StoreAssumption, StoreInv, Emplace
  PROVE  StoreInv'
<1> DEFINE c == [telegram |-> op.new, state |-> "PENDING"]
<1>1. /\ op.at = "emplace" /\ buffer' = Append(buffer, c) /\ recvd' = recvd + 1
      /\ op' = NoOp
      /\ UNCHANGED <<archive, memPool, heap, sent, oflowed>>
  BY DEF Emplace
<1>2. op' \in OpType /\ op'.at = "none" BY <1>1, NoOpFacts
<1>3. OpInv' BY <1>1, <1>2 DEF OpInv, Moving, Adding
<1>4. Len(buffer) < MAX_TELEGRAMS /\ op.new \in Addr /\ heap[op.new] = recvd + 1
  BY <1>1, Facts DEF OpInv, Adding
<1>5. c \in TelegramCont /\ c.telegram = op.new
  BY <1>4 DEF TelegramCont, TelegramState
<1> HIDE DEF c
<1>6. /\ buffer' \in Seq(TelegramCont) /\ Len(buffer') = Len(buffer) + 1
      /\ \A i \in 1..Len(buffer) : buffer'[i] = buffer[i]
      /\ buffer'[Len(buffer) + 1] = c
  BY <1>1, <1>5, Facts, AppendFacts
<1>7. /\ Gone' = Gone /\ Left' = Left /\ Unlisted' = Unlisted
      /\ First = 1 /\ First' = 1
  BY <1>1, <1>2, Facts DEF Gone, Left, Unlisted, First
<1>8. \A i \in 1..Len(buffer') : heap[buffer'[i].telegram] = Gone + i
  <2> TAKE i \in 1..Len(buffer')
  <2>1. CASE i = Len(buffer) + 1
    <3>1. recvd + 1 = Gone + i BY <2>1, Numbers
    <3>2. QED BY <1>4, <1>5, <1>6, <2>1, <3>1
  <2>2. CASE i # Len(buffer) + 1
    <3>1. i \in 1..Len(buffer) /\ buffer'[i] = buffer[i] BY SMTT(30), <1>6, <2>2, Numbers
    <3>2. QED BY <3>1, Facts DEF Intact
  <2>3. QED BY <2>1, <2>2
<1>9. Intact(buffer', archive', memPool', heap', Gone', Left', First', Unlisted')
  BY <1>1, <1>7, <1>8, Facts DEF Intact
<1>10. /\ recvd' \in Nat /\ recvd' = sent' + oflowed' + Len(buffer')
       /\ Len(buffer') <= MAX_TELEGRAMS
  BY SMTT(30), <1>1, <1>4, <1>6, Numbers
<1>11. QED BY <1>1, <1>2, <1>3, <1>6, <1>7, <1>9, <1>10, Facts, FactsNext

LEMMA StepKeepsInv ==
  ASSUME StoreAssumption, StoreInv, Step
  PROVE  StoreInv'
BY RecycleKeepsInv, DropKeepsInv, StoreKeepsInv, LeaveKeepsInv, NewKeepsInv,
   UnpoolKeepsInv, EmplaceKeepsInv DEF Step

LEMMA InitInv == ASSUME StoreAssumption, Init PROVE StoreInv
<1>1. op.at = "none" /\ op \in OpType BY NoOpFacts DEF Init
<1>2. StoreTypeOK BY <1>1 DEF Init, StoreTypeOK, OpType
<1>3. Gone = 0 /\ Left = 0 BY <1>1 DEF Init, Gone, Left
<1>4. Accounted /\ TelegramsIntact
  BY <1>3 DEF Init, Accounted, TelegramsIntact, StoreAssumption, Pooled
<1>5. OpInv BY <1>1 DEF OpInv, Moving, Adding, Init
<1>6. QED BY <1>2, <1>4, <1>5 DEF StoreInv

LEMMA UnchangedKeepsInv ==
  ASSUME StoreInv, UNCHANGED storeVars PROVE StoreInv'
BY DEF StoreInv, StoreTypeOK, Accounted, TelegramsIntact, OpInv, Gone, Left, Unlisted,
       Pooled, ArchiveFull, storeVars

-----------------------------------------------------------------------------
(* The queue read through the pointers is the run of serial numbers after  *)
(* those that are gone.                                                    *)
Run(n, g) == [i \in 1..n |-> g + i]

LEMMA RunFacts ==
  ASSUME NEW n \in Nat, NEW g \in Nat
  PROVE  /\ Run(n, g) \in Seq(Nat) /\ Len(Run(n, g)) = n
         /\ Append(Run(n, g), g + n + 1) = Run(n + 1, g)
         /\ n > 0 => Tail(Run(n, g)) = Run(n - 1, g + 1)
<1>1. Run(n, g) \in Seq(Nat) /\ Len(Run(n, g)) = n
  BY DEF Run
<1>2. Append(Run(n, g), g + n + 1) = Run(n + 1, g)
  BY <1>1 DEF Run
<1>3. ASSUME n > 0 PROVE Tail(Run(n, g)) = Run(n - 1, g + 1)
  <2> DEFINE r == Run(n, g)
             q == Run(n - 1, g + 1)
  <2>1. r # <<>> BY <1>1, <1>3
  <2>2. Tail(r) \in Seq(Nat) /\ Len(Tail(r)) = n - 1
        /\ \A i \in 1 .. n - 1 : Tail(r)[i] = r[i + 1]
    BY <1>1, <2>1, TailFacts
  <2>3. \A i \in 1 .. n - 1 : r[i + 1] = q[i]
    BY DEF Run
  <2>4. q \in Seq(Nat) /\ Len(q) = n - 1
    BY <1>3 DEF Run
  <2>5. QED BY <2>2, <2>3, <2>4, SeqEqual
<1>4. QED BY <1>1, <1>2, <1>3

PendingSerials == [i \in 1..Len(buffer) |-> heap[buffer[i].telegram]]

LEMMA PendingIsRun ==
  ASSUME StoreAssumption, StoreInv
  PROVE  PendingSerials = Run(Len(buffer), Gone)
BY Facts DEF PendingSerials, Run, Intact

LEMMA PendingIsRunNext ==
  ASSUME StoreInv'
  PROVE  /\ PendingSerials' = Run(Len(buffer'), Gone')
         /\ Len(buffer') \in Nat /\ Gone' \in Nat
<1>1. \A i \in 1..Len(buffer') : heap'[buffer'[i].telegram] = Gone' + i
  BY IntactNext DEF StoreInv, Intact
<1>2. buffer' \in Seq(TelegramCont) /\ sent' \in Nat /\ oflowed' \in Nat
  BY DEF StoreInv, StoreTypeOK
<1>3. Len(buffer') \in Nat BY <1>2
<1>4. \A x, y \in Nat : x + y \in Nat OBVIOUS
<1>5. Gone' \in Nat
  <2>1. sent' + oflowed' \in Nat
    <3>1. sent' \in Nat /\ oflowed' \in Nat BY <1>2
    <3>2. QED BY ONLY <1>4, <3>1
  <2>2. QED BY <2>1 DEF Gone
<1>6. QED BY <1>1, <1>3, <1>5 DEF PendingSerials, Run

(* A telegram makes room for another one.                                  *)
MadeRoom == op.at \in {"new", "unpool", "emplace"} /\ op.cont.state = "OVERFLOWED"

(* The front leaves: the telegram was sent, or given up.                   *)
LEMMA LeaveIsQueueStep ==
  ASSUME StoreAssumption, StoreInv, Leave
  PROVE  Queue!GiveUp \/ Queue!Take
<1>1. StoreInv' BY LeaveKeepsInv
<1>2. /\ op.at = "leave" /\ buffer' = Tail(buffer) /\ recvd' = recvd
  BY DEF Leave
<1>3. /\ buffer # <<>> /\ ~MadeRoom
      /\ op.cont.state = "OVERFLOWED" => Len(buffer) = MAX_TELEGRAMS /\ recvd < RecvBound
  BY <1>2, Facts DEF OpInv, Moving, MadeRoom
<1>4. Len(buffer) > 0 /\ Len(buffer') = Len(buffer) - 1
  BY <1>2, <1>3, Facts, TailFacts
<1>5. Gone' = Gone + 1
  <2>1. \/ sent' = sent + 1 /\ oflowed' = oflowed
        \/ oflowed' = oflowed + 1 /\ sent' = sent
    BY DEF Leave
  <2>2. sent' + oflowed' = (sent + oflowed) + 1 BY <2>1, Numbers
  <2>3. QED BY <2>2 DEF Gone
<1>6. PendingSerials' = Tail(PendingSerials) /\ PendingSerials # <<>>
      /\ Len(PendingSerials) = Len(buffer)
  <2>1. /\ Tail(Run(Len(buffer), Gone)) = Run(Len(buffer) - 1, Gone + 1)
        /\ Run(Len(buffer), Gone) \in Seq(Nat)
        /\ Len(Run(Len(buffer), Gone)) = Len(buffer)
    BY <1>4, Numbers, RunFacts
  <2>2. Run(Len(buffer), Gone) # <<>> BY <1>4, <2>1
  <2>3. QED BY <1>1, <1>4, <1>5, <2>1, <2>2, PendingIsRun, PendingIsRunNext
<1>7. CASE op.cont.state = "PROCESSED"
  <2>1. sent' = sent + 1 /\ oflowed' = oflowed /\ op' = NoOp
    BY <1>7 DEF Leave
  <2>2. ~MadeRoom' BY <2>1, NoOpFacts DEF MadeRoom
  <2>3. MadeRoom' = MadeRoom BY <1>3, <2>2 DEF MadeRoom
  <2>4. QED BY <1>2, <1>3, <1>6, <2>1, <2>3 DEF Queue!Take, PendingSerials, MadeRoom
<1>8. CASE op.cont.state = "OVERFLOWED"
  <2>1. oflowed' = oflowed + 1 /\ sent' = sent /\ op' = [op EXCEPT !.at = "new"]
    BY <1>8 DEF Leave
  <2>2. op'.at = "new" /\ op'.cont.state = "OVERFLOWED"
    BY <1>8, <2>1, OpGoesOn, Facts
  <2>3. MadeRoom' = TRUE BY <2>2 DEF MadeRoom
  <2>4. Len(PendingSerials) = MAX_TELEGRAMS /\ recvd < RecvBound
    BY <1>3, <1>6, <1>8
  <2>5. QED
    BY <1>2, <1>3, <1>6, <2>1, <2>3, <2>4 DEF Queue!GiveUp, PendingSerials, MadeRoom
<1>9. QED BY <1>7, <1>8 DEF Leave

(* The new telegram is put last.                                           *)
LEMMA EmplaceIsPut ==
  ASSUME StoreAssumption, StoreInv, Emplace
  PROVE  Queue!Put
<1>1. StoreInv' BY EmplaceKeepsInv
<1>2. /\ op.at = "emplace" /\ recvd' = recvd + 1 /\ op' = NoOp
      /\ sent' = sent /\ oflowed' = oflowed
      /\ buffer' = Append(buffer, [telegram |-> op.new, state |-> "PENDING"])
  BY DEF Emplace
<1>3. Len(buffer) < MAX_TELEGRAMS /\ recvd < RecvBound /\ op.new \in Addr
  BY <1>2, Facts DEF OpInv, Adding
<1>4. Len(buffer') = Len(buffer) + 1
  <2>1. [telegram |-> op.new, state |-> "PENDING"] \in TelegramCont
    BY <1>3 DEF TelegramCont, TelegramState
  <2>2. QED BY <1>2, <2>1, Facts, AppendFacts
<1>5. Gone' = Gone BY <1>2 DEF Gone
<1>6. PendingSerials' = Append(PendingSerials, recvd + 1)
      /\ Len(PendingSerials) = Len(buffer)
  <2>1. /\ Append(Run(Len(buffer), Gone), Gone + Len(buffer) + 1) = Run(Len(buffer) + 1, Gone)
        /\ Len(Run(Len(buffer), Gone)) = Len(buffer)
    BY Numbers, RunFacts
  <2>2. Gone + Len(buffer) + 1 = recvd + 1 BY Numbers
  <2>3. QED BY <1>1, <1>4, <1>5, <2>1, <2>2, PendingIsRun, PendingIsRunNext
<1>7. MadeRoom' = FALSE BY <1>2, NoOpFacts DEF MadeRoom
<1>8. QED BY <1>2, <1>3, <1>6, <1>7 DEF Queue!Put, PendingSerials, MadeRoom

(* The other steps do not show in the queue.                               *)
LEMMA OtherStepsStutter ==
  ASSUME StoreAssumption, StoreInv,
         AddBegin \/ PopBegin \/ Recycle \/ DropArchived \/ Store \/ New \/ Unpool
  PROVE  UNCHANGED Queue!vars
<1>1. UNCHANGED <<buffer, recvd, sent, oflowed>>
  BY DEF AddBegin, PopBegin, Recycle, DropArchived, Store, New, Unpool
<1>2. StoreInv'
  BY BeginKeepsInv, StepKeepsInv DEF Step
<1>3. Gone' = Gone BY <1>1 DEF Gone
<1>4. PendingSerials' = PendingSerials
  BY <1>1, <1>2, <1>3, PendingIsRun, PendingIsRunNext
<1>5. MadeRoom' = MadeRoom
  <2>1. CASE AddBegin \/ PopBegin
    <3>1. op = NoOp BY <2>1 DEF AddBegin, PopBegin
    <3>2. CASE op' = [NoOp EXCEPT !.at = "new"]
      BY <3>1, <3>2, NoOpFacts DEF MadeRoom, NoOp, NoTelegram
    <3>3. CASE \E s : op' = Leaving(s)
      BY <3>1, <3>3, NoOpFacts DEF MadeRoom, NoOp, Leaving
    <3>4. QED BY <2>1, <3>2, <3>3 DEF AddBegin, PopBegin
  <2>2. CASE Recycle \/ DropArchived \/ Store
    <3>1. \E l \in {"drop", "store", "leave"} : op' = [op EXCEPT !.at = l]
      BY <2>2 DEF Recycle, DropArchived, Store
    <3>2. op'.at \in {"drop", "store", "leave"} BY <3>1, OpGoesOn, Facts
    <3>3. op.at \in {"archive", "drop", "store"}
      BY <2>2 DEF Recycle, DropArchived, Store
    <3>4. QED BY <3>2, <3>3 DEF MadeRoom
  <2>3. CASE New
    <3>1. PICK a \in Addr :
            op' = [op EXCEPT !.at = IF memPool # <<>> THEN "unpool" ELSE "emplace", !.new = a]
      BY <2>3 DEF New
    <3>2. op'.at \in {"unpool", "emplace"} /\ op'.cont = op.cont
      BY <3>1, Facts DEF OpType
    <3>3. QED BY <2>3, <3>2 DEF New, MadeRoom
  <2>4. CASE Unpool
    <3>1. op.at = "unpool" /\ op' = [op EXCEPT !.at = "emplace"] BY <2>4 DEF Unpool
    <3>2. op'.at = "emplace" /\ op'.cont = op.cont BY <3>1, OpGoesOn, Facts
    <3>3. QED BY <3>1, <3>2 DEF MadeRoom
  <2>5. QED BY <2>1, <2>2, <2>3, <2>4
<1>6. QED BY <1>1, <1>4, <1>5 DEF Queue!vars, PendingSerials, MadeRoom

-----------------------------------------------------------------------------
(* Every address allocated is in exactly one list, or on its way from one  *)
(* to another, so that the lengths count the memory; a new address is only *)
(* taken when the pool is empty, so that they bound it.                    *)
Held ==
  CASE op.at \in {"drop", "leave"} -> Len(buffer) + Len(archive) + Len(memPool) - 1
    [] op.at = "emplace"           -> Len(buffer) + Len(archive) + Len(memPool) + 1
    [] OTHER                       -> Len(buffer) + Len(archive) + Len(memPool)

MemoryInv ==
  /\ IsFiniteSet(Allocated)
  /\ Cardinality(Allocated) = Held
  /\ MemoryBounded

LEMMA HeldFacts ==
  /\ op.at \in {"drop", "leave"} => Held = Len(buffer) + Len(archive) + Len(memPool) - 1
  /\ op.at = "emplace" => Held = Len(buffer) + Len(archive) + Len(memPool) + 1
  /\ op.at \notin {"drop", "leave", "emplace"} =>
       Held = Len(buffer) + Len(archive) + Len(memPool)
BY DEF Held

LEMMA HeldFactsNext ==
  /\ op'.at \in {"drop", "leave"} => Held' = Len(buffer') + Len(archive') + Len(memPool') - 1
  /\ op'.at = "emplace" => Held' = Len(buffer') + Len(archive') + Len(memPool') + 1
  /\ op'.at \notin {"drop", "leave", "emplace"} =>
       Held' = Len(buffer') + Len(archive') + Len(memPool')
BY DEF Held

LEMMA InitMemory == ASSUME StoreAssumption, Init PROVE MemoryInv
<1>1. Allocated = {} BY DEF Init, Allocated
<1>2. op.at = "none" BY NoOpFacts DEF Init
<1>3. Held = 0 BY <1>2, HeldFacts DEF Init
<1>4. Cardinality(Allocated) = 0 /\ IsFiniteSet(Allocated) BY <1>1, FS_EmptySet
<1>5. QED BY <1>3, <1>4 DEF MemoryInv, MemoryBounded, StoreAssumption

(* Steps that only move what is allocated.                                 *)
LEMMA SameHeld ==
  ASSUME MemoryInv, heap' = heap, Held' = Held PROVE MemoryInv'
BY DEF MemoryInv, MemoryBounded, Allocated

LEMMA StepKeepsMemory ==
  ASSUME StoreAssumption, StoreInv, MemoryInv, AddBegin \/ PopBegin \/ Step
  PROVE  MemoryInv'
<1>1. CASE AddBegin \/ PopBegin
  <2>1. op = NoOp /\ UNCHANGED <<buffer, archive, memPool, heap>>
    BY <1>1 DEF AddBegin, PopBegin
  <2>2. op'.at \in {"archive", "new"}
    BY <1>1 DEF AddBegin, PopBegin, Leaving, NoOp
  <2>3. Held' = Held
    BY <2>1, <2>2, NoOpFacts, HeldFacts, HeldFactsNext
  <2>4. QED BY <2>1, <2>3, SameHeld
<1>2. CASE Recycle
  <2>1. /\ op.at = "archive" /\ ArchiveFull /\ op' = [op EXCEPT !.at = "drop"]
        /\ memPool' = Append(memPool, Head(archive).telegram)
        /\ UNCHANGED <<buffer, archive, heap>>
    BY <1>2 DEF Recycle
  <2>2. op'.at = "drop" BY <2>1, OpGoesOn, Facts
  <2>3. Head(archive).telegram \in Addr
    <3>1. archive # <<>> BY <2>1, Facts DEF ArchiveFull
    <3>2. Head(archive) \in TelegramCont BY <3>1, Facts, TailFacts
    <3>3. QED BY <3>2 DEF TelegramCont
  <2>4. Len(memPool') = Len(memPool) + 1 BY <2>1, <2>3, Facts, AppendFacts
  <2>5. Held' = Held
    <3>1. Held = Len(buffer) + Len(archive) + Len(memPool)
      BY <2>1, HeldFacts
    <3>2. Held' = Len(buffer) + Len(archive) + (Len(memPool) + 1) - 1
      BY <2>1, <2>2, <2>4, HeldFactsNext
    <3>3. QED BY <3>1, <3>2, Numbers
  <2>6. QED BY <2>1, <2>5, SameHeld
<1>3. CASE DropArchived
  <2>1. /\ op.at = "drop" /\ op' = [op EXCEPT !.at = "store"] /\ archive' = Tail(archive)
        /\ UNCHANGED <<buffer, memPool, heap>>
    BY <1>3 DEF DropArchived
  <2>2. op'.at = "store" BY <2>1, OpGoesOn, Facts
  <2>3. archive # <<>> BY <2>1, Facts DEF OpInv, ArchiveFull
  <2>4. Len(archive') = Len(archive) - 1 BY <2>1, <2>3, Facts, TailFacts
  <2>5. Held' = Held
    <3>1. Held = Len(buffer) + Len(archive) + Len(memPool) - 1
      BY <2>1, HeldFacts
    <3>2. Held' = Len(buffer) + (Len(archive) - 1) + Len(memPool)
      BY <2>1, <2>2, <2>4, HeldFactsNext
    <3>3. QED BY <3>1, <3>2, Numbers
  <2>6. QED BY <2>1, <2>5, SameHeld
<1>4. CASE Store
  <2>1. /\ op.at \in {"archive", "store"} /\ op' = [op EXCEPT !.at = "leave"]
        /\ archive' = Append(archive, op.cont)
        /\ UNCHANGED <<buffer, memPool, heap>>
    BY <1>4 DEF Store
  <2>2. op'.at = "leave" BY <2>1, OpGoesOn, Facts
  <2>3. op.cont \in TelegramCont BY <2>1, Facts DEF OpInv, Moving
  <2>4. Len(archive') = Len(archive) + 1 BY <2>1, <2>3, Facts, AppendFacts
  <2>5. Held' = Held
    <3>1. Held = Len(buffer) + Len(archive) + Len(memPool)
      BY <2>1, HeldFacts
    <3>2. Held' = Len(buffer) + (Len(archive) + 1) + Len(memPool) - 1
      BY <2>1, <2>2, <2>4, HeldFactsNext
    <3>3. QED BY <3>1, <3>2, Numbers
  <2>6. QED BY <2>1, <2>5, SameHeld
<1>5. CASE Leave
  <2>1. /\ op.at = "leave" /\ (op' = NoOp \/ op' = [op EXCEPT !.at = "new"])
        /\ buffer' = Tail(buffer)
        /\ UNCHANGED <<archive, memPool, heap>>
    BY <1>5 DEF Leave
  <2>2. op'.at \in {"none", "new"} BY <2>1, OpGoesOn, Facts, NoOpFacts
  <2>3. buffer # <<>> BY <2>1, Facts DEF OpInv, Moving
  <2>4. Len(buffer') = Len(buffer) - 1 BY <2>1, <2>3, Facts, TailFacts
  <2>5. Held' = Held
    <3>1. Held = Len(buffer) + Len(archive) + Len(memPool) - 1
      BY <2>1, HeldFacts
    <3>2. Held' = (Len(buffer) - 1) + Len(archive) + Len(memPool)
      BY <2>1, <2>2, <2>4, HeldFactsNext
    <3>3. QED BY <3>1, <3>2, Numbers
  <2>6. QED BY <2>1, <2>5, SameHeld
<1>6. CASE New
  <2>1. op.at = "new" /\ UNCHANGED <<buffer, archive, memPool>>
    BY <1>6 DEF New
  <2>2. PICK a \in Addr :
          /\ IF memPool # <<>> THEN a = Head(memPool) ELSE heap[a] = 0
          /\ heap' = [heap EXCEPT ![a] = recvd + 1]
          /\ op' = [op EXCEPT !.at = IF memPool # <<>> THEN "unpool" ELSE "emplace",
                             !.new = a]
    BY <1>6 DEF New
  <2>3. op'.at = (IF memPool # <<>> THEN "unpool" ELSE "emplace")
    BY <2>2, Facts DEF OpType
  <2>4. Allocated' = Allocated \cup {a}
    <3>1. /\ \A x \in Addr : x # a => heap'[x] = heap[x]
          /\ heap'[a] = recvd + 1
      BY <2>2, Facts
    <3>2. recvd + 1 # 0 BY Numbers
    <3>3. QED BY <3>1, <3>2 DEF Allocated
  <2>5. CASE memPool # <<>>
    <3>1. a = memPool[1] /\ 1 \in 1..Len(memPool) BY <2>2, <2>5, Facts, TailFacts
    <3>2. First = 1 BY <2>1 DEF First
    <3>3. heap[a] \in 1..Unlisted BY <3>1, <3>2, Facts DEF Intact
    <3>4. heap[a] # 0 BY <3>3
    <3>5. Allocated' = Allocated BY <2>4, <3>4 DEF Allocated
    <3>6. Held' = Held BY <2>1, <2>3, <2>5, HeldFacts, HeldFactsNext
    <3>7. QED BY <3>5, <3>6 DEF MemoryInv, MemoryBounded
  <2>6. CASE memPool = <<>>
    <3>1. a \notin Allocated BY <2>2, <2>6 DEF Allocated
    <3>2. /\ IsFiniteSet(Allocated')
          /\ Cardinality(Allocated') = Cardinality(Allocated) + 1
      BY <2>4, <3>1, FS_AddElement DEF MemoryInv
    <3>3. /\ Held = Len(buffer) + Len(archive) + Len(memPool)
          /\ Held' = Len(buffer) + Len(archive) + Len(memPool) + 1
      BY <2>1, <2>3, <2>6, HeldFacts, HeldFactsNext
    <3>4. Len(memPool) = 0 /\ Len(buffer) < MAX_TELEGRAMS
      BY <2>1, <2>6, Facts DEF OpInv, Adding
    <3>5. Cardinality(Allocated') = Held' /\ Held' <= MAX_TELEGRAMS + MAX_ARCHIVED_TELEGRAMS
      BY <3>2, <3>3, <3>4, Numbers DEF MemoryInv
    <3>6. QED BY <3>2, <3>5 DEF MemoryInv, MemoryBounded
  <2>7. QED BY <2>5, <2>6
<1>7. CASE Unpool
  <2>1. /\ op.at = "unpool" /\ op' = [op EXCEPT !.at = "emplace"]
        /\ memPool' = Tail(memPool)
        /\ UNCHANGED <<buffer, archive, heap>>
    BY <1>7 DEF Unpool
  <2>2. op'.at = "emplace" BY <2>1, OpGoesOn, Facts
  <2>3. memPool # <<>> BY <2>1, Facts DEF OpInv
  <2>4. Len(memPool') = Len(memPool) - 1 BY <2>1, <2>3, Facts, TailFacts
  <2>5. Held' = Held
    <3>1. Held = Len(buffer) + Len(archive) + Len(memPool)
      BY <2>1, HeldFacts
    <3>2. Held' = Len(buffer) + Len(archive) + (Len(memPool) - 1) + 1
      BY <2>1, <2>2, <2>4, HeldFactsNext
    <3>3. QED BY <3>1, <3>2, Numbers
  <2>6. QED BY <2>1, <2>5, SameHeld
<1>8. CASE Emplace
  <2>1. /\ op.at = "emplace" /\ op' = NoOp
        /\ buffer' = Append(buffer, [telegram |-> op.new, state |-> "PENDING"])
        /\ UNCHANGED <<archive, memPool, heap>>
    BY <1>8 DEF Emplace
  <2>2. op.new \in Addr BY <2>1, Facts DEF OpInv
  <2>3. [telegram |-> op.new, state |-> "PENDING"] \in TelegramCont
    BY <2>2 DEF TelegramCont, TelegramState
  <2>4. Len(buffer') = Len(buffer) + 1 BY <2>1, <2>3, Facts, AppendFacts
  <2>5. Held' = Held BY <2>1, <2>4, NoOpFacts, Numbers, HeldFacts, HeldFactsNext
  <2>6. QED BY <2>1, <2>5, SameHeld
<1>9. QED BY <1>1, <1>2, <1>3, <1>4, <1>5, <1>6, <1>7, <1>8 DEF Step

LEMMA UnchangedKeepsMemory ==
  ASSUME MemoryInv, UNCHANGED storeVars PROVE MemoryInv'
BY DEF MemoryInv, MemoryBounded, Allocated, Held, storeVars

-----------------------------------------------------------------------------
(* The HTTP thread's walk.  A step that follows a live node copies a       *)
(* container of the list, and what the lists point at is allocated.        *)
PageInv == PageTypeOK /\ PagePointerAllocated

LEMMA ListsAllocated ==
  ASSUME StoreAssumption, StoreInv
  PROVE  /\ \A i \in 1..Len(buffer) :
              buffer[i] \in TelegramCont /\ buffer[i].telegram \in Allocated
         /\ \A i \in 1..Len(archive) :
              archive[i] \in TelegramCont /\ archive[i].telegram \in Allocated
<1>1. \A c \in TelegramCont : c.telegram \in Addr BY DEF TelegramCont
<1>2. Intact(buffer, archive, memPool, heap, Gone, Left, First, Unlisted)
  BY Facts
<1>3. /\ \A i \in 1..Len(buffer)  : buffer[i]  \in TelegramCont
      /\ \A i \in 1..Len(archive) : archive[i] \in TelegramCont
  <2>1. buffer \in Seq(TelegramCont) /\ archive \in Seq(TelegramCont) BY Facts
  <2>2. QED BY <2>1
<1>4. \A i \in 1..Len(buffer) : heap[buffer[i].telegram] # 0
  <2>1. \A i \in 1..Len(buffer) : heap[buffer[i].telegram] = Gone + i
    BY <1>2 DEF Intact
  <2>2. QED BY SMTT(30), <2>1, Numbers
<1>5. \A i \in 1..Len(archive) : heap[archive[i].telegram] # 0
  <2>1. \A i \in 1..Len(archive) : heap[archive[i].telegram] = Left - Len(archive) + i
    BY <1>2 DEF Intact
  <2>2. Left - Len(archive) \in Nat BY Numbers
  <2>3. QED BY <2>1, <2>2
<1>6. QED BY <1>1, <1>3, <1>4, <1>5 DEF Allocated

LEMMA ListFacts ==
  ASSUME StoreAssumption, StoreInv, NEW l \in {"buffer", "archive"}
  PROVE  /\ Len(List(l)) \in Nat /\ Oldest(l) \in Nat \ {0} /\ Newest(l) \in Nat
         /\ Newest(l) = Oldest(l) + Len(List(l)) - 1
         /\ List(l) # <<>> => Len(List(l)) > 0
<1>1. CASE l = "buffer"
  <2>1. List(l) = buffer /\ Oldest(l) = Gone + 1 /\ Newest(l) = Gone + Len(buffer)
    BY <1>1 DEF List, Oldest, Newest
  <2>2. buffer # <<>> => Len(buffer) > 0 BY Facts, TailFacts
  <2>3. /\ Gone + 1 \in Nat \ {0} /\ Gone + Len(buffer) \in Nat
        /\ Gone + Len(buffer) = (Gone + 1) + Len(buffer) - 1
    BY Numbers
  <2>4. QED BY <2>1, <2>2, <2>3, Numbers
<1>2. CASE l = "archive"
  <2>1. List(l) = archive /\ Oldest(l) = Left - Len(archive) + 1 /\ Newest(l) = Left
    BY <1>2 DEF List, Oldest, Newest
  <2>2. archive # <<>> => Len(archive) > 0 BY Facts, TailFacts
  <2>3. /\ Left - Len(archive) + 1 \in Nat \ {0}
        /\ Left = (Left - Len(archive) + 1) + Len(archive) - 1
    <3>1. \A x, y \in Nat : y <= x => /\ x - y + 1 \in Nat \ {0}
                                      /\ x = (x - y + 1) + y - 1
      OBVIOUS
    <3>2. Left \in Nat /\ Len(archive) \in Nat /\ Len(archive) <= Left BY Numbers
    <3>3. QED BY <3>1, <3>2
  <2>4. QED BY <2>1, <2>2, <2>3, Numbers
<1>3. QED BY <1>1, <1>2

LEMMA BeforeFacts ==
  ASSUME StoreAssumption, StoreInv, NEW l \in {"buffer", "archive"}, NEW n \in Nat,
         n = 0 \/ HasNode(l, n)
  PROVE  /\ Before(l, n) \in Nat
         /\ Before(l, n) # 0 => Before(l, n) - Oldest(l) + 1 \in 1..Len(List(l))
<1> DEFINE o == Oldest(l)
           w == Newest(l)
           k == Len(List(l))
<1>1. /\ k \in Nat /\ o \in Nat \ {0} /\ w \in Nat /\ w = o + k - 1
      /\ List(l) # <<>> => k > 0
  BY ListFacts
<1>2. /\ n = 0 => Before(l, n) = IF List(l) = <<>> THEN 0 ELSE w
      /\ n # 0 /\ n = o => Before(l, n) = 0
      /\ n # 0 /\ n # o => Before(l, n) = n - 1
  <2>1. o # 0 BY <1>1
  <2>2. CASE n = 0 BY <2>1, <2>2 DEF Before
  <2>3. CASE n # 0 BY <2>3 DEF Before
  <2>4. QED BY <2>2, <2>3
<1>3. n # 0 => n \in o..w BY DEF HasNode
<1> HIDE DEF o, w, k
<1>4. QED BY <1>1, <1>2, <1>3 DEF o, k

LEMMA PageKeepsInv ==
  ASSUME StoreAssumption, StoreInv, PageInv, PageNext
  PROVE  PageInv'
<1> USE DEF PageInv, PageTypeOK, PagePointerAllocated
<1>1. Allocated' = Allocated
  BY DEF PageNext, PageOpen, PageCompare, PageCopy, PageRow, storeVars, Allocated
<1>2. CASE PageOpen
  BY <1>2 DEF PageOpen
<1>3. CASE PageCompare
  <2>1. \/ page' = [page EXCEPT !.pc = "deref"]
        \/ page' = [page EXCEPT !.list = "archive", !.base = 0]
        \/ page' = PageClosed
    BY <1>3 DEF PageCompare
  <2>2. page.pc = "compare" BY <1>3 DEF PageCompare
  <2>3. CASE page' = [page EXCEPT !.pc = "deref"] BY <2>3
  <2>4. CASE page' = [page EXCEPT !.list = "archive", !.base = 0]
    <3>1. page'.pc = "compare" BY <2>2, <2>4
    <3>2. QED BY <2>4, <3>1
  <2>5. CASE page' = PageClosed BY <2>5 DEF PageClosed
  <2>6. QED BY <2>1, <2>3, <2>4, <2>5
<1>4. CASE PageCopy
  <2>1. CASE page' = [page EXCEPT !.pc = "undefined"]
    BY <2>1
  <2>2. CASE page' # [page EXCEPT !.pc = "undefined"]
    <3> DEFINE n == Before(page.list, page.base)
               i == n - Oldest(page.list) + 1
               c == List(page.list)[i]
    <3>1. /\ page' = [page EXCEPT !.pc = "copied", !.cont = c]
          /\ page.base = 0 \/ HasNode(page.list, page.base)
          /\ n # 0
      BY <1>4, <2>2 DEF PageCopy
    <3>2. i \in 1..Len(List(page.list))
      BY <3>1, BeforeFacts
    <3> HIDE DEF i
    <3>3. c \in TelegramCont /\ c.telegram \in Allocated
      BY <3>2, ListsAllocated DEF List
    <3> HIDE DEF c
    <3>4. QED BY <1>1, <3>1, <3>3
  <2>3. QED BY <2>1, <2>2
<1>5. CASE PageRow
  <2>1. CASE page.base = 0 \/ HasNode(page.list, page.base)
    <3>1. page' = [page EXCEPT !.pc = "compare", !.cont = NoTelegram,
                               !.base = Before(page.list, page.base)]
      BY <1>5, <2>1 DEF PageRow
    <3>2. Before(page.list, page.base) \in Nat
      BY <2>1, BeforeFacts
    <3>3. QED BY <3>1, <3>2
  <2>2. CASE ~(page.base = 0 \/ HasNode(page.list, page.base))
    BY <1>5, <2>2 DEF PageRow
  <2>3. QED BY <2>1, <2>2
<1>6. QED BY <1>2, <1>3, <1>4, <1>5 DEF PageNext

(* The main thread never takes memory back: an address allocated stays so. *)
StoreOp == AddBegin \/ PopBegin \/ Step

LEMMA StoreKeepsPage ==
  ASSUME StoreAssumption, StoreInv, PageInv, StoreOp
  PROVE  PageInv'
<1>1. page' = page
  BY DEF StoreOp, AddBegin, PopBegin, Step, Recycle, DropArchived, Store, Leave, New,
         Unpool, Emplace
<1>2. Allocated \subseteq Allocated'
  <2>1. CASE New
    <3>1. \E a \in Addr : heap' = [heap EXCEPT ![a] = recvd + 1]
      BY <2>1 DEF New
    <3>2. heap \in [Addr -> Nat] /\ recvd + 1 # 0 BY SMTT(30), Facts
    <3>3. QED BY <3>1, <3>2 DEF Allocated
  <2>2. CASE ~New
    <3>1. heap' = heap
      BY <2>2 DEF StoreOp, AddBegin, PopBegin, Step, Recycle, DropArchived, Store, Leave,
                  Unpool, Emplace
    <3>2. QED BY <3>1 DEF Allocated
  <2>3. QED BY <2>1, <2>2
<1>3. QED BY <1>1, <1>2 DEF PageInv, PageTypeOK, PagePointerAllocated

LEMMA InitPage == ASSUME Init PROVE PageInv
BY DEF Init, PageInv, PageTypeOK, PagePointerAllocated, PageClosed

-----------------------------------------------------------------------------
(* All of it together, for whoever composes stores.                        *)
FullInv == StoreInv /\ MemoryInv /\ PageInv

StoreStep == StoreOp \/ PageNext \/ UNCHANGED <<storeVars, page>>

LEMMA InitFullInv == ASSUME StoreAssumption, Init PROVE FullInv
BY InitInv, InitMemory, InitPage DEF FullInv

LEMMA StepKeepsFullInv ==
  ASSUME StoreAssumption, FullInv, StoreStep
  PROVE  FullInv'
<1> USE DEF FullInv
<1>1. CASE StoreOp
  <2>1. StoreInv' BY <1>1, BeginKeepsInv, StepKeepsInv DEF StoreOp
  <2>2. MemoryInv' BY <1>1, StepKeepsMemory DEF StoreOp
  <2>3. PageInv' BY <1>1, StoreKeepsPage
  <2>4. QED BY <2>1, <2>2, <2>3
<1>2. CASE PageNext
  <2>1. UNCHANGED storeVars
    BY <1>2 DEF PageNext, PageOpen, PageCompare, PageCopy, PageRow
  <2>2. QED
    BY <1>2, <2>1, UnchangedKeepsInv, UnchangedKeepsMemory, PageKeepsInv
<1>3. CASE UNCHANGED <<storeVars, page>>
  <2>1. PageInv'
    BY <1>3 DEF PageInv, PageTypeOK, PagePointerAllocated, Allocated, storeVars
  <2>2. QED BY <1>3, <2>1, UnchangedKeepsInv, UnchangedKeepsMemory
<1>4. QED BY <1>1, <1>2, <1>3 DEF StoreStep

LEMMA InitQueue == ASSUME Init PROVE Queue!Init
BY NoOpFacts DEF Init, Queue!Init

LEMMA StepIsQueueStep ==
  ASSUME StoreAssumption, FullInv, StoreStep
  PROVE  [Queue!Next]_Queue!vars
<1>1. StoreInv BY DEF FullInv
<1>2. CASE Leave
  BY <1>1, <1>2, LeaveIsQueueStep DEF Queue!Next
<1>3. CASE Emplace
  BY <1>1, <1>3, EmplaceIsPut DEF Queue!Next
<1>4. CASE AddBegin \/ PopBegin \/ Recycle \/ DropArchived \/ Store \/ New \/ Unpool
  BY <1>1, <1>4, OtherStepsStutter
<1>5. CASE PageNext \/ UNCHANGED <<storeVars, page>>
  BY <1>5 DEF PageNext, PageOpen, PageCompare, PageCopy, PageRow, storeVars, Queue!vars
<1>6. QED BY <1>2, <1>3, <1>4, <1>5 DEF StoreStep, StoreOp, Step

-----------------------------------------------------------------------------
(* What a step of an operation does to the waiting telegrams: it works on, *)
(* one leaves as sent or because the list is full, or the new one comes.   *)
WorksOn ==
  /\ UNCHANGED <<buffer, recvd, sent, oflowed>> /\ Gone' = Gone
  /\ op'.at # "none" /\ op'.cont = op.cont
  /\ op.at \in Moving => op'.at \in Moving

OneLeaves ==
  /\ op.at = "leave" /\ recvd' = recvd /\ Gone' = Gone + 1
  /\ Len(buffer) > 0 /\ Len(buffer') = Len(buffer) - 1
  /\ \/ op.cont.state = "PROCESSED" /\ op' = NoOp
     \/ /\ op.cont.state = "OVERFLOWED" /\ op'.at = "new" /\ op'.cont = op.cont
        /\ Len(buffer) = MAX_TELEGRAMS /\ oflowed' = oflowed + 1

OneComes ==
  /\ op.at = "emplace" /\ op' = NoOp
  /\ recvd' = recvd + 1 /\ recvd < RecvBound /\ Gone' = Gone
  /\ Len(buffer') = Len(buffer) + 1

LEMMA StepFacts ==
  ASSUME StoreAssumption, StoreInv, Step
  PROVE  WorksOn \/ OneLeaves \/ OneComes
<1>1. CASE Recycle \/ DropArchived \/ Store
  <2>1. /\ UNCHANGED <<buffer, recvd, sent, oflowed>>
        /\ \E l \in {"drop", "store", "leave"} : op' = [op EXCEPT !.at = l]
    BY <1>1 DEF Recycle, DropArchived, Store
  <2>2. op'.at \in {"drop", "store", "leave"} /\ op'.cont = op.cont
    BY <2>1, OpGoesOn, Facts
  <2>3. QED BY <2>1, <2>2 DEF WorksOn, Gone, Moving
<1>2. CASE New
  <2>1. /\ UNCHANGED <<buffer, recvd, sent, oflowed>> /\ op.at = "new"
        /\ \E a \in Addr :
             op' = [op EXCEPT !.at = IF memPool # <<>> THEN "unpool" ELSE "emplace",
                              !.new = a]
    BY <1>2 DEF New
  <2>2. op'.at \in {"unpool", "emplace"} /\ op'.cont = op.cont
    BY <2>1, Facts DEF OpType
  <2>3. QED BY <2>1, <2>2 DEF WorksOn, Gone, Moving
<1>3. CASE Unpool
  <2>1. /\ UNCHANGED <<buffer, recvd, sent, oflowed>> /\ op.at = "unpool"
        /\ op' = [op EXCEPT !.at = "emplace"]
    BY <1>3 DEF Unpool
  <2>2. op'.at = "emplace" /\ op'.cont = op.cont
    BY <2>1, OpGoesOn, Facts
  <2>3. QED BY <2>1, <2>2 DEF WorksOn, Gone, Moving
<1>4. CASE Leave
  <2>1. op.at = "leave" /\ recvd' = recvd /\ buffer' = Tail(buffer)
    BY <1>4 DEF Leave
  <2>2. buffer # <<>> BY <2>1, Facts DEF OpInv, Moving
  <2>3. Len(buffer) > 0 /\ Len(buffer') = Len(buffer) - 1
    BY <2>1, <2>2, Facts, TailFacts
  <2>4. CASE op.cont.state = "PROCESSED"
    <3>1. sent' = sent + 1 /\ oflowed' = oflowed /\ op' = NoOp
      BY <1>4, <2>4 DEF Leave
    <3>2. sent' + oflowed' = (sent + oflowed) + 1 BY <3>1, Numbers
    <3>3. Gone' = Gone + 1 BY <3>2 DEF Gone
    <3>4. QED BY <2>1, <2>3, <2>4, <3>1, <3>3 DEF OneLeaves
  <2>5. CASE op.cont.state = "OVERFLOWED"
    <3>1. oflowed' = oflowed + 1 /\ sent' = sent /\ op' = [op EXCEPT !.at = "new"]
      BY <1>4, <2>5 DEF Leave
    <3>2. op'.at = "new" /\ op'.cont = op.cont BY <3>1, OpGoesOn, Facts
    <3>3. sent' + oflowed' = (sent + oflowed) + 1 BY <3>1, Numbers
    <3>4. Gone' = Gone + 1 BY <3>3 DEF Gone
    <3>5. Len(buffer) = MAX_TELEGRAMS BY <2>1, <2>5, Facts DEF OpInv, Moving
    <3>6. QED BY <2>1, <2>3, <2>5, <3>1, <3>2, <3>4, <3>5 DEF OneLeaves
  <2>6. QED BY <1>4, <2>4, <2>5 DEF Leave
<1>5. CASE Emplace
  <2>1. /\ op.at = "emplace" /\ op' = NoOp /\ recvd' = recvd + 1
        /\ buffer' = Append(buffer, [telegram |-> op.new, state |-> "PENDING"])
        /\ sent' = sent /\ oflowed' = oflowed
    BY <1>5 DEF Emplace
  <2>2. recvd < RecvBound BY <2>1, Facts DEF OpInv, Adding
  <2>3. op.new \in Addr BY <2>1, Facts DEF OpInv, Adding
  <2>4. [telegram |-> op.new, state |-> "PENDING"] \in TelegramCont
    BY <2>3 DEF TelegramCont, TelegramState
  <2>5. Len(buffer') = Len(buffer) + 1 BY <2>1, <2>4, Facts, AppendFacts
  <2>6. QED BY <2>1, <2>2, <2>5 DEF OneComes, Gone
<1>6. QED BY <1>1, <1>2, <1>3, <1>4, <1>5 DEF Step

(* How an operation begins: the lists are as they were.                    *)
LEMMA BeginFacts ==
  ASSUME StoreAssumption, StoreInv, AddBegin \/ PopBegin
  PROVE  /\ UNCHANGED <<buffer, archive, heap, recvd, sent, oflowed>> /\ Gone' = Gone
         /\ op = NoOp /\ op'.at \in {"archive", "new"}
         /\ AddBegin => op'.cont.state # "PROCESSED"
         /\ PopBegin => /\ Len(buffer) > 0
                        /\ op'.at = "archive" /\ op'.cont.state = "PROCESSED"
<1>1. /\ op = NoOp
      /\ UNCHANGED <<buffer, archive, heap, recvd, sent, oflowed>> /\ Gone' = Gone
  BY DEF AddBegin, PopBegin, Gone
<1>2. ASSUME AddBegin
      PROVE  op'.at \in {"archive", "new"} /\ op'.cont.state # "PROCESSED"
  <2>1. CASE Len(buffer) = MAX_TELEGRAMS
    <3>1. buffer # <<>> BY <2>1, Numbers
    <3>2. op' = Leaving("OVERFLOWED") BY <1>2, <2>1 DEF AddBegin
    <3>3. QED BY <3>1, <3>2, LeavingFacts
  <2>2. CASE Len(buffer) # MAX_TELEGRAMS
    BY <1>2, <2>2 DEF AddBegin, NoOp, NoTelegram
  <2>3. QED BY <2>1, <2>2
<1>3. ASSUME PopBegin
      PROVE  Len(buffer) > 0 /\ op'.at = "archive" /\ op'.cont.state = "PROCESSED"
  <2>1. buffer # <<>> /\ op' = Leaving("PROCESSED") BY <1>3 DEF PopBegin
  <2>2. QED BY <2>1, LeavingFacts, TailFacts, Facts
<1>4. QED BY <1>1, <1>2, <1>3

LEMMA BoundKept ==
  ASSUME StoreAssumption, StoreInv, StoreStep, recvd <= RecvBound
  PROVE  recvd' <= RecvBound
<1>1. CASE Step
  <2>1. recvd' = recvd \/ (recvd' = recvd + 1 /\ recvd < RecvBound)
    BY <1>1, StepFacts DEF WorksOn, OneLeaves, OneComes
  <2>2. QED BY <2>1, Numbers DEF StoreAssumption
<1>2. CASE AddBegin \/ PopBegin
  BY <1>2, BeginFacts
<1>3. CASE PageNext \/ UNCHANGED <<storeVars, page>>
  BY <1>3 DEF PageNext, PageOpen, PageCompare, PageCopy, PageRow, storeVars
<1>4. QED BY <1>1, <1>2, <1>3 DEF StoreStep, StoreOp

-----------------------------------------------------------------------------
(* Which telegrams the archive calls PROCESSED: a set T that holds their   *)
(* serial numbers, and that of a telegram on its way there, keeps holding  *)
(* them.                                                                   *)
ProcessedIn(T) ==
  /\ \A i \in 1..Len(archive) :
       archive[i].state = "PROCESSED" => Left - Len(archive) + i \in T
  /\ op.at \in {"archive", "drop", "store"} /\ op.cont.state = "PROCESSED" => Gone + 1 \in T

ProcessedInNext(T) ==
  /\ \A i \in 1..Len(archive') :
       archive'[i].state = "PROCESSED" => Left' - Len(archive') + i \in T
  /\ op'.at \in {"archive", "drop", "store"} /\ op'.cont.state = "PROCESSED" => Gone' + 1 \in T

LEMMA StepKeepsProcessed ==
  ASSUME StoreAssumption, StoreInv, NEW T, ProcessedIn(T), AddBegin \/ Step
  PROVE  ProcessedInNext(T)
<1>a. \A i \in 1..Len(archive) :
        archive[i].state = "PROCESSED" => Left - Len(archive) + i \in T
  BY DEF ProcessedIn
<1>1. CASE AddBegin \/ Recycle \/ New \/ Unpool \/ Emplace
  <2>1. archive' = archive /\ sent' = sent /\ oflowed' = oflowed
    BY <1>1 DEF AddBegin, Recycle, New, Unpool, Emplace
  <2>2. Gone' = Gone BY <2>1 DEF Gone
  <2>3. op.at # "leave" /\ op'.at # "leave"
        /\ (op'.at \in {"archive", "drop", "store"} /\ op'.cont.state = "PROCESSED" =>
               op.at \in {"archive", "drop", "store"} /\ op.cont.state = "PROCESSED")
    <3>1. CASE AddBegin
      <4>1. op = NoOp /\ (op' = Leaving("OVERFLOWED") \/ op' = [NoOp EXCEPT !.at = "new"])
        BY <3>1 DEF AddBegin
      <4>2. ASSUME op' = Leaving("OVERFLOWED")
            PROVE  op'.at = "archive" /\ op'.cont.state = "OVERFLOWED"
        <5>1. buffer # <<>>
          <6>1. Len(buffer) = MAX_TELEGRAMS
            BY <3>1, <4>2 DEF AddBegin, Leaving, NoOp
          <6>2. QED BY <6>1, Numbers
        <5>2. QED BY <4>2, <5>1, LeavingFacts
      <4>3. ASSUME op' = [NoOp EXCEPT !.at = "new"] PROVE op'.at = "new"
        BY <4>3 DEF NoOp
      <4>4. QED BY <4>1, <4>2, <4>3, NoOpFacts
    <3>2. CASE Recycle
      <4>1. op.at = "archive" /\ op' = [op EXCEPT !.at = "drop"] BY <3>2 DEF Recycle
      <4>2. op'.at = "drop" /\ op'.cont = op.cont BY <4>1, OpGoesOn, Facts
      <4>3. QED BY <4>1, <4>2
    <3>3. CASE New
      <4>1. PICK a \in Addr :
              op' = [op EXCEPT !.at = IF memPool # <<>> THEN "unpool" ELSE "emplace",
                               !.new = a]
        BY <3>3 DEF New
      <4>2. op'.at \in {"unpool", "emplace"} BY <4>1, Facts DEF OpType
      <4>3. QED BY <3>3, <4>2 DEF New
    <3>4. CASE Unpool
      <4>1. op.at = "unpool" /\ op' = [op EXCEPT !.at = "emplace"] BY <3>4 DEF Unpool
      <4>2. op'.at = "emplace" BY <4>1, OpGoesOn, Facts
      <4>3. QED BY <4>1, <4>2
    <3>5. CASE Emplace
      BY <3>5, NoOpFacts DEF Emplace
    <3>6. QED BY <1>1, <3>1, <3>2, <3>3, <3>4, <3>5
  <2>4. Left = Gone /\ Left' = Gone BY <2>2, <2>3 DEF Left
  <2>5. QED BY <1>a, <2>1, <2>2, <2>3, <2>4 DEF ProcessedIn, ProcessedInNext
<1>2. CASE DropArchived
  <2>1. /\ op.at = "drop" /\ archive' = Tail(archive) /\ op' = [op EXCEPT !.at = "store"]
        /\ sent' = sent /\ oflowed' = oflowed
    BY <1>2 DEF DropArchived
  <2>2. op'.at = "store" /\ op'.cont = op.cont BY <2>1, OpGoesOn, Facts
  <2>3. Gone' = Gone BY <2>1 DEF Gone
  <2>4. Left = Gone /\ Left' = Gone BY <2>1, <2>2, <2>3 DEF Left
  <2>5. archive # <<>> BY <2>1, Facts DEF OpInv, ArchiveFull
  <2>6. /\ Len(archive') = Len(archive) - 1
        /\ \A i \in 1 .. Len(archive) - 1 : archive'[i] = archive[i + 1]
    BY <2>1, <2>5, Facts, TailFacts
  <2>7. ASSUME NEW i \in 1..Len(archive'), archive'[i].state = "PROCESSED"
        PROVE  Left' - Len(archive') + i \in T
    <3>1. i + 1 \in 1..Len(archive) /\ archive'[i] = archive[i + 1] BY <2>6, Numbers
    <3>2. Gone - Len(archive) + (i + 1) \in T BY <1>a, <2>4, <2>7, <3>1
    <3>3. Gone - (Len(archive) - 1) + i = Gone - Len(archive) + (i + 1)
      <4>1. \A x, y \in Nat, z \in Int : x - (y - 1) + z = x - y + (z + 1) OBVIOUS
      <4>2. i \in Int /\ Gone \in Nat /\ Len(archive) \in Nat
        <5>1. i \in 1 .. Len(archive) - 1 BY <2>6
        <5>2. QED BY <5>1, Numbers
      <4>3. QED BY <4>1, <4>2
    <3>4. QED BY <2>4, <2>6, <3>2, <3>3
  <2>8. QED BY <2>1, <2>2, <2>3, <2>7 DEF ProcessedIn, ProcessedInNext
<1>3. CASE Store
  <2>1. /\ op.at \in {"archive", "store"} /\ archive' = Append(archive, op.cont)
        /\ op' = [op EXCEPT !.at = "leave"] /\ sent' = sent /\ oflowed' = oflowed
    BY <1>3 DEF Store
  <2>2. op'.at = "leave" BY <2>1, OpGoesOn, Facts
  <2>3. Gone' = Gone BY <2>1 DEF Gone
  <2>4. Left = Gone /\ Left' = Gone + 1 BY <2>1, <2>2, <2>3 DEF Left
  <2>5. op.cont \in TelegramCont BY <2>1, Facts DEF OpInv, Moving
  <2>6. /\ Len(archive') = Len(archive) + 1
        /\ \A i \in 1..Len(archive) : archive'[i] = archive[i]
        /\ archive'[Len(archive) + 1] = op.cont
    BY <2>1, <2>5, Facts, AppendFacts
  <2>7. ASSUME NEW i \in 1..Len(archive'), archive'[i].state = "PROCESSED"
        PROVE  Left' - Len(archive') + i \in T
    <3>1. CASE i = Len(archive) + 1
      <4>1. Gone + 1 \in T BY <2>1, <2>6, <2>7, <3>1 DEF ProcessedIn
      <4>2. (Gone + 1) - (Len(archive) + 1) + i = Gone + 1 BY <3>1, Numbers
      <4>3. QED BY <2>4, <2>6, <4>1, <4>2
    <3>2. CASE i # Len(archive) + 1
      <4>1. i \in 1..Len(archive) BY SMTT(30), <2>6, <3>2, Numbers
      <4>2. archive'[i] = archive[i] BY <2>6, <4>1
      <4>3. Gone - Len(archive) + i \in T BY <1>a, <2>4, <2>7, <4>1, <4>2
      <4>4. (Gone + 1) - (Len(archive) + 1) + i = Gone - Len(archive) + i
        BY <4>1, Numbers
      <4>5. QED BY <2>4, <2>6, <4>3, <4>4
    <3>3. QED BY <3>1, <3>2
  <2>8. QED BY <2>2, <2>7 DEF ProcessedInNext
<1>4. CASE Leave
  <2>1. /\ op.at = "leave" /\ (op' = NoOp \/ op' = [op EXCEPT !.at = "new"])
        /\ archive' = archive
        /\ \/ sent' = sent + 1 /\ oflowed' = oflowed
           \/ oflowed' = oflowed + 1 /\ sent' = sent
    BY <1>4 DEF Leave
  <2>2. op'.at \in {"none", "new"} BY <2>1, OpGoesOn, Facts, NoOpFacts
  <2>3. Gone' = Gone + 1
    <3>1. sent' + oflowed' = (sent + oflowed) + 1 BY <2>1, Numbers
    <3>2. QED BY <3>1 DEF Gone
  <2>4. Left' = Left BY <2>1, <2>2, <2>3 DEF Left
  <2>5. QED BY <1>a, <2>1, <2>2, <2>4 DEF ProcessedInNext
<1>5. QED BY <1>1, <1>2, <1>3, <1>4 DEF Step

LEMMA PopKeepsProcessed ==
  ASSUME StoreAssumption, StoreInv, NEW T, ProcessedIn(T), PopBegin, Gone + 1 \in T
  PROVE  ProcessedInNext(T)
<1>1. /\ op = NoOp /\ buffer # <<>> /\ op' = Leaving("PROCESSED")
      /\ archive' = archive /\ sent' = sent /\ oflowed' = oflowed
  BY DEF PopBegin
<1>2. op.at = "none" /\ op'.at = "archive" BY <1>1, NoOpFacts, LeavingFacts
<1>3. Gone' = Gone BY <1>1 DEF Gone
<1>4. Left = Gone /\ Left' = Gone BY <1>2, <1>3 DEF Left
<1>5. QED BY <1>1, <1>3, <1>4 DEF ProcessedIn, ProcessedInNext
=============================================================================
