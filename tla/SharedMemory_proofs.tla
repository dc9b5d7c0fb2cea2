------------------------- MODULE SharedMemory_proofs -------------------------
(***************************************************************************)
(* Proofs about what the threads of the process share without a lock: the  *)
(* report buffer (Report), and the client with what is remembered of the   *)
(* calls over it (FirmwareCalls).  They hold for any number of threads,    *)
(* any ring and all bounds.                                                *)
(***************************************************************************)
EXTENDS FirmwareCalls, Report, FiniteSetTheorems, TLAPS

-----------------------------------------------------------------------------
(* Sequences over a larger set.                                            *)
LEMMA SeqMonotone ==
  ASSUME NEW S, NEW T, S \subseteq T, NEW s \in Seq(S)
  PROVE  s \in Seq(T)
OBVIOUS

-----------------------------------------------------------------------------
(* Report: what is inductive.                                              *)

ReportTypes ==
  /\ writeCount \in Nat \cup {-1}
  /\ readCount \in -1 .. writeCount
  /\ lineBuf \in [Slots -> [ready : BOOLEAN, text : -1 .. writeCount]]
  /\ reporter \in [Reporters -> [pc : {"idle", "test", "claim", "fill"},
                                 n : -1 .. writeCount]]
  /\ flush \in {"idle", "look", "written", "released"}
  /\ log \in Seq(-1 .. writeCount)
  /\ overrun \in BOOLEAN

\* the threads that have read writeCount and not yet claimed a line, and
\* those that would not, or no longer, claim one if L were the limit
Claiming      == {u \in Reporters : reporter[u].pc \in {"test", "claim"}}
PastTest(u, L) == u \in Claiming /\ reporter[u].n < L
NotPast(L)    == {u \in Reporters : ~PastTest(u, L)}

(* However far the lines are ahead of a limit, for each line beyond it     *)
(* there is a thread that has passed the test and claimed it.              *)
RingBound ==
  \A L \in Int : L >= readCount + MAX_BUF_LINES
                 => writeCount < L + Cardinality(NotPast(L))

LineBound ==
  writeCount + Cardinality(Claiming) <= MaxLines + Cardinality(Reporters)

AtLine == flush \in {"written", "released"}

FlushBehind == AtLine => readCount < writeCount

ClaimFits ==
  \A u \in Reporters :
    reporter[u].pc = "claim" => reporter[u].n < readCount + MAX_BUF_LINES

ReportInv == /\ ReportTypes /\ RingBound /\ LineBound
             /\ FlushBehind /\ ClaimFits

(* As long as no claim has overrun the ring: a line that is being filled   *)
(* has its slot for itself, a slot that is ready holds the one line that   *)
(* belongs there, and the flush is at the first line that is unread.       *)
Filling ==
  \A u \in Reporters : reporter[u].pc = "fill" =>
    /\ reporter[u].n \in readCount + 1 .. writeCount
    /\ ~lineBuf[Slot(reporter[u].n)].ready
    /\ lineBuf[Slot(reporter[u].n)].text = Torn
    /\ reporter[u].n = readCount + 1 => ~AtLine
    /\ \A w \in Reporters \ {u} :
         reporter[w].pc = "fill" => reporter[w].n # reporter[u].n

ReadyLines ==
  \A s \in Slots : lineBuf[s].ready =>
    \E n \in readCount + 1 .. writeCount :
      /\ Slot(n) = s /\ lineBuf[s].text = n
      /\ flush = "released" => n # readCount + 1

LogInOrder ==
  /\ Len(log) = readCount + (IF AtLine THEN 2 ELSE 1)
  /\ \A i \in DOMAIN log : log[i] = i - 1

LineInv ==
  ~overrun =>
    /\ writeCount <= readCount + MAX_BUF_LINES
    /\ Filling /\ ReadyLines /\ LogInOrder
    /\ flush = "written" => lineBuf[Slot(readCount + 1)].ready

-----------------------------------------------------------------------------
(* Slot (getWriteRepLine, getRepLine): two lines of one slot are at least  *)
(* the whole ring apart.                                                   *)
LEMMA SlotsApart ==
  ASSUME NEW n \in Int, NEW m \in Int, Slot(n) = Slot(m), n < m
  PROVE  n + MAX_BUF_LINES <= m
<1> DEFINE M == MAX_BUF_LINES
<1>1. M \in Nat \ {0}
  BY ReportAssumption
<1> HIDE DEF M
<1>2. ASSUME NEW k \in Int
      PROVE  k = M * (k \div M) + (k % M) /\ k \div M \in Int /\ k % M \in Int
  BY <1>1, SMTT(30)
<1>3. n % M = m % M
  BY DEF Slot, M
<1> DEFINE p == n \div M  q == m \div M  r == n % M
<1>4. /\ n = M * p + r /\ m = M * q + r
      /\ p \in Int /\ q \in Int /\ r \in Int
  BY <1>2, <1>3
<1> HIDE DEF p, q, r
<1>5. p < q
  <2> SUFFICES ASSUME q <= p PROVE FALSE
    BY <1>4
  <2>1. M * q <= M * p
    BY <1>1, <1>4, SMTT(30)
  <2>2. QED BY <2>1, <1>4, <1>1
<1>6. M * p + M <= M * q
  <2>1. M * (p + 1) <= M * q
    BY <1>1, <1>4, <1>5, SMTT(30)
  <2>2. M * (p + 1) = M * p + M
    BY <1>1, <1>4, SMTT(30)
  <2>3. QED BY <2>1, <2>2
<1>7. n + M <= m
  BY <1>4, <1>6, <1>1
<1>8. QED BY <1>7 DEF M

LEMMA SlotType == ASSUME NEW n \in Int PROVE Slot(n) \in Slots
BY ReportAssumption, SMTT(30) DEF Slot, Slots

(* Sets of reporters are finite, and no larger than the whole.             *)
LEMMA ReporterSets ==
  ASSUME NEW S \in SUBSET Reporters
  PROVE  /\ IsFiniteSet(S) /\ Cardinality(S) \in Nat
         /\ Cardinality(Reporters) \in Nat
         /\ Cardinality(S) <= Cardinality(Reporters)
         /\ \A u \in Reporters \ S : Cardinality(S \cup {u}) = Cardinality(S) + 1
         /\ \A u \in S : Cardinality(S \ {u}) = Cardinality(S) - 1
         /\ \A T \in SUBSET S : Cardinality(T) <= Cardinality(S)
<1>1. IsFiniteSet(Reporters)
  BY ReportAssumption
<1>2. IsFiniteSet(S) /\ Cardinality(S) <= Cardinality(Reporters)
  BY <1>1, FS_Subset
<1>3. Cardinality(S) \in Nat /\ Cardinality(Reporters) \in Nat
  BY <1>1, <1>2, FS_CardinalityType
<1>4. \A u \in Reporters \ S : Cardinality(S \cup {u}) = Cardinality(S) + 1
  BY <1>2, FS_AddElement
<1>5. \A u \in S : Cardinality(S \ {u}) = Cardinality(S) - 1
  BY <1>2, FS_RemoveElement
<1>6. \A T \in SUBSET S : Cardinality(T) <= Cardinality(S)
  BY <1>2, FS_Subset
<1>7. QED BY <1>2, <1>3, <1>4, <1>5, <1>6

-----------------------------------------------------------------------------
(* Types, step by step.                                                    *)
LEMMA ReportTypesInit == ReportInit => ReportTypes
<1> SUFFICES ASSUME ReportInit PROVE ReportTypes
  OBVIOUS
<1> USE DEF ReportInit
<1>1. writeCount = -1 /\ readCount = -1 /\ -1 \in -1 .. writeCount
  OBVIOUS
<1>2. [ready |-> FALSE, text |-> Torn] \in [ready : BOOLEAN, text : -1 .. writeCount]
  BY <1>1 DEF Torn
<1>3. lineBuf \in [Slots -> [ready : BOOLEAN, text : -1 .. writeCount]]
  BY <1>2
<1>4. NotReporting \in [pc : {"idle", "test", "claim", "fill"}, n : -1 .. writeCount]
  BY <1>1 DEF NotReporting
<1>5. log \in Seq(-1 .. writeCount)
  OBVIOUS
<1>6. QED BY <1>1, <1>3, <1>4, <1>5 DEF ReportTypes

LEMMA ReportTypesStep == ReportTypes /\ FlushBehind /\ [ReportNext]_reportVars
                         => ReportTypes'
<1> SUFFICES ASSUME ReportTypes, FlushBehind, [ReportNext]_reportVars
             PROVE  ReportTypes'
  OBVIOUS
<1> USE DEF ReportTypes
<1>1. ASSUME NEW u \in Reporters, LoadWriteCount(u) PROVE ReportTypes'
  BY <1>1 DEF LoadWriteCount
<1>2. ASSUME NEW u \in Reporters, ThrowAway(u) PROVE ReportTypes'
  BY <1>2 DEF ThrowAway, NotReporting
<1>3. ASSUME NEW u \in Reporters, TestOverflow(u) PROVE ReportTypes'
  BY <1>3 DEF TestOverflow
<1>4. ASSUME NEW u \in Reporters, Claim(u) PROVE ReportTypes'
  <2> DEFINE n == writeCount + 1
  <2>1. n \in Nat /\ n > writeCount /\ Slot(n) \in Slots
    BY SlotType
  <2>2. writeCount' = n /\ readCount' = readCount /\ flush' = flush /\ log' = log
    BY <1>4 DEF Claim
  <2>3. reporter' \in [Reporters -> [pc : {"idle", "test", "claim", "fill"},
                                     n : -1 .. n]]
    BY <1>4, <2>1 DEF Claim
  <2>4. lineBuf' \in [Slots -> [ready : BOOLEAN, text : -1 .. n]]
    <3>1. lineBuf \in [Slots -> [ready : BOOLEAN, text : -1 .. n]]
      BY <2>1
    <3>2. [lineBuf[Slot(n)] EXCEPT !.text = Torn] \in [ready : BOOLEAN, text : -1 .. n]
      BY <2>1, <3>1 DEF Torn
    <3>3. lineBuf' = [lineBuf EXCEPT ![Slot(n)] = [lineBuf[Slot(n)] EXCEPT !.text = Torn]]
      BY <1>4 DEF Claim
    <3>4. QED BY <2>1, <3>1, <3>2, <3>3
  <2>5. log \in Seq(-1 .. n)
    <3>1. -1 .. writeCount \subseteq -1 .. n BY <2>1
    <3>2. QED BY <3>1, SeqMonotone
  <2>6. overrun' \in BOOLEAN
    BY <1>4 DEF Claim
  <2> HIDE DEF n
  <2>7. QED BY <2>1, <2>2, <2>3, <2>4, <2>5, <2>6
<1>5. ASSUME NEW u \in Reporters, Commit(u) PROVE ReportTypes'
  <2>1. PICK text \in Texts(u) :
          lineBuf' = [lineBuf EXCEPT ![Slot(reporter[u].n)] =
                        [ready |-> TRUE, text |-> text]]
    BY <1>5 DEF Commit
  <2>2. text \in -1 .. writeCount
    BY DEF Texts, Torn
  <2>3. [ready |-> TRUE, text |-> text] \in [ready : BOOLEAN, text : -1 .. writeCount]
    BY <2>2
  <2>4. lineBuf' \in [Slots -> [ready : BOOLEAN, text : -1 .. writeCount]]
    BY <2>1, <2>3
  <2>5. QED BY <1>5, <2>4 DEF Commit, NotReporting
<1>6. CASE FlushReport BY <1>6 DEF FlushReport
<1>7. CASE Finished BY <1>7 DEF Finished
<1>8. CASE WriteReport
  <2>1. Slot(readCount + 1) \in Slots
    BY SlotType
  <2>2. QED BY <1>8, <2>1 DEF WriteReport, NextLine
<1>9. CASE Release
  <2>1. Slot(readCount + 1) \in Slots
    BY SlotType
  <2>2. ASSUME NEW s \in Slots
        PROVE  [lineBuf EXCEPT ![s].ready = FALSE]
                 \in [Slots -> [ready : BOOLEAN, text : -1 .. writeCount]]
    <3>1. [lineBuf[s] EXCEPT !.ready = FALSE]
            \in [ready : BOOLEAN, text : -1 .. writeCount]
      OBVIOUS
    <3>2. QED BY <3>1
  <2>3. lineBuf' \in [Slots -> [ready : BOOLEAN, text : -1 .. writeCount]]
    BY <1>9, <2>1, <2>2 DEF Release
  <2>4. QED BY <1>9, <2>3 DEF Release, FlushBehind, AtLine
<1>10. CASE UNCHANGED reportVars BY <1>10 DEF reportVars
<1>11. QED
  BY <1>1, <1>2, <1>3, <1>4, <1>5, <1>6, <1>7, <1>8, <1>9, <1>10 DEF ReportNext

(* The bounds of the ring, step by step: one thread moves at a time.       *)
LEMMA ReportInvInit == ReportInit => ReportInv
<1> SUFFICES ASSUME ReportInit PROVE ReportInv
  OBVIOUS
<1>1. ReportTypes
  BY ReportTypesInit
<1>2. RingBound
  <2> SUFFICES ASSUME NEW L \in Int, L >= readCount + MAX_BUF_LINES
               PROVE  writeCount < L + Cardinality(NotPast(L))
    BY DEF RingBound
  <2>1. Cardinality(NotPast(L)) \in Nat
    BY ReporterSets DEF NotPast
  <2>2. QED BY <2>1, ReportAssumption DEF ReportInit
<1>3. LineBound
  BY ReporterSets, ReportAssumption DEF LineBound, ReportInit, Claiming
<1>4. QED
  BY <1>1, <1>2, <1>3
  DEF ReportInv, ReportInit, FlushBehind, AtLine, ClaimFits, NotReporting

LEMMA ReportInvStep == ReportInv /\ [ReportNext]_reportVars => ReportInv'
<1> SUFFICES ASSUME ReportInv, [ReportNext]_reportVars PROVE ReportInv'
  OBVIOUS
<1> USE DEF ReportInv
<1>0. ReportTypes'
  BY ReportTypesStep
<1>a. MAX_BUF_LINES \in Nat \ {0} /\ MaxLines \in Nat
  BY ReportAssumption
<1>b. Claiming \in SUBSET Reporters
  BY DEF Claiming
<1>c. \A L \in Int : NotPast(L) \in SUBSET Reporters
  BY DEF NotPast
<1>1. ASSUME NEW u \in Reporters, LoadWriteCount(u) PROVE ReportInv'
  <2> USE <1>1 DEF LoadWriteCount
  <2>1. reporter'[u] = [pc |-> "test", n |-> writeCount]
        /\ \A w \in Reporters \ {u} : reporter'[w] = reporter[w]
    BY DEF ReportTypes
  <2>2. RingBound'
    <3> SUFFICES ASSUME NEW L \in Int, L >= readCount + MAX_BUF_LINES
                 PROVE  writeCount < L + Cardinality(NotPast(L)')
      BY DEF RingBound
    <3>1. CASE writeCount < L
      <4>1. Cardinality(NotPast(L)') \in Nat
        BY ReporterSets DEF NotPast
      <4>2. QED BY <3>1, <4>1 DEF ReportTypes
    <3>2. CASE writeCount >= L
      <4>1. NotPast(L)' = NotPast(L)
        BY <2>1, <3>2 DEF NotPast, PastTest, Claiming, ReportTypes
      <4>2. QED BY <4>1 DEF RingBound
    <3>3. QED BY <3>1, <3>2 DEF ReportTypes
  <2>3. LineBound'
    <3>1. /\ Cardinality(Claiming') \in Nat /\ Cardinality(Reporters) \in Nat
          /\ Cardinality(Claiming') <= Cardinality(Reporters)
      BY ReporterSets DEF Claiming
    <3>2. QED BY <3>1, <1>a DEF LineBound, ReportTypes
  <2>4. ClaimFits'
    BY <2>1 DEF ClaimFits
  <2>5. QED BY <1>0, <2>2, <2>3, <2>4 DEF FlushBehind, AtLine
<1>2. ASSUME NEW u \in Reporters, ThrowAway(u) PROVE ReportInv'
  <2> USE <1>2 DEF ThrowAway
  <2>1. reporter'[u] = NotReporting
        /\ \A w \in Reporters \ {u} : reporter'[w] = reporter[w]
    BY DEF ReportTypes
  <2>2. RingBound'
    <3> SUFFICES ASSUME NEW L \in Int, L >= readCount + MAX_BUF_LINES
                 PROVE  writeCount < L + Cardinality(NotPast(L)')
      BY DEF RingBound
    <3>1. NotPast(L)' \in SUBSET Reporters /\ NotPast(L) \in SUBSET NotPast(L)'
      BY <2>1 DEF NotPast, PastTest, Claiming, NotReporting
    <3>2. /\ Cardinality(NotPast(L)) <= Cardinality(NotPast(L)')
          /\ Cardinality(NotPast(L)) \in Nat /\ Cardinality(NotPast(L)') \in Nat
      BY <3>1, <1>c, ReporterSets
    <3>3. QED BY <3>2 DEF RingBound, ReportTypes
  <2>3. LineBound'
    <3>1. Claiming' \in SUBSET Claiming
      BY <2>1 DEF Claiming, NotReporting
    <3>2. /\ Cardinality(Claiming') <= Cardinality(Claiming)
          /\ Cardinality(Claiming) \in Nat /\ Cardinality(Claiming') \in Nat
          /\ Cardinality(Reporters) \in Nat
      BY <3>1, <1>b, ReporterSets
    <3>3. QED BY <3>2, <1>a DEF LineBound, ReportTypes
  <2>4. ClaimFits'
    BY <2>1 DEF ClaimFits, NotReporting
  <2>5. QED BY <1>0, <2>2, <2>3, <2>4 DEF FlushBehind, AtLine
<1>3. ASSUME NEW u \in Reporters, TestOverflow(u) PROVE ReportInv'
  <2> USE <1>3 DEF TestOverflow
  <2>1. reporter'[u] = [pc |-> "claim", n |-> reporter[u].n]
        /\ \A w \in Reporters \ {u} : reporter'[w] = reporter[w]
    BY DEF ReportTypes
  <2>2. Claiming' = Claiming /\ \A L : NotPast(L)' = NotPast(L)
    BY <2>1 DEF Claiming, NotPast, PastTest
  <2>3. ClaimFits'
    BY <2>1 DEF ClaimFits
  <2>4. QED
    BY <1>0, <2>2, <2>3 DEF RingBound, LineBound, FlushBehind, AtLine
<1>4. ASSUME NEW u \in Reporters, Claim(u) PROVE ReportInv'
  <2>0. /\ reporter[u].pc = "claim" /\ writeCount' = writeCount + 1
        /\ readCount' = readCount /\ flush' = flush
        /\ reporter' = [reporter EXCEPT ![u] = [pc |-> "fill", n |-> writeCount + 1]]
    BY <1>4 DEF Claim
  <2>1. reporter'[u] = [pc |-> "fill", n |-> writeCount + 1]
        /\ \A w \in Reporters \ {u} : reporter'[w] = reporter[w]
    BY <2>0 DEF ReportTypes
  <2>2. RingBound'
    <3> SUFFICES ASSUME NEW L \in Int, L >= readCount + MAX_BUF_LINES
                 PROVE  writeCount + 1 < L + Cardinality(NotPast(L)')
      BY <2>0 DEF RingBound
    <3>1. PastTest(u, L)
      BY <2>0, <1>a DEF PastTest, Claiming, ClaimFits, ReportTypes
    <3>2. u \notin NotPast(L) /\ NotPast(L)' = NotPast(L) \cup {u}
      BY <2>1, <3>1 DEF NotPast, PastTest, Claiming
    <3>3. Cardinality(NotPast(L)') = Cardinality(NotPast(L)) + 1
          /\ Cardinality(NotPast(L)) \in Nat
      BY <3>2, <1>c, ReporterSets
    <3>4. QED BY <3>3 DEF RingBound, ReportTypes
  <2>3. LineBound'
    <3>1. u \in Claiming /\ Claiming' = Claiming \ {u}
      BY <2>0, <2>1 DEF Claiming
    <3>2. Cardinality(Claiming') = Cardinality(Claiming) - 1
          /\ Cardinality(Claiming) \in Nat /\ Cardinality(Reporters) \in Nat
      BY <3>1, <1>b, ReporterSets
    <3>3. QED BY <3>2, <2>0, <1>a DEF LineBound, ReportTypes
  <2>4. ClaimFits'
    BY <2>0, <2>1 DEF ClaimFits
  <2>5. FlushBehind'
    BY <2>0 DEF FlushBehind, AtLine, ReportTypes
  <2>6. QED BY <1>0, <2>2, <2>3, <2>4, <2>5
<1>5. ASSUME NEW u \in Reporters, Commit(u) PROVE ReportInv'
  <2> USE <1>5 DEF Commit
  <2>1. reporter'[u] = NotReporting
        /\ \A w \in Reporters \ {u} : reporter'[w] = reporter[w]
    BY DEF ReportTypes
  <2>2. Claiming' = Claiming /\ \A L : NotPast(L)' = NotPast(L)
    BY <2>1 DEF Claiming, NotPast, PastTest, NotReporting
  <2>3. ClaimFits'
    BY <2>1 DEF ClaimFits, NotReporting
  <2>4. QED
    BY <1>0, <2>2, <2>3 DEF RingBound, LineBound, FlushBehind, AtLine
<1>6. ASSUME UNCHANGED <<writeCount, reporter>>, FlushBehind',
             readCount' \in {readCount, readCount + 1}
      PROVE  ReportInv'
  <2>1. Claiming' = Claiming /\ \A L : NotPast(L)' = NotPast(L)
    BY <1>6 DEF Claiming, NotPast, PastTest
  <2>2. RingBound'
    <3> SUFFICES ASSUME NEW L \in Int, L >= readCount' + MAX_BUF_LINES
                 PROVE  writeCount < L + Cardinality(NotPast(L))
      BY <1>6, <2>1 DEF RingBound
    <3>1. CASE readCount' = readCount
      BY <3>1 DEF RingBound
    <3>2. CASE readCount' = readCount + 1
      <4>1. L >= readCount + MAX_BUF_LINES
        BY <3>2, <1>a DEF ReportTypes
      <4>2. QED BY <4>1 DEF RingBound
    <3>3. QED BY <3>1, <3>2, <1>6
  <2>3. ClaimFits'
    BY <1>6, <1>a DEF ClaimFits, ReportTypes
  <2>4. QED BY <1>0, <1>6, <2>1, <2>2, <2>3 DEF LineBound
<1>7. CASE FlushReport
  BY <1>6, <1>7 DEF FlushReport, FlushBehind, AtLine
<1>8. CASE Finished
  BY <1>6, <1>8 DEF Finished, FlushBehind, AtLine
<1>9. CASE WriteReport
  BY <1>6, <1>9 DEF WriteReport, FlushBehind, AtLine
<1>10. CASE Release
  BY <1>6, <1>10 DEF Release, FlushBehind, AtLine
<1>11. CASE UNCHANGED reportVars
  BY <1>6, <1>11 DEF reportVars, FlushBehind, AtLine
<1>12. QED
  BY <1>1, <1>2, <1>3, <1>4, <1>5, <1>7, <1>8, <1>9, <1>10, <1>11 DEF ReportNext

LEMMA ReportInvariant == ReportSpec => []ReportInv
BY ReportInvInit, ReportInvStep, PTL DEF ReportSpec

(* Types, and the bound of the ring: a thread beside another exceeds it by *)
(* one line at most, however many lines have been written out, though the  *)
(* test and the claim are two steps (VReport).                             *)
THEOREM ReportTypeCorrect == ReportSpec => []ReportTypeOK
<1>1. ReportInv => ReportTypeOK
  <2> SUFFICES ASSUME ReportInv PROVE ReportTypeOK
    OBVIOUS
  <2>1. /\ Claiming \in SUBSET Reporters
        /\ NotPast(readCount + MAX_BUF_LINES) \in SUBSET Reporters
    BY DEF Claiming, NotPast
  <2>2. /\ Cardinality(Claiming) \in Nat /\ Cardinality(Reporters) \in Nat
        /\ Cardinality(NotPast(readCount + MAX_BUF_LINES)) \in Nat
        /\ Cardinality(NotPast(readCount + MAX_BUF_LINES)) <= Cardinality(Reporters)
    BY <2>1, ReporterSets
  <2>3. MAX_BUF_LINES \in Nat \ {0} /\ MaxLines \in Nat
    BY ReportAssumption
  <2>4. writeCount < readCount + MAX_BUF_LINES
                     + Cardinality(NotPast(readCount + MAX_BUF_LINES))
    BY <2>2, <2>3 DEF ReportInv, RingBound, ReportTypes
  <2>5. QED
    BY <2>2, <2>3, <2>4 DEF ReportInv, LineBound, ReportTypes, ReportTypeOK
<1>2. QED BY <1>1, ReportInvariant, PTL

-----------------------------------------------------------------------------
(* The order of the lines, as long as the ring is not overrun.             *)

\* what LineInv says of one state in which the ring is not overrun
InOrder ==
  /\ writeCount <= readCount + MAX_BUF_LINES
  /\ Filling /\ ReadyLines /\ LogInOrder
  /\ flush = "written" => lineBuf[Slot(readCount + 1)].ready

(* Lines not yet written out have slots of their own.                      *)
LEMMA SlotsOfUnread ==
  ASSUME ReportTypes, writeCount <= readCount + MAX_BUF_LINES,
         NEW n \in readCount + 1 .. writeCount,
         NEW m \in readCount + 1 .. writeCount,
         Slot(n) = Slot(m)
  PROVE  n = m
<1>1. /\ MAX_BUF_LINES \in Nat \ {0} /\ n \in Int /\ m \in Int
      /\ readCount \in Int /\ writeCount \in Int
  BY ReportAssumption DEF ReportTypes
<1>2. CASE n < m
  <2>1. n + MAX_BUF_LINES <= m
    BY <1>1, <1>2, SlotsApart
  <2>2. QED BY <2>1, <1>1
<1>3. CASE m < n
  <2>1. m + MAX_BUF_LINES <= n
    BY <1>1, <1>3, SlotsApart
  <2>2. QED BY <2>1, <1>1
<1>4. QED BY <1>1, <1>2, <1>3

(* The slot of a line that is claimed without an overrun was free: its     *)
(* last line is written out (VReport).                                     *)
LEMMA ClaimedSlotIsFree ==
  ASSUME ReportTypes, writeCount + 1 <= readCount + MAX_BUF_LINES,
         NEW m \in readCount + 1 .. writeCount
  PROVE  Slot(m) # Slot(writeCount + 1)
<1>1. /\ MAX_BUF_LINES \in Nat \ {0} /\ m \in Int
      /\ readCount \in Int /\ writeCount \in Int
  BY ReportAssumption DEF ReportTypes
<1>2. SUFFICES ASSUME Slot(m) = Slot(writeCount + 1) PROVE FALSE
  OBVIOUS
<1>3. m + MAX_BUF_LINES <= writeCount + 1
  BY <1>1, <1>2, SlotsApart
<1>4. QED BY <1>1, <1>3

(* A claim.                                                                *)
LEMMA ClaimKeepsOrder ==
  ASSUME ReportInv, InOrder, NEW u \in Reporters, Claim(u), ~overrun'
  PROVE  InOrder'
<1> DEFINE n == writeCount + 1  slot == Slot(n)
<1> USE DEF InOrder
<1>1. /\ reporter[u].pc = "claim" /\ writeCount' = n
      /\ readCount' = readCount /\ flush' = flush /\ log' = log
      /\ lineBuf' = [lineBuf EXCEPT ![slot].text = Torn]
      /\ reporter' = [reporter EXCEPT ![u] = [pc |-> "fill", n |-> n]]
      /\ ~(n > readCount + MAX_BUF_LINES)
  BY DEF Claim
<1>2. /\ readCount \in Int /\ n \in Int /\ writeCount \in Int /\ MAX_BUF_LINES \in Int
      /\ n <= readCount + MAX_BUF_LINES
      /\ readCount + 1 <= n
  BY <1>1, ReportAssumption DEF ReportInv, ReportTypes
<1>3. slot \in Slots
  BY <1>2, SlotType
<1>4. /\ \A s \in Slots : lineBuf'[s].ready = lineBuf[s].ready
      /\ \A s \in Slots \ {slot} : lineBuf'[s] = lineBuf[s]
      /\ lineBuf'[slot].text = Torn
  BY <1>1, <1>3 DEF ReportInv, ReportTypes
<1>5. /\ reporter'[u] = [pc |-> "fill", n |-> n]
      /\ \A w \in Reporters \ {u} : reporter'[w] = reporter[w]
  BY <1>1 DEF ReportInv, ReportTypes
<1>6. \A m \in readCount + 1 .. writeCount : Slot(m) # slot
  BY <1>2, ClaimedSlotIsFree DEF ReportInv
<1>7. ~lineBuf[slot].ready
  BY <1>3, <1>6 DEF ReadyLines
<1> HIDE DEF n, slot
<1>8. Filling'
  <2> SUFFICES ASSUME NEW w \in Reporters, reporter'[w].pc = "fill"
               PROVE  /\ reporter'[w].n \in readCount + 1 .. n
                      /\ ~lineBuf'[Slot(reporter'[w].n)].ready
                      /\ lineBuf'[Slot(reporter'[w].n)].text = Torn
                      /\ reporter'[w].n = readCount + 1 => ~AtLine
                      /\ \A x \in Reporters \ {w} :
                           reporter'[x].pc = "fill" => reporter'[x].n # reporter'[w].n
    BY <1>1 DEF Filling, AtLine
  <2>0. n = writeCount + 1 /\ slot = Slot(n)
    BY DEF n, slot
  <2>1. ASSUME NEW x \in Reporters \ {u}, reporter[x].pc = "fill"
        PROVE  /\ reporter[x].n \in readCount + 1 .. writeCount
               /\ reporter[x].n # n /\ Slot(reporter[x].n) # slot
               /\ Slot(reporter[x].n) \in Slots
    <3>1. reporter[x].n \in readCount + 1 .. writeCount
      BY <2>1 DEF Filling
    <3>2. reporter[x].n # n /\ reporter[x].n \in Int
      BY <3>1, <1>2, <2>0
    <3>3. QED BY <3>1, <3>2, <1>6, SlotType
  <2>2. CASE w = u
    <3>1. reporter'[w].n = n
      BY <2>2, <1>5
    <3>2. n = readCount + 1 => ~AtLine
      BY <1>2, <2>0 DEF ReportInv, FlushBehind
    <3>3. \A x \in Reporters \ {w} : reporter'[x].pc = "fill" => reporter'[x].n # n
      BY <2>1, <2>2, <1>5
    <3>4. ~lineBuf'[slot].ready /\ lineBuf'[slot].text = Torn
      BY <1>3, <1>4, <1>7
    <3>5. QED BY <3>1, <3>2, <3>3, <3>4, <2>0, <1>2
  <2>3. CASE w # u
    <3>1. reporter'[w] = reporter[w]
      BY <2>3, <1>5
    <3>2. /\ reporter[w].n \in readCount + 1 .. n
          /\ reporter[w].n # n /\ lineBuf'[Slot(reporter[w].n)] = lineBuf[Slot(reporter[w].n)]
      BY <3>1, <2>1, <2>3, <1>4, <1>2, <2>0
    <3>3. \A x \in Reporters \ {w} :
            reporter'[x].pc = "fill" => reporter'[x].n # reporter[w].n
      BY <3>1, <3>2, <1>5 DEF Filling
    <3>4. /\ ~lineBuf[Slot(reporter[w].n)].ready
          /\ lineBuf[Slot(reporter[w].n)].text = Torn
          /\ reporter[w].n = readCount + 1 => ~AtLine
      BY <3>1 DEF Filling
    <3>5. QED BY <3>1, <3>2, <3>3, <3>4
  <2>4. QED BY <2>2, <2>3
<1>9. ReadyLines'
  <2> SUFFICES ASSUME NEW s \in Slots, lineBuf'[s].ready
               PROVE  \E m \in readCount + 1 .. n :
                        /\ Slot(m) = s /\ lineBuf'[s].text = m
                        /\ flush = "released" => m # readCount + 1
    BY <1>1 DEF ReadyLines
  <2>1. lineBuf[s].ready /\ s # slot /\ lineBuf'[s] = lineBuf[s]
    BY <1>4, <1>7
  <2>2. PICK m \in readCount + 1 .. writeCount :
               /\ Slot(m) = s /\ lineBuf[s].text = m
               /\ flush = "released" => m # readCount + 1
    BY <2>1 DEF ReadyLines
  <2>3. m \in readCount + 1 .. n
    BY <1>2 DEF n
  <2>4. QED BY <2>1, <2>2, <2>3
<1>10. (flush = "written" => lineBuf[Slot(readCount + 1)].ready)'
  <2>1. Slot(readCount + 1) \in Slots
    BY <1>2, SlotType
  <2>2. QED BY <2>1, <1>1, <1>4
<1>11. QED BY <1>1, <1>2, <1>8, <1>9, <1>10 DEF LogInOrder, AtLine

(* A line is made ready.                                                   *)
LEMMA CommitKeepsOrder ==
  ASSUME ReportInv, InOrder, NEW u \in Reporters, Commit(u)
  PROVE  InOrder'
<1> DEFINE n == reporter[u].n  slot == Slot(n)
<1> USE DEF InOrder
<1>1. /\ reporter[u].pc = "fill" /\ writeCount' = writeCount
      /\ readCount' = readCount /\ flush' = flush /\ log' = log
      /\ reporter' = [reporter EXCEPT ![u] = NotReporting]
  BY DEF Commit
<1>2. /\ readCount \in Int /\ n \in Int /\ writeCount \in Int /\ MAX_BUF_LINES \in Int
      /\ n \in readCount + 1 .. writeCount
  BY <1>1, ReportAssumption DEF ReportInv, ReportTypes, Filling
<1>3. slot \in Slots
  BY <1>2, SlotType
<1>4. ASSUME NEW w \in Reporters \ {u}, reporter[w].pc = "fill"
      PROVE  /\ reporter[w].n \in readCount + 1 .. writeCount
             /\ Slot(reporter[w].n) # slot
             /\ Slot(reporter[w].n) \in Slots
  <2>1. /\ reporter[w].n \in readCount + 1 .. writeCount
        /\ reporter[w].n # n
    BY <1>1, <1>4 DEF Filling
  <2>2. Slot(reporter[w].n) # slot
    BY <2>1, <1>2, SlotsOfUnread DEF ReportInv
  <2>3. QED BY <2>1, <2>2, <1>2, SlotType
<1>5. Texts(u) = {n}
  BY <1>1, <1>4 DEF Texts, Filling
<1>6. lineBuf' = [lineBuf EXCEPT ![slot] = [ready |-> TRUE, text |-> n]]
  BY <1>5 DEF Commit
<1>7. /\ \A s \in Slots \ {slot} : lineBuf'[s] = lineBuf[s]
      /\ lineBuf'[slot] = [ready |-> TRUE, text |-> n]
  BY <1>3, <1>6 DEF ReportInv, ReportTypes
<1>8. /\ reporter'[u] = NotReporting
      /\ \A w \in Reporters \ {u} : reporter'[w] = reporter[w]
  BY <1>1 DEF ReportInv, ReportTypes
<1>9. n = readCount + 1 => ~AtLine
  BY <1>1 DEF Filling
<1> HIDE DEF n, slot
<1>10. Filling'
  <2> SUFFICES ASSUME NEW w \in Reporters, reporter'[w].pc = "fill"
               PROVE  /\ reporter'[w].n \in readCount + 1 .. writeCount
                      /\ ~lineBuf'[Slot(reporter'[w].n)].ready
                      /\ lineBuf'[Slot(reporter'[w].n)].text = Torn
                      /\ reporter'[w].n = readCount + 1 => ~AtLine
                      /\ \A x \in Reporters \ {w} :
                           reporter'[x].pc = "fill" => reporter'[x].n # reporter'[w].n
    BY <1>1 DEF Filling, AtLine
  <2>1. w # u /\ reporter'[w] = reporter[w]
    BY <1>8 DEF NotReporting
  <2>2. lineBuf'[Slot(reporter[w].n)] = lineBuf[Slot(reporter[w].n)]
    BY <2>1, <1>4, <1>7
  <2>3. \A x \in Reporters \ {w} :
          reporter'[x].pc = "fill" => reporter'[x].n # reporter[w].n
    BY <2>1, <1>8 DEF Filling, NotReporting
  <2>4. QED BY <2>1, <2>2, <2>3 DEF Filling
<1>11. ReadyLines'
  <2> SUFFICES ASSUME NEW s \in Slots, lineBuf'[s].ready
               PROVE  \E m \in readCount + 1 .. writeCount :
                        /\ Slot(m) = s /\ lineBuf'[s].text = m
                        /\ flush = "released" => m # readCount + 1
    BY <1>1 DEF ReadyLines
  <2>1. CASE s = slot
    BY <2>1, <1>2, <1>7, <1>9 DEF slot, AtLine
  <2>2. CASE s # slot
    BY <2>2, <1>7 DEF ReadyLines
  <2>3. QED BY <2>1, <2>2
<1>12. (flush = "written" => lineBuf[Slot(readCount + 1)].ready)'
  <2>1. Slot(readCount + 1) \in Slots
    BY <1>2, SlotType
  <2>2. QED BY <2>1, <1>1, <1>7
<1>13. QED BY <1>1, <1>10, <1>11, <1>12 DEF LogInOrder, AtLine

(* The next line is written out: its slot holds it and no later one.       *)
LEMMA WriteKeepsOrder ==
  ASSUME ReportInv, InOrder, WriteReport
  PROVE  InOrder'
<1> DEFINE next == readCount + 1
<1> USE DEF InOrder
<1>1. /\ flush = "look" /\ flush' = "written" /\ ~AtLine /\ AtLine'
      /\ readCount < writeCount /\ lineBuf[Slot(next)].ready
      /\ UNCHANGED <<writeCount, readCount, lineBuf, reporter>>
      /\ log' = Append(log, lineBuf[Slot(next)].text)
  BY DEF WriteReport, NextLine, AtLine
<1>2. /\ readCount \in Int /\ writeCount \in Int /\ next \in readCount + 1 .. writeCount
      /\ log \in Seq(-1 .. writeCount)
  BY <1>1 DEF ReportInv, ReportTypes
<1>3. Slot(next) \in Slots
  BY <1>2, SlotType
<1>4. lineBuf[Slot(next)].text = next
  <2>1. PICK n \in readCount + 1 .. writeCount :
               Slot(n) = Slot(next) /\ lineBuf[Slot(next)].text = n
    BY <1>1, <1>3 DEF ReadyLines
  <2>2. n = next
    BY <1>2, <2>1, SlotsOfUnread DEF ReportInv
  <2>3. QED BY <2>1, <2>2
<1>5. \A u \in Reporters : reporter[u].pc = "fill" => reporter[u].n # next
  BY <1>1 DEF Filling
<1>6. Filling'
  BY <1>1, <1>5 DEF Filling
<1>7. ReadyLines'
  BY <1>1 DEF ReadyLines
<1>8. LogInOrder'
  <2>1. /\ Len(log) = next /\ Len(log) \in Nat
        /\ log' = Append(log, next)
    BY <1>1, <1>2, <1>4 DEF LogInOrder
  <2> HIDE DEF next
  <2>2. /\ Len(log') = Len(log) + 1
        /\ DOMAIN log' = 1 .. Len(log) + 1 /\ DOMAIN log = 1 .. Len(log)
        /\ \A i \in 1 .. Len(log) : log'[i] = log[i]
        /\ log'[Len(log) + 1] = next
    BY <2>1, <1>2
  <2>3. \A i \in DOMAIN log' : log'[i] = i - 1
    <3> SUFFICES ASSUME NEW i \in 1 .. Len(log) + 1 PROVE log'[i] = i - 1
      BY <2>2
    <3>1. CASE i = Len(log) + 1
      BY <3>1, <2>1, <2>2
    <3>2. CASE i # Len(log) + 1
      <4>1. i \in 1 .. Len(log)
        BY <3>2, <2>1
      <4>2. QED BY <4>1, <2>2 DEF LogInOrder
    <3>3. QED BY <3>1, <3>2
  <2>4. Len(log') = readCount + 2
    BY <2>1, <2>2, <1>2 DEF next
  <2>5. QED BY <1>1, <2>3, <2>4 DEF LogInOrder
<1>9. QED BY <1>1, <1>6, <1>7, <1>8

(* The line is released, and then counted.                                 *)
LEMMA ReleaseKeepsOrder ==
  ASSUME ReportInv, InOrder, Release
  PROVE  InOrder'
<1> DEFINE next == readCount + 1
<1> USE DEF InOrder
<1>0. /\ readCount \in Int /\ writeCount \in Int /\ MAX_BUF_LINES \in Int
      /\ Slot(next) \in Slots
  BY ReportAssumption, SlotType DEF ReportInv, ReportTypes
<1>1. CASE flush = "written"
  <2>1. /\ flush' = "released" /\ AtLine /\ AtLine'
        /\ lineBuf' = [lineBuf EXCEPT ![Slot(next)].ready = FALSE]
        /\ UNCHANGED <<writeCount, readCount, reporter, log>>
    BY <1>1 DEF Release, AtLine
  <2>2. /\ \A s \in Slots : lineBuf'[s].text = lineBuf[s].text
        /\ \A s \in Slots : lineBuf'[s].ready => lineBuf[s].ready /\ s # Slot(next)
    BY <1>0, <2>1 DEF ReportInv, ReportTypes
  <2>3. Filling'
    <3> SUFFICES ASSUME NEW u \in Reporters, reporter[u].pc = "fill"
                 PROVE  /\ ~lineBuf'[Slot(reporter[u].n)].ready
                        /\ lineBuf'[Slot(reporter[u].n)].text = Torn
      BY <2>1 DEF Filling
    <3>1. Slot(reporter[u].n) \in Slots
      BY SlotType DEF ReportInv, ReportTypes
    <3>2. QED BY <3>1, <2>2 DEF Filling
  <2>4. ReadyLines'
    <3> SUFFICES ASSUME NEW s \in Slots, lineBuf'[s].ready
                 PROVE  \E n \in readCount + 1 .. writeCount :
                          Slot(n) = s /\ lineBuf'[s].text = n /\ n # next
      BY <2>1 DEF ReadyLines
    <3>1. lineBuf[s].ready /\ s # Slot(next) /\ lineBuf'[s].text = lineBuf[s].text
      BY <2>2
    <3>2. QED BY <3>1 DEF ReadyLines
  <2>5. QED BY <2>1, <2>3, <2>4 DEF LogInOrder
<1>2. CASE flush = "released"
  <2>1. /\ flush' = "look" /\ AtLine /\ ~AtLine' /\ readCount' = next
        /\ UNCHANGED <<writeCount, lineBuf, reporter, log>>
    BY <1>2 DEF Release, AtLine
  <2>2. Filling'
    <3> SUFFICES ASSUME NEW u \in Reporters, reporter[u].pc = "fill"
                 PROVE  reporter[u].n \in next + 1 .. writeCount
      BY <2>1 DEF Filling
    <3>1. reporter[u].n \in readCount + 1 .. writeCount /\ reporter[u].n # next
      BY <2>1 DEF Filling
    <3>2. QED BY <3>1, <1>0
  <2>3. ReadyLines'
    <3> SUFFICES ASSUME NEW s \in Slots, lineBuf[s].ready
                 PROVE  \E n \in next + 1 .. writeCount :
                          Slot(n) = s /\ lineBuf[s].text = n
      BY <2>1 DEF ReadyLines
    <3>1. PICK n \in readCount + 1 .. writeCount :
                 Slot(n) = s /\ lineBuf[s].text = n /\ n # next
      BY <1>2 DEF ReadyLines
    <3>2. n \in next + 1 .. writeCount
      BY <3>1, <1>0
    <3>3. QED BY <3>1, <3>2
  <2>4. LogInOrder'
    BY <2>1, <1>0 DEF LogInOrder
  <2>5. writeCount <= next + MAX_BUF_LINES
    BY <1>0
  <2>6. QED BY <2>1, <2>2, <2>3, <2>4, <2>5
<1>3. QED BY <1>1, <1>2 DEF Release

(* Every step, and lines in order as a property of the program.            *)
LEMMA InOrderStep ==
  ReportInv /\ LineInv /\ [ReportNext]_reportVars => LineInv'
<1> SUFFICES ASSUME ReportInv, LineInv, [ReportNext]_reportVars, ~overrun'
             PROVE  InOrder'
  BY DEF LineInv, InOrder
<1>0. ~overrun
  BY DEF ReportNext, reportVars, LoadWriteCount, ThrowAway, TestOverflow, Claim,
         Commit, FlushReport, Finished, WriteReport, Release
<1>1. InOrder
  BY <1>0 DEF LineInv, InOrder
<1>2. ASSUME UNCHANGED <<writeCount, readCount, lineBuf, log>>, AtLine' = AtLine,
             flush' \in {"idle", "look"} \/ flush' = flush,
             NEW u \in Reporters,
             \A w \in Reporters \ {u} : reporter'[w] = reporter[w],
             reporter'[u] # reporter[u]
               => reporter[u].pc # "fill" /\ reporter'[u].pc # "fill"
      PROVE  InOrder'
  <2>1. Filling'
    <3>1. \A w \in Reporters : reporter'[w].pc = "fill" => reporter'[w] = reporter[w]
      BY <1>2
    <3>2. QED BY <1>1, <1>2, <3>1 DEF InOrder, Filling
  <2>2. ReadyLines'
    BY <1>1, <1>2 DEF InOrder, ReadyLines
  <2>3. QED BY <1>1, <1>2, <2>1, <2>2 DEF InOrder, LogInOrder
<1>3. ASSUME NEW u \in Reporters,
             LoadWriteCount(u) \/ ThrowAway(u) \/ TestOverflow(u)
      PROVE  InOrder'
  <2>1. /\ \A w \in Reporters \ {u} : reporter'[w] = reporter[w]
        /\ reporter[u].pc # "fill" /\ reporter'[u].pc # "fill"
    BY <1>3 DEF ReportInv, ReportTypes, NotReporting, LoadWriteCount, ThrowAway,
                TestOverflow
  <2>2. UNCHANGED <<writeCount, readCount, lineBuf, log, flush>>
    BY <1>3 DEF LoadWriteCount, ThrowAway, TestOverflow
  <2>3. QED BY <1>2, <2>1, <2>2 DEF AtLine
<1>4. ASSUME NEW u \in Reporters, Claim(u) PROVE InOrder'
  BY <1>1, <1>4, ClaimKeepsOrder
<1>5. ASSUME NEW u \in Reporters, Commit(u) PROVE InOrder'
  BY <1>1, <1>5, CommitKeepsOrder
<1>6. CASE FlushReport \/ Finished
  BY <1>2, <1>6, ReportAssumption DEF FlushReport, Finished, AtLine
<1>7. CASE WriteReport
  BY <1>1, <1>7, WriteKeepsOrder
<1>8. CASE Release
  BY <1>1, <1>8, ReleaseKeepsOrder
<1>9. CASE UNCHANGED reportVars
  BY <1>2, <1>9, ReportAssumption DEF reportVars, AtLine
<1>10. QED
  BY <1>3, <1>4, <1>5, <1>6, <1>7, <1>8, <1>9 DEF ReportNext

LEMMA LineInvInit == ReportInit => LineInv
<1> SUFFICES ASSUME ReportInit PROVE LineInv
  OBVIOUS
<1>1. writeCount <= readCount + MAX_BUF_LINES
  BY ReportAssumption DEF ReportInit
<1>2. Filling /\ ReadyLines /\ LogInOrder
  BY DEF ReportInit, Filling, ReadyLines, LogInOrder, AtLine, NotReporting
<1>3. QED BY <1>1, <1>2 DEF LineInv, ReportInit

(* As long as no claim has overrun the ring, the log holds the lines       *)
(* 0, 1, 2, ... whole, each once, without any lock (VReport, flushReport). *)
THEOREM ReportLinesInOrder == ReportSpec => []LinesInOrder
<1>1. ReportInv /\ LineInv => LinesInOrder
  BY DEF ReportInv, ReportTypes, LineInv, LogInOrder, LinesInOrder, AtLine
<1>2. QED
  BY <1>1, LineInvInit, InOrderStep, ReportInvariant, PTL DEF ReportSpec

-----------------------------------------------------------------------------
(* Who a line that is not ready is waiting for.                            *)

\* each line claimed and not written out is ready, being filled, or the one
\* the flush is releasing
Underway ==
  ~overrun => \A n \in readCount + 1 .. writeCount :
    \/ lineBuf[Slot(n)].ready
    \/ \E u \in Reporters : reporter[u].pc = "fill" /\ reporter[u].n = n
    \/ flush = "released" /\ n = readCount + 1

LEMMA UnderwayStep ==
  ReportInv /\ LineInv /\ Underway /\ [ReportNext]_reportVars => Underway'
<1> SUFFICES ASSUME ReportInv, LineInv, Underway, [ReportNext]_reportVars, ~overrun',
                    NEW n \in readCount' + 1 .. writeCount'
             PROVE  \/ lineBuf'[Slot(n)].ready
                    \/ \E u \in Reporters : reporter'[u].pc = "fill" /\ reporter'[u].n = n
                    \/ flush' = "released" /\ n = readCount' + 1
  BY DEF Underway
<1> DEFINE Goal == \/ lineBuf'[Slot(n)].ready
                   \/ \E u \in Reporters : reporter'[u].pc = "fill" /\ reporter'[u].n = n
                   \/ flush' = "released" /\ n = readCount' + 1
<1>0. ~overrun
  BY DEF ReportNext, reportVars, LoadWriteCount, ThrowAway, TestOverflow, Claim,
         Commit, FlushReport, Finished, WriteReport, Release
<1>1. ReportTypes /\ writeCount <= readCount + MAX_BUF_LINES
  BY <1>0 DEF ReportInv, LineInv
<1>2. \A m \in readCount + 1 .. writeCount :
        \/ lineBuf[Slot(m)].ready
        \/ \E u \in Reporters : reporter[u].pc = "fill" /\ reporter[u].n = m
        \/ flush = "released" /\ m = readCount + 1
  BY <1>0 DEF Underway
<1>3. ASSUME UNCHANGED <<writeCount, readCount, lineBuf>>,
             flush = "released" => flush' = "released",
             \A w \in Reporters : reporter[w].pc = "fill" => reporter'[w] = reporter[w]
      PROVE  Goal
  BY <1>2, <1>3
<1>4. ASSUME NEW u \in Reporters,
             LoadWriteCount(u) \/ ThrowAway(u) \/ TestOverflow(u)
      PROVE  Goal
  <2>1. /\ \A w \in Reporters \ {u} : reporter'[w] = reporter[w]
        /\ reporter[u].pc # "fill"
    BY <1>1, <1>4 DEF ReportTypes, LoadWriteCount, ThrowAway, TestOverflow
  <2>2. UNCHANGED <<writeCount, readCount, lineBuf, flush>>
    BY <1>4 DEF LoadWriteCount, ThrowAway, TestOverflow
  <2>3. QED BY <1>3, <2>1, <2>2
<1>5. ASSUME NEW u \in Reporters, Claim(u) PROVE Goal
  <2>1. /\ reporter[u].pc = "claim" /\ writeCount' = writeCount + 1
        /\ readCount' = readCount /\ flush' = flush
        /\ lineBuf' = [lineBuf EXCEPT ![Slot(writeCount + 1)].text = Torn]
        /\ reporter' = [reporter EXCEPT ![u] = [pc |-> "fill", n |-> writeCount + 1]]
    BY <1>5 DEF Claim
  <2>2. reporter \in [Reporters -> [pc : {"idle", "test", "claim", "fill"},
                                    n : -1 .. writeCount]]
    BY <1>1 DEF ReportTypes
  <2>3. CASE n = writeCount + 1
    <3>1. reporter'[u].pc = "fill" /\ reporter'[u].n = n
      BY <2>1, <2>2, <2>3
    <3>2. QED BY <3>1
  <2>4. CASE n # writeCount + 1
    <3>1. n \in readCount + 1 .. writeCount
      BY <1>1, <2>1, <2>4 DEF ReportTypes
    <3>2. lineBuf'[Slot(n)].ready <=> lineBuf[Slot(n)].ready
      <4>1. Slot(n) \in Slots /\ Slot(writeCount + 1) \in Slots
        BY <1>1, <3>1, SlotType DEF ReportTypes
      <4> DEFINE old == lineBuf[Slot(writeCount + 1)]
      <4>2. [old EXCEPT !.text = Torn].ready = old.ready
        BY <1>1, <4>1 DEF ReportTypes
      <4>3. lineBuf' = [lineBuf EXCEPT ![Slot(writeCount + 1)] = [old EXCEPT !.text = Torn]]
        BY <2>1
      <4>4. CASE Slot(n) = Slot(writeCount + 1)
        BY <1>1, <4>1, <4>2, <4>3, <4>4 DEF ReportTypes
      <4>5. CASE Slot(n) # Slot(writeCount + 1)
        BY <1>1, <4>1, <4>3, <4>5 DEF ReportTypes
      <4>6. QED BY <4>4, <4>5
    <3>3. \A w \in Reporters : reporter[w].pc = "fill" => reporter'[w] = reporter[w]
      BY <2>1, <2>2
    <3>4. QED BY <1>2, <2>1, <3>1, <3>2, <3>3
  <2>5. QED BY <2>3, <2>4
<1>6. ASSUME NEW u \in Reporters, Commit(u) PROVE Goal
  <2>1. PICK text \in Texts(u) :
          lineBuf' = [lineBuf EXCEPT ![Slot(reporter[u].n)] =
                        [ready |-> TRUE, text |-> text]]
    BY <1>6 DEF Commit
  <2>2. /\ UNCHANGED <<writeCount, readCount, flush>>
        /\ reporter' = [reporter EXCEPT ![u] = NotReporting]
    BY <1>6 DEF Commit
  <2>3. n \in readCount + 1 .. writeCount /\ Slot(n) \in Slots
    BY <1>1, <2>2, SlotType DEF ReportTypes
  <2>4. CASE Slot(n) = Slot(reporter[u].n)
    BY <1>1, <2>1, <2>3, <2>4 DEF ReportTypes
  <2>5. CASE Slot(n) # Slot(reporter[u].n)
    <3>1. lineBuf'[Slot(n)] = lineBuf[Slot(n)]
      BY <1>1, <2>1, <2>3, <2>5 DEF ReportTypes
    <3>2. \A w \in Reporters \ {u} : reporter'[w] = reporter[w]
      BY <1>1, <2>2 DEF ReportTypes
    <3>3. reporter[u].n # n BY <2>5
    <3>4. QED BY <1>2, <2>2, <2>3, <3>1, <3>2, <3>3
  <2>6. QED BY <2>4, <2>5
<1>7. CASE FlushReport \/ Finished \/ WriteReport
  BY <1>3, <1>7 DEF FlushReport, Finished, WriteReport
<1>8. CASE Release
  <2>1. CASE flush = "written"
    <3>1. /\ flush' = "released" /\ UNCHANGED <<writeCount, readCount, reporter>>
          /\ lineBuf' = [lineBuf EXCEPT ![Slot(readCount + 1)].ready = FALSE]
      BY <1>8, <2>1 DEF Release
    <3>2. CASE n = readCount + 1
      BY <3>1, <3>2
    <3>3. CASE n # readCount + 1
      <4>1. n \in readCount + 1 .. writeCount /\ readCount + 1 \in readCount + 1 .. writeCount
        BY <1>1, <3>1 DEF ReportTypes
      <4>2. Slot(n) # Slot(readCount + 1)
        BY <1>1, <3>3, <4>1, SlotsOfUnread
      <4>3. Slot(n) \in Slots
        BY <1>1, <4>1, SlotType DEF ReportTypes
      <4>4. lineBuf'[Slot(n)] = lineBuf[Slot(n)]
        BY <1>1, <3>1, <4>2, <4>3 DEF ReportTypes
      <4>5. QED BY <1>2, <2>1, <3>1, <4>1, <4>4
    <3>4. QED BY <3>2, <3>3
  <2>2. CASE flush = "released"
    <3>1. /\ readCount' = readCount + 1
          /\ UNCHANGED <<writeCount, lineBuf, reporter>>
      BY <1>8, <2>2 DEF Release
    <3>2. n \in readCount + 1 .. writeCount /\ n # readCount + 1
      BY <1>1, <3>1 DEF ReportTypes
    <3>3. QED BY <1>2, <3>1, <3>2
  <2>3. QED BY <1>8, <2>1, <2>2 DEF Release
<1>9. CASE UNCHANGED reportVars
  BY <1>3, <1>9 DEF reportVars
<1>10. QED
  BY <1>4, <1>5, <1>6, <1>7, <1>8, <1>9 DEF ReportNext

(* As long as no claim has overrun the ring, the comment in getRepLine is  *)
(* right: a line that is claimed and not ready is being filled by a thread *)
(* that has begun it, so a flush that stops there has something to wait    *)
(* for. The run report_stuck shows what an overrun does to it.             *)
THEOREM FlushWaitsForSomebody == ReportSpec => [](~overrun => NotReadyIsInPreparation)
<1>1. ReportInit => Underway
  BY DEF ReportInit, Underway
<1>2. ReportInv /\ Underway => (~overrun => NotReadyIsInPreparation)
  <2> SUFFICES ASSUME ReportInv, Underway, ~overrun, flush = "look",
                      readCount < writeCount, ~NextLine.ready
               PROVE  \E u \in Reporters :
                        reporter[u].pc = "fill" /\ reporter[u].n = readCount + 1
    BY DEF NotReadyIsInPreparation
  <2>1. readCount + 1 \in readCount + 1 .. writeCount
    BY DEF ReportInv, ReportTypes
  <2>2. QED BY <2>1 DEF Underway, NextLine
<1>3. ReportSpec => []LineInv
  BY LineInvInit, InOrderStep, ReportInvariant, PTL DEF ReportSpec
<1>4. QED
  BY <1>1, <1>2, <1>3, UnderwayStep, ReportInvariant, PTL DEF ReportSpec

(* What it takes to overrun the ring is a second thread: if only the main  *)
(* thread reports, nobody claims a line between its test and its claim.    *)
AloneInv ==
  /\ ~overrun
  /\ reporter[Main].pc \in {"test", "claim"} => reporter[Main].n = writeCount

THEOREM OneReporterNeverOverruns ==
  ASSUME Reporters = {Main}
  PROVE  ReportSpec => []~overrun
<1>1. ReportInit => AloneInv
  BY ReportAssumption DEF ReportInit, AloneInv, NotReporting
<1>2. ReportInv /\ AloneInv /\ [ReportNext]_reportVars => AloneInv'
  <2> SUFFICES ASSUME ReportInv, AloneInv, [ReportNext]_reportVars PROVE AloneInv'
    OBVIOUS
  <2>0. reporter \in [Reporters -> [pc : {"idle", "test", "claim", "fill"},
                                    n : -1 .. writeCount]]
    BY DEF ReportInv, ReportTypes
  <2>1. CASE LoadWriteCount(Main)
    BY <2>0, <2>1 DEF LoadWriteCount, AloneInv
  <2>2. CASE ThrowAway(Main) \/ TestOverflow(Main) \/ Commit(Main)
    BY <2>0, <2>2 DEF ThrowAway, TestOverflow, Commit, AloneInv, NotReporting
  <2>3. CASE Claim(Main)
    <3>1. writeCount + 1 <= readCount + MAX_BUF_LINES
      BY <2>3, ReportAssumption
      DEF Claim, AloneInv, ReportInv, ReportTypes, ClaimFits
    <3>2. ~(writeCount + 1 > readCount + MAX_BUF_LINES)
      BY <3>1, ReportAssumption DEF ReportInv, ReportTypes
    <3>3. QED BY <2>0, <2>3, <3>2 DEF Claim, AloneInv
  <2>4. CASE FlushReport \/ Finished \/ WriteReport \/ Release \/ UNCHANGED reportVars
    BY <2>4 DEF FlushReport, Finished, WriteReport, Release, reportVars, AloneInv
  <2>5. QED BY <2>1, <2>2, <2>3, <2>4 DEF ReportNext
<1>3. AloneInv => ~overrun
  BY DEF AloneInv
<1>4. QED BY <1>1, <1>2, <1>3, ReportInvariant, PTL DEF ReportSpec

-----------------------------------------------------------------------------
(* FirmwareCalls: the calls on their way, and the types they have.         *)

Sendings   == UNION {[S -> Values] : S \in SUBSET Oitds}
LockCall   == [by : Threads, op : {"lock"}, arg : Locks, awaited : BOOLEAN]
ValuesCall == [by : Threads, op : {"values"}, arg : Sendings, awaited : BOOLEAN]

CallTypes ==
  /\ TypeOK
  /\ calls \in Seq(LockCall \cup ValuesCall)
  /\ \A u \in Threads : /\ thread[u].op = "lock" => thread[u].arg \in Locks
                        /\ thread[u].op = "values" => thread[u].arg \in Sendings

Queued(op) == {i \in DOMAIN calls : calls[i].op = op}

(* A call whose answer is awaited is the one call its thread waits in.     *)
AwaitedCalls ==
  \A i \in DOMAIN calls : calls[i].awaited =>
    /\ thread[calls[i].by].pc = "waiting"
    /\ thread[calls[i].by].op = calls[i].op
    /\ thread[calls[i].by].arg = calls[i].arg
    /\ \A j \in DOMAIN calls : calls[j].awaited /\ calls[j].by = calls[i].by => j = i

\* u's call is of the kind op, and nothing has come between
SureOf(u, op) == thread[u].op = op /\ thread[u].sure

(* Of calls that overlap none is sure; a call that is sure is the last of  *)
(* its kind, and once it has been answered there is none on its way.       *)
SureLocks ==
  \A u \in Threads : SureOf(u, "lock") =>
    /\ \A w \in Threads : InLock(w) => w = u
    /\ \A i, j \in DOMAIN calls :
         calls[j].awaited /\ calls[j].by = u /\ calls[i].op = "lock" => i <= j
    /\ thread[u].pc \in {"ok", "error"} => Queued("lock") = {}
    /\ thread[u].pc = "ok" => fw.locks = thread[u].arg

(* A lock that counts as set is the one remembered, with no request under  *)
(* way.                                                                    *)
ToldIsOld == told # None => told = oldLocks /\ \A u \in Threads : ~InLock(u)

(* As long as nothing is unsure each request on its way is awaited, and    *)
(* the firmware has the locks remembered, or one of the threads that are   *)
(* not answered yet, or were granted theirs, has set others.               *)
NothingUnsure ==
  ~unsure =>
    /\ \A i \in Queued("lock") : calls[i].awaited
    /\ \/ fw.locks = oldLocks
       \/ \E u \in Threads :
            /\ InLock(u) /\ thread[u].pc \in {"waiting", "ok"}
            /\ \A i \in DOMAIN calls : calls[i].by = u => ~calls[i].awaited

LocksInv == AwaitedCalls /\ SureLocks /\ ToldIsOld /\ NothingUnsure

\* the variables of which a value is under way or lost
Sending == IF thread["main"].op = "values" THEN DOMAIN thread["main"].arg ELSE {}
Open    == missed \cup Sending

(* All other variables are shown; only open ones are in a call.            *)
Shown(o) == fw.shown[o] \in {subs[o]} \cup (IF subs[o] = -1 THEN {None} ELSE {})

ValuesInv ==
  /\ thread["main"].pc \in {"init", "idle"} => thread["main"].op = "none"
  /\ \A o \in DOMAIN subs \ Open : Shown(o)
  /\ \A i \in Queued("values") : DOMAIN calls[i].arg \subseteq Open
  /\ \A o \in Sending : o \in DOMAIN subs /\ thread["main"].arg[o] = subs[o]
  /\ SureOf("main", "values") =>
       /\ \A i, j \in DOMAIN calls :
            calls[j].awaited /\ calls[j].by = "main" /\ calls[i].op = "values"
              => i <= j
       /\ thread["main"].pc = "ok" =>
            /\ Queued("values") = {}
            /\ \A o \in Sending : fw.shown[o] = thread["main"].arg[o]

(* A record of a thread has its type when its fields do.                   *)
LEMMA CallingRecord ==
  ASSUME NEW pc \in {"init", "idle", "waiting", "ok", "error"},
         NEW op \in {"none", "lock", "events", "values"} \cup OtherOps,
         NEW arg \in {None} \cup Locks \cup Sendings, NEW sure \in BOOLEAN
  PROVE  [pc |-> pc, op |-> op, arg |-> arg, sure |-> sure] \in Calling
BY DEF Calling, Sendings

LEMMA CallingFields ==
  ASSUME NEW r \in Calling
  PROVE  /\ r = [pc |-> r.pc, op |-> r.op, arg |-> r.arg, sure |-> r.sure]
         /\ r.pc \in {"init", "idle", "waiting", "ok", "error"}
         /\ r.op \in {"none", "lock", "events", "values"} \cup OtherOps
         /\ r.arg \in {None} \cup Locks \cup Sendings
         /\ r.sure \in BOOLEAN
BY DEF Calling, Sendings

(* A thread that goes on in its call.                                      *)
LEMMA CallingGoesOn ==
  ASSUME NEW r \in Calling, NEW pc \in {"init", "idle", "waiting", "ok", "error"}
  PROVE  /\ [r EXCEPT !.pc = pc] \in Calling
         /\ [r EXCEPT !.pc = pc].op = r.op /\ [r EXCEPT !.pc = pc].arg = r.arg
         /\ [r EXCEPT !.pc = pc].sure = r.sure /\ [r EXCEPT !.pc = pc].pc = pc
BY DEF Calling

LEMMA IdleIsCalling == Idle \in Calling
BY CallingRecord DEF Idle

(* What a call does: it makes its thread wait, makes overlapping requests  *)
(* unsure, and puts at most itself behind the calls on their way.          *)
LEMMA CallEffect ==
  ASSUME TypeOK, NEW u \in Threads,
         NEW op \in {"lock", "events", "values"} \cup OtherOps,
         NEW arg \in {None} \cup Locks \cup Sendings, Call(u, op, arg)
  PROVE  /\ client' \in 0 .. 2
         /\ thread' \in [Threads -> Calling]
         /\ thread'[u].pc = "waiting" /\ thread'[u].op = op /\ thread'[u].arg = arg
         /\ thread'[u].sure => ~(op = "lock" /\ \E w \in Threads \ {u} : InLock(w))
         /\ \A w \in Threads \ {u} :
              /\ thread'[w].pc = thread[w].pc /\ thread'[w].op = thread[w].op
              /\ thread'[w].arg = thread[w].arg
              /\ thread'[w].sure => thread[w].sure /\ ~(op = "lock" /\ InLock(w))
         /\ \/ calls' = calls
            \/ /\ op \in Remembered /\ Len(calls) < MaxCalls
               /\ calls' = Append(calls, [by |-> u, op |-> op, arg |-> arg,
                                          awaited |-> TRUE])
<1> DEFINE overlap == op = "lock" /\ \E w \in Threads \ {u} : InLock(w)
<1>1. client' \in 0 .. 2
  BY DEF Call, Connected, TypeOK
<1>2. thread' = [w \in Threads |->
                   IF w = u THEN [pc |-> "waiting", op |-> op, arg |-> arg,
                                  sure |-> ~overlap]
                   ELSE [thread[w] EXCEPT !.sure = @ /\ ~(overlap /\ InLock(w))]]
  BY DEF Call
<1>3. \/ calls' = calls
      \/ /\ op \in Remembered /\ Len(calls) < MaxCalls
         /\ calls' = Append(calls, [by |-> u, op |-> op, arg |-> arg,
                                    awaited |-> TRUE])
  BY DEF Call
<1>4. overlap \in BOOLEAN /\ \A w \in Threads : InLock(w) \in BOOLEAN
  BY DEF InLock
<1> HIDE DEF overlap
<1>5. thread'[u] \in Calling /\ thread'[u].pc = "waiting" /\ thread'[u].op = op
      /\ thread'[u].arg = arg
  <2>1. thread'[u] = [pc |-> "waiting", op |-> op, arg |-> arg, sure |-> ~overlap]
    BY <1>2
  <2>2. [pc |-> "waiting", op |-> op, arg |-> arg, sure |-> ~overlap] \in Calling
    BY CallingRecord
  <2>3. QED BY <2>1, <2>2
<1>6. thread'[u].sure => ~overlap
  BY <1>2
<1>7. ASSUME NEW w \in Threads \ {u}
      PROVE  /\ thread'[w] \in Calling
             /\ thread'[w].pc = thread[w].pc /\ thread'[w].op = thread[w].op
             /\ thread'[w].arg = thread[w].arg
             /\ thread'[w].sure => thread[w].sure /\ ~(overlap /\ InLock(w))
  <2>1. thread[w] \in Calling
    BY DEF TypeOK
  <2> DEFINE sure == thread[w].sure /\ ~(overlap /\ InLock(w))
  <2>2. thread'[w] = [pc |-> thread[w].pc, op |-> thread[w].op,
                      arg |-> thread[w].arg, sure |-> sure]
    <3>1. thread'[w] = [thread[w] EXCEPT !.sure = @ /\ ~(overlap /\ InLock(w))]
      BY <1>2
    <3>2. QED BY <2>1, <3>1, CallingFields
  <2>3. sure \in BOOLEAN
    OBVIOUS
  <2> HIDE DEF sure
  <2>4. [pc |-> thread[w].pc, op |-> thread[w].op,
         arg |-> thread[w].arg, sure |-> sure] \in Calling
    BY <2>1, <2>3, CallingFields, CallingRecord
  <2>5. thread'[w].sure = sure
    BY <2>2
  <2>6. thread'[w].sure => thread[w].sure /\ ~(overlap /\ InLock(w))
    BY <2>5 DEF sure
  <2>7. /\ thread'[w].pc = thread[w].pc /\ thread'[w].op = thread[w].op
        /\ thread'[w].arg = thread[w].arg
    BY <2>2
  <2>8. QED BY <2>2, <2>4, <2>6, <2>7
<1>8. ASSUME NEW w \in Threads \ {u}, InLock(w), op = "lock" PROVE overlap
  BY <1>8 DEF overlap
<1>9. thread' \in [Threads -> Calling]
  BY <1>2, <1>5, <1>7
<1>10. \A w \in Threads \ {u} : thread'[w].sure =>
          thread[w].sure /\ ~(op = "lock" /\ InLock(w))
  BY <1>7, <1>8
<1>11. thread'[u].sure => ~(op = "lock" /\ \E w \in Threads \ {u} : InLock(w))
  BY <1>6 DEF overlap
<1>12. QED
  BY <1>1, <1>3, <1>5, <1>7, <1>9, <1>10, <1>11

(* What the return of a call does: its thread is idle, and none of its     *)
(* calls on their way is awaited any more.                                 *)
LEMMA ReturnsEffect ==
  ASSUME CallTypes, NEW u \in Threads, NEW ops, Returns(u, ops)
  PROVE  /\ thread' = [thread EXCEPT ![u] = Idle]
         /\ thread' \in [Threads -> Calling]
         /\ calls' \in Seq(LockCall \cup ValuesCall)
         /\ DOMAIN calls' = DOMAIN calls /\ Len(calls') = Len(calls)
         /\ \A i \in DOMAIN calls :
              /\ calls'[i].by = calls[i].by /\ calls'[i].op = calls[i].op
              /\ calls'[i].arg = calls[i].arg
              /\ calls'[i].awaited <=> calls[i].awaited /\ calls[i].by # u
<1>1. thread' = [thread EXCEPT ![u] = Idle]
  BY DEF Returns
<1>2. thread' \in [Threads -> Calling]
  BY <1>1, IdleIsCalling DEF CallTypes, TypeOK
<1>3. calls' = [i \in DOMAIN calls |->
                  [calls[i] EXCEPT !.awaited = @ /\ calls[i].by # u]]
  BY DEF Returns
<1>4. /\ Len(calls) \in Nat /\ DOMAIN calls = 1 .. Len(calls)
      /\ \A i \in DOMAIN calls : calls[i] \in LockCall \cup ValuesCall
  BY DEF CallTypes
<1>5. ASSUME NEW i \in DOMAIN calls
      PROVE  /\ calls'[i] \in LockCall \cup ValuesCall
             /\ calls'[i].by = calls[i].by /\ calls'[i].op = calls[i].op
             /\ calls'[i].arg = calls[i].arg
             /\ calls'[i].awaited <=> calls[i].awaited /\ calls[i].by # u
  <2> DEFINE still == calls[i].awaited /\ calls[i].by # u
  <2>1. calls[i] \in LockCall \cup ValuesCall
    BY <1>4
  <2>2. calls[i] = [by |-> calls[i].by, op |-> calls[i].op, arg |-> calls[i].arg,
                    awaited |-> calls[i].awaited]
    BY <2>1 DEF LockCall, ValuesCall
  <2>3. calls'[i] = [by |-> calls[i].by, op |-> calls[i].op, arg |-> calls[i].arg,
                     awaited |-> still]
    BY <1>3, <2>2
  <2>4. still \in BOOLEAN
    OBVIOUS
  <2> HIDE DEF still
  <2>5. \/ calls[i].by \in Threads /\ calls[i].op = "lock" /\ calls[i].arg \in Locks
        \/ calls[i].by \in Threads /\ calls[i].op = "values" /\ calls[i].arg \in Sendings
    BY <2>1 DEF LockCall, ValuesCall
  <2>6. calls'[i] \in LockCall \cup ValuesCall
    BY <2>3, <2>4, <2>5 DEF LockCall, ValuesCall
  <2>7. calls'[i].awaited = still
    BY <2>3
  <2>8. calls'[i].awaited <=> calls[i].awaited /\ calls[i].by # u
    BY <2>7 DEF still
  <2>9. calls'[i].by = calls[i].by /\ calls'[i].op = calls[i].op
        /\ calls'[i].arg = calls[i].arg
    BY <2>3
  <2>10. QED BY <2>6, <2>8, <2>9
<1>6. calls' \in [1 .. Len(calls) -> LockCall \cup ValuesCall]
  BY <1>3, <1>4, <1>5
<1>7. calls' \in Seq(LockCall \cup ValuesCall) /\ Len(calls') = Len(calls)
  BY <1>4, <1>6
<1>8. QED BY <1>1, <1>2, <1>3, <1>5, <1>7

\* the types a call and its return are about
CallingTypes ==
  /\ client \in 0 .. 2
  /\ thread \in [Threads -> Calling]
  /\ calls \in Seq(LockCall \cup ValuesCall)
  /\ Len(calls) <= MaxCalls
  /\ \A u \in Threads : /\ thread[u].op = "lock" => thread[u].arg \in Locks
                        /\ thread[u].op = "values" => thread[u].arg \in Sendings

LEMMA CallKeepsTypes ==
  ASSUME CallTypes, NEW u \in Threads,
         NEW op \in {"lock", "events", "values"} \cup OtherOps,
         NEW arg \in {None} \cup Locks \cup Sendings, Call(u, op, arg),
         op = "lock" => arg \in Locks, op = "values" => arg \in Sendings
  PROVE  CallingTypes'
<1>1. TypeOK /\ calls \in Seq(LockCall \cup ValuesCall)
  BY DEF CallTypes
<1>2. /\ client' \in 0 .. 2
      /\ thread' \in [Threads -> Calling]
      /\ thread'[u].op = op /\ thread'[u].arg = arg
      /\ \A w \in Threads \ {u} :
           thread'[w].op = thread[w].op /\ thread'[w].arg = thread[w].arg
      /\ \/ calls' = calls
         \/ /\ op \in Remembered /\ Len(calls) < MaxCalls
            /\ calls' = Append(calls, [by |-> u, op |-> op, arg |-> arg,
                                       awaited |-> TRUE])
  BY <1>1, CallEffect
<1>3. \A w \in Threads : /\ thread'[w].op = "lock" => thread'[w].arg \in Locks
                         /\ thread'[w].op = "values" => thread'[w].arg \in Sendings
  BY <1>2 DEF CallTypes
<1>4. calls' \in Seq(LockCall \cup ValuesCall) /\ Len(calls') <= MaxCalls
  <2>1. CASE calls' = calls
    BY <1>1, <2>1 DEF TypeOK
  <2>2. ASSUME op \in Remembered, Len(calls) < MaxCalls,
               calls' = Append(calls, [by |-> u, op |-> op, arg |-> arg,
                                       awaited |-> TRUE])
        PROVE  calls' \in Seq(LockCall \cup ValuesCall) /\ Len(calls') <= MaxCalls
    <3> DEFINE c == [by |-> u, op |-> op, arg |-> arg, awaited |-> TRUE]
               C == LockCall \cup ValuesCall
    <3>1. c \in C
      <4>1. CASE op = "lock"
        BY <4>1 DEF LockCall
      <4>2. CASE op = "values"
        BY <4>2 DEF ValuesCall
      <4>3. QED BY <2>2, <4>1, <4>2 DEF Remembered
    <3>2. calls \in Seq(C) /\ calls' = Append(calls, c) /\ Len(calls) < MaxCalls
          /\ MaxCalls \in Nat
      BY <1>1, <2>2, CallsAssumption
    <3> HIDE DEF c, C
    <3>3. calls' \in Seq(C) /\ Len(calls') = Len(calls) + 1 /\ Len(calls) \in Nat
      BY <3>1, <3>2
    <3>4. QED BY <3>2, <3>3 DEF C
  <2>3. QED BY <1>2, <2>1, <2>2
<1>5. QED BY <1>2, <1>3, <1>4 DEF CallingTypes

LEMMA ReturnsKeepsTypes ==
  ASSUME CallTypes, NEW u \in Threads, NEW ops, Returns(u, ops), client' \in 0 .. 2
  PROVE  CallingTypes'
<1>1. /\ thread' = [thread EXCEPT ![u] = Idle] /\ thread' \in [Threads -> Calling]
      /\ calls' \in Seq(LockCall \cup ValuesCall) /\ Len(calls') = Len(calls)
  BY ReturnsEffect
<1>2. \A w \in Threads : /\ thread'[w].op = "lock" => thread'[w].arg \in Locks
                         /\ thread'[w].op = "values" => thread'[w].arg \in Sendings
  BY <1>1 DEF CallTypes, TypeOK, Idle
<1>3. Len(calls') <= MaxCalls
  BY <1>1 DEF CallTypes, TypeOK
<1>4. QED BY <1>1, <1>2, <1>3 DEF CallingTypes

LEMMA CallTypesInit == Init => CallTypes
<1> SUFFICES ASSUME Init PROVE CallTypes
  OBVIOUS
<1>1. thread \in [Threads -> Calling]
  <2>1. [Idle EXCEPT !.pc = "init"] \in Calling
    BY IdleIsCalling, CallingGoesOn
  <2>2. QED BY <2>1, IdleIsCalling DEF Init
<1>2. \A u \in Threads : thread[u].op = "none"
  BY DEF Init, Idle
<1>3. calls = << >> /\ Len(calls) = 0 /\ calls \in Seq(LockCall \cup ValuesCall)
  BY DEF Init
<1>4. fw \in [up : BOOLEAN, port : 1 .. 2, restarts : 0 .. MaxRestarts,
              provider : BOOLEAN, locks : {None} \cup Locks,
              shown : [Oitds -> {None} \cup Values]]
  <2>1. /\ 1 \in 1 .. 2 /\ 0 \in 0 .. MaxRestarts
        /\ [Oitds -> {None}] \subseteq [Oitds -> {None} \cup Values]
    BY CallsAssumption
  <2>2. QED BY <2>1 DEF Init
<1>5. DOMAIN subs = {}
  BY DEF Init
<1>6. Len(calls) <= MaxCalls
  BY <1>3, CallsAssumption
<1>7. /\ client \in 0 .. 2 /\ missed \subseteq Oitds /\ DOMAIN subs \subseteq Oitds
      /\ \A o \in DOMAIN subs : subs[o] \in Values
      /\ oldLocks \in {None} \cup Locks /\ told \in {None} \cup Locks
  BY <1>5 DEF Init
<1>8. sending \in BOOLEAN /\ undefined \in BOOLEAN /\ unsure \in BOOLEAN
  BY DEF Init
<1>9. TypeOK
  BY <1>1, <1>4, <1>6, <1>7, <1>8 DEF TypeOK
<1>10. QED BY <1>2, <1>3, <1>9 DEF CallTypes

LEMMA DisconnectTypes ==
  ASSUME TypeOK, NEW u \in Threads, NEW lost, Disconnect(u, lost)
  PROVE  client' \in 0 .. 2 /\ undefined' \in BOOLEAN
<1>1. CASE lost /\ thread[u].op \in Destroying
  <2>1. client' = 0 /\ undefined' = (\E w \in Threads \ {u} : thread[w].pc = "waiting")
    BY <1>1 DEF Disconnect
  <2>2. (\E w \in Threads \ {u} : thread[w].pc = "waiting") \in BOOLEAN
    OBVIOUS
  <2>3. undefined' \in BOOLEAN
    BY <2>1, <2>2
  <2>4. QED BY <2>1, <2>3
<1>2. CASE ~(lost /\ thread[u].op \in Destroying)
  BY <1>2 DEF Disconnect, TypeOK
<1>3. QED BY <1>1, <1>2

(* The values sent are those of the variables that have changed.           *)
LEMMA SentIsSending ==
  ASSUME NEW S \in SUBSET Oitds, NEW value \in [S -> Values], DOMAIN value = DOMAIN subs
  PROVE  Restrict(value, {o \in DOMAIN subs : value[o] # subs[o]}) \in Sendings
<1> DEFINE changed == {o \in DOMAIN subs : value[o] # subs[o]}
<1>1. Restrict(value, changed) \in [changed -> Values]
  BY DEF Restrict
<1>2. changed \in SUBSET Oitds
  OBVIOUS
<1> HIDE DEF changed
<1>3. Restrict(value, changed) \in Sendings
  BY <1>1, <1>2 DEF Sendings
<1>4. QED BY <1>3 DEF changed

LEMMA CallTypesStep == CallTypes /\ [Next]_vars => CallTypes'
<1> SUFFICES ASSUME CallTypes, [Next]_vars PROVE CallTypes'
  OBVIOUS
<1>1. TypeOK /\ CallingTypes
  BY DEF CallTypes, TypeOK, CallingTypes
<1> DEFINE FwType == fw \in [up : BOOLEAN, port : 1 .. 2, restarts : 0 .. MaxRestarts,
                             provider : BOOLEAN, locks : {None} \cup Locks,
                             shown : [Oitds -> {None} \cup Values]]
           Others5 == /\ sending \in BOOLEAN /\ oldLocks \in {None} \cup Locks
                      /\ DOMAIN subs \subseteq Oitds
                      /\ \A o \in DOMAIN subs : subs[o] \in Values
                      /\ undefined \in BOOLEAN /\ told \in {None} \cup Locks
                      /\ unsure \in BOOLEAN /\ missed \subseteq Oitds
<1>2. FwType /\ Others5
  BY <1>1 DEF TypeOK
<1>3. ASSUME CallingTypes', FwType', Others5' PROVE CallTypes'
  BY <1>3 DEF CallTypes, TypeOK, CallingTypes
<1>4. fw' = fw => FwType'
  BY <1>2
<1> HIDE DEF FwType
<1>5. ASSUME NEW u \in Threads, OtherReturns(u) PROVE CallTypes'
  <2>1. client' \in 0 .. 2 /\ undefined' \in BOOLEAN
    BY <1>1, <1>5, DisconnectTypes DEF OtherReturns
  <2>2. CallingTypes'
    BY <1>5, <2>1, ReturnsKeepsTypes DEF OtherReturns
  <2>3. QED BY <1>2, <1>3, <1>4, <1>5, <2>1, <2>2 DEF OtherReturns
<1>6. ASSUME NEW u \in Threads, LockReturns(u) PROVE CallTypes'
  <2>1. thread[u].op = "lock" /\ thread[u].arg \in Locks /\ thread[u].sure \in BOOLEAN
    BY <1>1, <1>6, CallingFields DEF LockReturns, Returns, CallTypes, TypeOK
  <2>2. CallingTypes'
    BY <1>1, <1>6, ReturnsKeepsTypes DEF LockReturns, TypeOK
  <2>3. unsure' \in BOOLEAN
    BY <1>2, <1>6, <2>1 DEF LockReturns
  <2>4. oldLocks' \in {None} \cup Locks /\ told' \in {None} \cup Locks
    BY <1>2, <1>6, <2>1 DEF LockReturns
  <2>5. QED BY <1>2, <1>3, <1>4, <1>6, <2>2, <2>3, <2>4 DEF LockReturns
<1>7. ASSUME NEW u \in Threads, NEW l \in Locks, tacSetLockSwitchOff(u, l)
      PROVE  CallTypes'
  <2>1. CallingTypes'
    <3>1. CASE l = oldLocks
      <4>1. client' \in 0 .. 2 /\ UNCHANGED <<thread, calls>>
        BY <1>1, <1>7, <3>1 DEF tacSetLockSwitchOff, Connected, TypeOK
      <4>2. QED BY <1>1, <4>1 DEF CallingTypes
    <3>2. CASE l # oldLocks
      BY <1>7, <3>2, CallKeepsTypes DEF tacSetLockSwitchOff
    <3>3. QED BY <3>1, <3>2
  <2>2. told' \in {None} \cup Locks
    BY <1>7 DEF tacSetLockSwitchOff
  <2>3. UNCHANGED <<sending, fw, oldLocks, subs, undefined, missed, unsure>>
    BY <1>7 DEF tacSetLockSwitchOff
  <2>4. QED BY <1>2, <1>3, <1>4, <2>1, <2>2, <2>3
<1>8. ASSUME NEW u \in Threads, NEW op \in OtherOps, OtherCall(u, op) PROVE CallTypes'
  <2>1. CallingTypes'
    BY <1>8, CallKeepsTypes DEF OtherCall, OtherOps
  <2>2. QED BY <1>2, <1>3, <1>4, <1>8, <2>1 DEF OtherCall
<1>9. CASE SendEvents
  <2>1. CallingTypes'
    BY <1>9, CallKeepsTypes DEF SendEvents, Threads
  <2>2. QED BY <1>2, <1>3, <1>4, <1>9, <2>1 DEF SendEvents
<1>10. CASE SkipEvents
  <2>1. client' = client \/ (fw.up /\ client' = fw.port)
    BY <1>10 DEF SkipEvents, Connected, NotConnected
  <2>2. client' \in 0 .. 2
    BY <1>1, <2>1 DEF TypeOK
  <2>3. CallingTypes'
    BY <1>1, <1>10, <2>2 DEF SkipEvents, CallingTypes
  <2>4. QED BY <1>2, <1>3, <1>4, <1>10, <2>3 DEF SkipEvents
<1>11. CASE ValuesReturn
  <2>1. "main" \in Threads
    BY DEF Threads
  <2>2. client' \in 0 .. 2 /\ undefined' \in BOOLEAN
    BY <1>1, <1>11, <2>1, DisconnectTypes DEF ValuesReturn
  <2>3. CallingTypes'
    BY <1>11, <2>1, <2>2, ReturnsKeepsTypes DEF ValuesReturn
  <2>4. DOMAIN thread["main"].arg \subseteq Oitds
    BY <1>11, <2>1 DEF ValuesReturn, Returns, CallTypes, Sendings
  <2>5. missed' \subseteq Oitds
    BY <1>2, <1>11, <2>4 DEF ValuesReturn
  <2>6. QED BY <1>2, <1>3, <1>4, <1>11, <2>2, <2>3, <2>5 DEF ValuesReturn
<1>12. ASSUME NEW S \in SUBSET Oitds, NEW value \in [S -> Values], SendValues(value)
       PROVE  CallTypes'
  <2> DEFINE changed == {o \in DOMAIN subs : value[o] # subs[o]}
  <2>1. /\ DOMAIN value = S /\ DOMAIN subs = S /\ subs' = value
        /\ "main" \in Threads /\ changed \subseteq Oitds
    BY <1>12 DEF SendValues, Threads
  <2>2. Restrict(value, changed) \in Sendings
    BY <2>1, SentIsSending
  <2>3. CallingTypes'
    <3>1. CASE Call("main", "values", Restrict(value, changed))
      BY <2>1, <2>2, <3>1, CallKeepsTypes
    <3>2. CASE UNCHANGED <<client, thread, calls>>
      BY <1>1, <3>2 DEF CallingTypes
    <3>3. QED BY <1>12, <3>1, <3>2 DEF SendValues, NotConnected
  <2>4. sending' \in BOOLEAN /\ missed' \subseteq Oitds
    BY <1>2, <1>12, <2>1 DEF SendValues
  <2>5. DOMAIN subs' \subseteq Oitds /\ \A o \in DOMAIN subs' : subs'[o] \in Values
    BY <2>1
  <2>6. UNCHANGED <<fw, oldLocks, undefined, told, unsure>>
    BY <1>12 DEF SendValues
  <2>7. QED BY <1>2, <1>3, <1>4, <2>3, <2>4, <2>5, <2>6
<1>13. CASE Execute
  <2> DEFINE c == Head(calls)
  <2>1. c \in LockCall \cup ValuesCall
    BY <1>1, <1>13 DEF Execute, CallingTypes
  <2>2. calls' \in Seq(LockCall \cup ValuesCall) /\ Len(calls') <= MaxCalls
    BY <1>1, <1>13, CallsAssumption DEF Execute, CallingTypes
  <2>3. /\ thread' \in [Threads -> Calling]
        /\ \A w \in Threads : thread'[w].op = thread[w].op /\ thread'[w].arg = thread[w].arg
    <3>1. CASE thread' = thread
      BY <1>1, <3>1 DEF CallingTypes
    <3>2. ASSUME NEW pc \in {"ok", "error"}, thread' = [thread EXCEPT ![c.by].pc = pc]
          PROVE  /\ thread' \in [Threads -> Calling]
                 /\ \A w \in Threads : /\ thread'[w].op = thread[w].op
                                       /\ thread'[w].arg = thread[w].arg
      <4>1. c.by \in Threads /\ thread[c.by] \in Calling
        BY <1>1, <2>1 DEF CallingTypes, LockCall, ValuesCall
      <4> DEFINE r == [thread[c.by] EXCEPT !.pc = pc]
      <4>2. r \in Calling /\ r.op = thread[c.by].op /\ r.arg = thread[c.by].arg
        <5>1. pc \in {"init", "idle", "waiting", "ok", "error"}
          OBVIOUS
        <5>2. QED BY <4>1, <5>1, CallingGoesOn
      <4>3. thread' = [thread EXCEPT ![c.by] = r]
        BY <3>2
      <4> HIDE DEF r, c
      <4>4. QED BY <1>1, <4>1, <4>2, <4>3 DEF CallingTypes
    <3>3. QED BY <1>13, <3>1, <3>2 DEF Execute
  <2>4. CallingTypes'
    BY <1>1, <1>13, <2>2, <2>3 DEF Execute, CallingTypes
  <2>5. FwType'
    <3>1. fw' = fw \/ fw' = Granted(c)
      BY <1>13 DEF Execute
    <3>2. c.op = "lock" => Granted(c) = [fw EXCEPT !.locks = c.arg] /\ c.arg \in Locks
      BY <2>1 DEF Granted, LockCall, ValuesCall
    <3>3. ASSUME c.op # "lock", fw' = Granted(c) PROVE FwType'
      <4> DEFINE shown == [o \in Oitds |-> IF o \in DOMAIN c.arg THEN c.arg[o]
                                           ELSE fw.shown[o]]
      <4>1. fw' = [fw EXCEPT !.shown = shown]
        BY <3>3 DEF Granted
      <4>2. c.arg \in Sendings
        BY <2>1, <3>3 DEF LockCall, ValuesCall
      <4>3. \A o \in DOMAIN c.arg : c.arg[o] \in Values
        BY <4>2 DEF Sendings
      <4>4. shown \in [Oitds -> {None} \cup Values]
        BY <1>2, <4>3 DEF FwType
      <4> HIDE DEF shown, c
      <4>5. QED BY <1>2, <4>1, <4>4 DEF FwType
    <3> HIDE DEF c
    <3>4. c.op = "lock" /\ fw' = Granted(c) => FwType'
      BY <1>2, <3>2 DEF FwType
    <3>5. QED BY <1>4, <3>1, <3>3, <3>4
  <2>6. UNCHANGED <<sending, oldLocks, subs, undefined, told, unsure, missed>>
    BY <1>13 DEF Execute
  <2>7. QED BY <1>2, <1>3, <2>4, <2>5, <2>6
<1>14. CASE registerAtCctrl
  <2>1. CallingTypes'
    BY <1>1, <1>14, IdleIsCalling DEF registerAtCctrl, CallingTypes, Idle
  <2>2. FwType'
    <3>1. PICK done \in BOOLEAN : fw' = [fw EXCEPT !.provider = done /\ fw.up]
      BY <1>14 DEF registerAtCctrl
    <3> DEFINE registered == done /\ fw.up
    <3>2. registered \in BOOLEAN
      OBVIOUS
    <3>3. fw' = [fw EXCEPT !.provider = registered]
      BY <3>1
    <3> HIDE DEF registered
    <3>4. QED BY <1>2, <3>2, <3>3 DEF FwType
  <2>3. QED BY <1>2, <1>3, <1>14, <2>1, <2>2 DEF registerAtCctrl
<1>15. ASSUME NEW oitds \in OitdSets, subscribedevicevariables_8_svc(oitds)
       PROVE  CallTypes'
  <2>1. CallingTypes' /\ UNCHANGED <<sending, oldLocks, undefined, told, unsure>>
    BY <1>1, <1>15 DEF subscribedevicevariables_8_svc, CallingTypes
  <2>2. DOMAIN subs' \subseteq Oitds /\ \A o \in DOMAIN subs' : subs'[o] \in Values
    BY <1>2, <1>15, CallsAssumption DEF subscribedevicevariables_8_svc, subscribe
  <2>3. missed' \subseteq Oitds
    BY <1>2, <1>15 DEF subscribedevicevariables_8_svc
  <2>4. FwType'
    <3> DEFINE shown == [o \in Oitds |-> IF o \in oitds THEN None ELSE fw.shown[o]]
    <3>1. fw' = [fw EXCEPT !.shown = shown]
      BY <1>15 DEF subscribedevicevariables_8_svc
    <3>2. shown \in [Oitds -> {None} \cup Values]
      BY <1>2 DEF FwType
    <3> HIDE DEF shown
    <3>3. QED BY <1>2, <3>1, <3>2 DEF FwType
  <2>5. QED BY <1>2, <1>3, <2>1, <2>2, <2>3, <2>4
<1>16. ASSUME NEW oitds \in OitdSets, unsubscribedevicevariables_8_svc(oitds)
       PROVE  CallTypes'
  <2>1. CallingTypes' /\ UNCHANGED <<sending, fw, oldLocks, undefined, told, unsure, missed>>
    BY <1>1, <1>16 DEF unsubscribedevicevariables_8_svc, CallingTypes
  <2>2. DOMAIN subs' \subseteq Oitds /\ \A o \in DOMAIN subs' : subs'[o] \in Values
    BY <1>2, <1>16 DEF unsubscribedevicevariables_8_svc, Restrict
  <2>3. QED BY <1>2, <1>3, <1>4, <2>1, <2>2
<1>17. CASE Restart
  <2>1. CallingTypes'
    <3>1. thread' = [u \in Threads |-> [thread[u] EXCEPT !.sure =
                                          thread[u].op \notin {"lock", "values"}]]
          /\ calls' = << >> /\ client' = client
      BY <1>17 DEF Restart
    <3>2. ASSUME NEW u \in Threads
          PROVE  /\ thread'[u] \in Calling /\ thread'[u].op = thread[u].op
                 /\ thread'[u].arg = thread[u].arg
      <4> DEFINE sure == thread[u].op \notin {"lock", "values"}
      <4>1. sure \in BOOLEAN
        OBVIOUS
      <4>2. thread'[u] = [thread[u] EXCEPT !.sure = sure] /\ thread[u] \in Calling
        BY <1>1, <3>1 DEF TypeOK
      <4> HIDE DEF sure
      <4>3. QED BY <4>1, <4>2 DEF Calling
    <3>3. calls' \in Seq(LockCall \cup ValuesCall) /\ Len(calls') <= MaxCalls
      BY <3>1, CallsAssumption
    <3>4. QED BY <1>1, <3>1, <3>2, <3>3 DEF CallingTypes
  <2>2. FwType'
    <3>1. PICK port \in {fw.port, 3 - fw.port}, kept \in BOOLEAN :
             fw' = [up |-> FALSE, port |-> port, restarts |-> fw.restarts + 1,
                    provider |-> fw.provider /\ kept,
                    locks |-> None, shown |-> [o \in Oitds |-> None]]
      BY <1>17 DEF Restart
    <3> DEFINE registered == fw.provider /\ kept
    <3>2. registered \in BOOLEAN
      OBVIOUS
    <3>3. port \in 1 .. 2 /\ fw.restarts + 1 \in 0 .. MaxRestarts
      BY <1>2, <1>17, CallsAssumption DEF Restart, FwType
    <3>4. fw' = [up |-> FALSE, port |-> port, restarts |-> fw.restarts + 1,
                 provider |-> registered,
                 locks |-> None, shown |-> [o \in Oitds |-> None]]
      BY <3>1
    <3> HIDE DEF registered
    <3>5. QED BY <3>2, <3>3, <3>4 DEF FwType
  <2>3. UNCHANGED <<sending, oldLocks, subs, undefined>> /\ told' = None
        /\ unsure' \in BOOLEAN /\ missed' = DOMAIN subs
    BY <1>17 DEF Restart
  <2>4. QED BY <1>2, <1>3, <2>1, <2>2, <2>3
<1>18. CASE BackUp
  <2>1. CallingTypes' /\ fw' = [fw EXCEPT !.up = TRUE]
        /\ UNCHANGED <<sending, oldLocks, subs, undefined, told, unsure, missed>>
    BY <1>1, <1>18 DEF BackUp, CallingTypes
  <2>2. FwType'
    BY <1>2, <2>1 DEF FwType
  <2>3. QED BY <1>2, <1>3, <2>1, <2>2
<1>19. CASE UNCHANGED vars
  BY <1>1, <1>2, <1>3, <1>4, <1>19 DEF vars, CallingTypes
<1>20. QED
  BY <1>5, <1>6, <1>7, <1>8, <1>9, <1>10, <1>11, <1>12, <1>13, <1>14, <1>15, <1>16,
     <1>17, <1>18, <1>19 DEF Next

(* The types of what the threads share, and of what is remembered, for any *)
(* threads, locks and values (awpWrapper.cpp).                             *)
THEOREM CallsTypeCorrect == Spec => []TypeOK
BY CallTypesInit, CallTypesStep, PTL DEF Spec, CallTypes

-----------------------------------------------------------------------------
(* The locks.  First what the effects say of the calls on their way.       *)

\* one more call at the end, or none
Behind(c) ==
  /\ \A i \in DOMAIN calls : i \in DOMAIN calls' /\ calls'[i] = calls[i]
  /\ \A i \in DOMAIN calls' \ DOMAIN calls :
       calls'[i] = c /\ \A j \in DOMAIN calls' : j <= i

LEMMA AppendedBehind ==
  ASSUME CallTypes, NEW c, calls' = calls \/ calls' = Append(calls, c)
  PROVE  Behind(c)
<1>1. Len(calls) \in Nat /\ DOMAIN calls = 1 .. Len(calls)
  BY DEF CallTypes
<1>2. CASE calls' = calls
  BY <1>2 DEF Behind
<1>3. CASE calls' = Append(calls, c)
  <2> DEFINE C == LockCall \cup ValuesCall
  <2>1. calls \in Seq(C)
    BY DEF CallTypes
  <2> HIDE DEF C
  <2>2. /\ DOMAIN calls' = 1 .. Len(calls) + 1
        /\ \A i \in 1 .. Len(calls) : calls'[i] = calls[i]
        /\ calls'[Len(calls) + 1] = c
    BY <1>3, <2>1
  <2>3. QED BY <1>1, <2>2 DEF Behind
<1>4. QED BY <1>2, <1>3

LEMMA AwaitedAfterCall ==
  ASSUME CallTypes, AwaitedCalls, NEW u \in Threads, thread[u].pc = "idle",
         NEW op \in {"lock", "events", "values"} \cup OtherOps,
         NEW arg \in {None} \cup Locks \cup Sendings, Call(u, op, arg)
  PROVE  AwaitedCalls'
<1> DEFINE c == [by |-> u, op |-> op, arg |-> arg, awaited |-> TRUE]
<1>1. /\ thread'[u].pc = "waiting" /\ thread'[u].op = op /\ thread'[u].arg = arg
      /\ \A w \in Threads \ {u} :
           /\ thread'[w].pc = thread[w].pc /\ thread'[w].op = thread[w].op
           /\ thread'[w].arg = thread[w].arg
      /\ calls' = calls \/ calls' = Append(calls, c)
  BY CallEffect DEF CallTypes
<1>2. Behind(c) /\ c.by = u /\ c.op = op /\ c.arg = arg
  BY <1>1, AppendedBehind
<1>3. \A i \in DOMAIN calls : calls[i].by \in Threads
  BY DEF CallTypes, LockCall, ValuesCall
<1> HIDE DEF c
<1>4. ASSUME NEW i \in DOMAIN calls', calls'[i].awaited
      PROVE  /\ thread'[calls'[i].by].pc = "waiting"
             /\ thread'[calls'[i].by].op = calls'[i].op
             /\ thread'[calls'[i].by].arg = calls'[i].arg
             /\ \A j \in DOMAIN calls' :
                  calls'[j].awaited /\ calls'[j].by = calls'[i].by => j = i
  <2>1. CASE i \in DOMAIN calls
    <3>1. calls'[i] = calls[i] /\ calls[i].by \in Threads \ {u}
      BY <1>2, <1>3, <1>4, <2>1 DEF Behind, AwaitedCalls
    <3>2. ASSUME NEW j \in DOMAIN calls', calls'[j].awaited, calls'[j].by = calls'[i].by
          PROVE  j = i
      <4>1. j \in DOMAIN calls /\ calls'[j] = calls[j]
        BY <1>2, <3>1, <3>2 DEF Behind
      <4>2. QED BY <1>4, <2>1, <3>1, <3>2, <4>1 DEF AwaitedCalls
    <3>3. QED BY <1>1, <1>4, <2>1, <3>1, <3>2 DEF AwaitedCalls
  <2>2. CASE i \notin DOMAIN calls
    <3>1. calls'[i] = c
      BY <1>2, <2>2 DEF Behind
    <3>2. ASSUME NEW j \in DOMAIN calls', calls'[j].awaited, calls'[j].by = u
          PROVE  j = i
      <4>1. j \notin DOMAIN calls
        BY <1>2, <3>2 DEF Behind, AwaitedCalls
      <4>2. i <= j /\ j <= i
        BY <1>2, <2>2, <4>1 DEF Behind
      <4>3. i \in Int /\ j \in Int
        <5>1. calls' \in Seq(LockCall \cup ValuesCall) \/ calls' = Append(calls, c)
          BY <1>1 DEF CallTypes
        <5>2. calls \in Seq(LockCall \cup ValuesCall)
          BY DEF CallTypes
        <5> HIDE DEF LockCall, ValuesCall
        <5>3. DOMAIN calls' = 1 .. Len(calls')
          BY <5>1, <5>2
        <5>4. QED BY <5>3
      <4>4. QED BY <4>2, <4>3
    <3>3. QED BY <1>1, <1>2, <3>1, <3>2
  <2>3. QED BY <2>1, <2>2
<1>5. QED BY <1>4 DEF AwaitedCalls

LEMMA LocksAfterCall ==
  ASSUME CallTypes, LocksInv, NEW u \in Threads, thread[u].pc = "idle",
         NEW op \in {"lock", "events", "values"} \cup OtherOps,
         NEW arg \in {None} \cup Locks \cup Sendings, Call(u, op, arg),
         UNCHANGED <<fw, oldLocks, unsure>>,
         told' = IF op = "lock" THEN None ELSE told
  PROVE  LocksInv'
<1> DEFINE c == [by |-> u, op |-> op, arg |-> arg, awaited |-> TRUE]
<1>1. /\ thread'[u].pc = "waiting" /\ thread'[u].op = op /\ thread'[u].arg = arg
      /\ thread'[u].sure => ~(op = "lock" /\ \E w \in Threads \ {u} : InLock(w))
      /\ \A w \in Threads \ {u} :
           /\ thread'[w].pc = thread[w].pc /\ thread'[w].op = thread[w].op
           /\ thread'[w].arg = thread[w].arg
           /\ thread'[w].sure => thread[w].sure /\ ~(op = "lock" /\ InLock(w))
      /\ calls' = calls \/ calls' = Append(calls, c)
  BY CallEffect DEF CallTypes
<1>2. Behind(c) /\ c.by = u /\ c.op = op /\ c.awaited
  BY <1>1, AppendedBehind
<1>3. AwaitedCalls'
  BY AwaitedAfterCall DEF LocksInv
<1>4. AwaitedCalls /\ SureLocks /\ ToldIsOld /\ NothingUnsure
  BY DEF LocksInv
<1> HIDE DEF c
<1>5. \A w \in Threads \ {u} : InLock(w)' <=> InLock(w)
  BY <1>1 DEF InLock
<1>6. ASSUME NEW v \in Threads, SureOf(v, "lock")'
      PROVE  /\ \A w \in Threads : InLock(w)' => w = v
             /\ \A i, j \in DOMAIN calls' :
                  calls'[j].awaited /\ calls'[j].by = v /\ calls'[i].op = "lock" => i <= j
             /\ thread'[v].pc \in {"ok", "error"} => Queued("lock")' = {}
             /\ thread'[v].pc = "ok" => fw'.locks = thread'[v].arg
  <2>1. CASE v = u
    <3>1. op = "lock" /\ \A w \in Threads \ {u} : ~InLock(w)
      BY <1>1, <1>6, <2>1 DEF SureOf
    <3>2. \A w \in Threads : InLock(w)' => w = v
      BY <1>5, <2>1, <3>1
    <3>3. ASSUME NEW i \in DOMAIN calls', NEW j \in DOMAIN calls',
                 calls'[j].awaited, calls'[j].by = v
          PROVE  i <= j
      <4>1. j \notin DOMAIN calls
        BY <1>2, <1>4, <2>1, <3>3 DEF Behind, AwaitedCalls
      <4>2. QED BY <1>2, <4>1 DEF Behind
    <3>4. QED BY <1>1, <2>1, <3>2, <3>3
  <2>2. CASE v # u
    <3>1. SureOf(v, "lock") /\ InLock(v) /\ op # "lock"
      BY <1>1, <1>6, <2>2 DEF SureOf, InLock
    <3>2. \A w \in Threads : InLock(w)' => w = v
      BY <1>1, <1>4, <1>5, <3>1 DEF SureLocks, InLock
    <3>3. \A i \in DOMAIN calls' : calls'[i].op = "lock" =>
             i \in DOMAIN calls /\ calls'[i] = calls[i]
      BY <1>2, <3>1 DEF Behind
    <3>4. \A j \in DOMAIN calls' : calls'[j].by = v =>
             j \in DOMAIN calls /\ calls'[j] = calls[j]
      BY <1>2, <2>2 DEF Behind
    <3>5. QED BY <1>1, <1>4, <2>2, <3>1, <3>2, <3>3, <3>4 DEF SureLocks, Queued
  <2>3. QED BY <2>1, <2>2
<1>7. SureLocks'
  BY <1>6 DEF SureLocks
<1>8. ToldIsOld'
  <2>1. CASE op = "lock"
    BY <2>1 DEF ToldIsOld
  <2>2. CASE op # "lock"
    <3>1. \A w \in Threads : InLock(w)' => InLock(w)
      BY <1>1, <1>5, <2>2 DEF InLock
    <3>2. told' = told /\ oldLocks' = oldLocks
      BY <2>2
    <3>3. QED BY <1>4, <3>1, <3>2 DEF ToldIsOld
  <2>3. QED BY <2>1, <2>2
<1>9. ASSUME ~unsure
      PROVE  /\ \A i \in Queued("lock")' : calls'[i].awaited
             /\ \/ fw'.locks = oldLocks'
                \/ \E w \in Threads :
                     /\ InLock(w)' /\ thread'[w].pc \in {"waiting", "ok"}
                     /\ \A i \in DOMAIN calls' : calls'[i].by = w => ~calls'[i].awaited
  <2>1. \A i \in Queued("lock")' : calls'[i].awaited
    BY <1>2, <1>4, <1>9 DEF Behind, NothingUnsure, Queued
  <2>2. ASSUME NEW w \in Threads, InLock(w), thread[w].pc \in {"waiting", "ok"},
               \A i \in DOMAIN calls : calls[i].by = w => ~calls[i].awaited
        PROVE  /\ InLock(w)' /\ thread'[w].pc \in {"waiting", "ok"}
               /\ \A i \in DOMAIN calls' : calls'[i].by = w => ~calls'[i].awaited
    <3>1. w # u
      BY <2>2
    <3>2. \A i \in DOMAIN calls' : calls'[i].by = w => i \in DOMAIN calls /\ calls'[i] = calls[i]
      BY <1>2, <3>1 DEF Behind
    <3>3. QED BY <1>1, <1>5, <2>2, <3>1, <3>2
  <2>3. QED BY <1>4, <1>9, <2>1, <2>2 DEF NothingUnsure
<1>10. NothingUnsure'
  <2>1. unsure' = unsure
    OBVIOUS
  <2>2. QED BY <1>9, <2>1 DEF NothingUnsure
<1>11. QED BY <1>3, <1>7, <1>8, <1>10 DEF LocksInv

LEMMA AwaitedAfterReturn ==
  ASSUME CallTypes, AwaitedCalls, NEW u \in Threads, NEW ops, Returns(u, ops)
  PROVE  AwaitedCalls'
<1>1. /\ DOMAIN calls' = DOMAIN calls
      /\ \A i \in DOMAIN calls :
           /\ calls'[i].by = calls[i].by /\ calls'[i].op = calls[i].op
           /\ calls'[i].arg = calls[i].arg
           /\ calls'[i].awaited <=> calls[i].awaited /\ calls[i].by # u
  BY ReturnsEffect
<1>2. \A w \in Threads \ {u} : thread'[w] = thread[w]
  BY ReturnsEffect DEF CallTypes, TypeOK
<1>3. \A i \in DOMAIN calls : calls[i].by \in Threads
  BY DEF CallTypes, LockCall, ValuesCall
<1>4. ASSUME NEW i \in DOMAIN calls, calls'[i].awaited
      PROVE  /\ thread'[calls'[i].by].pc = "waiting"
             /\ thread'[calls'[i].by].op = calls'[i].op
             /\ thread'[calls'[i].by].arg = calls'[i].arg
             /\ \A j \in DOMAIN calls :
                  calls'[j].awaited /\ calls'[j].by = calls'[i].by => j = i
  BY <1>1, <1>2, <1>3, <1>4 DEF AwaitedCalls
<1>5. QED BY <1>1, <1>4 DEF AwaitedCalls

\* a return that is not one of a lock request
LEMMA LocksAfterReturn ==
  ASSUME CallTypes, LocksInv, NEW u \in Threads, NEW ops, Returns(u, ops),
         "lock" \notin ops, UNCHANGED <<fw, oldLocks, told, unsure>>
  PROVE  LocksInv'
<1>1. /\ DOMAIN calls' = DOMAIN calls
      /\ \A i \in DOMAIN calls :
           /\ calls'[i].by = calls[i].by /\ calls'[i].op = calls[i].op
           /\ calls'[i].awaited <=> calls[i].awaited /\ calls[i].by # u
  BY ReturnsEffect
<1>2. thread'[u].op = "none" /\ \A w \in Threads \ {u} : thread'[w] = thread[w]
  BY ReturnsEffect DEF CallTypes, TypeOK, Idle
<1>3. thread[u].op # "lock"
  BY DEF Returns
<1>4. AwaitedCalls /\ SureLocks /\ ToldIsOld /\ NothingUnsure /\ AwaitedCalls'
  BY AwaitedAfterReturn DEF LocksInv
<1>5. /\ \A w \in Threads : InLock(w)' <=> InLock(w)
      /\ \A w \in Threads : InLock(w) => w # u /\ thread'[w] = thread[w]
  BY <1>2, <1>3 DEF InLock
<1>6. Queued("lock")' = Queued("lock")
  BY <1>1 DEF Queued
<1>7. SureLocks'
  <2>1. ASSUME NEW v \in Threads, SureOf(v, "lock")'
        PROVE  /\ \A w \in Threads : InLock(w)' => w = v
               /\ \A i, j \in DOMAIN calls' :
                    calls'[j].awaited /\ calls'[j].by = v /\ calls'[i].op = "lock" => i <= j
               /\ thread'[v].pc \in {"ok", "error"} => Queued("lock")' = {}
               /\ thread'[v].pc = "ok" => fw'.locks = thread'[v].arg
    <3>1. SureOf(v, "lock") /\ thread'[v] = thread[v]
      BY <1>2, <2>1 DEF SureOf
    <3>2. \A i, j \in DOMAIN calls' :
            calls'[j].awaited /\ calls'[j].by = v /\ calls'[i].op = "lock" => i <= j
      BY <1>1, <1>4, <3>1 DEF SureLocks
    <3>3. QED BY <1>4, <1>5, <1>6, <3>1, <3>2 DEF SureLocks
  <2>2. QED BY <2>1 DEF SureLocks
<1>8. ToldIsOld'
  BY <1>4, <1>5 DEF ToldIsOld
<1>9. ASSUME ~unsure
      PROVE  /\ \A i \in Queued("lock")' : calls'[i].awaited
             /\ \/ fw'.locks = oldLocks'
                \/ \E w \in Threads :
                     /\ InLock(w)' /\ thread'[w].pc \in {"waiting", "ok"}
                     /\ \A i \in DOMAIN calls' : calls'[i].by = w => ~calls'[i].awaited
  <2>1. ASSUME NEW i \in Queued("lock") PROVE calls'[i].awaited
    <3>1. i \in DOMAIN calls /\ calls[i].awaited /\ calls[i].op = "lock"
      BY <1>4, <1>9 DEF NothingUnsure, Queued
    <3>2. calls[i].by # u
      BY <1>3, <1>4, <3>1 DEF AwaitedCalls
    <3>3. QED BY <1>1, <3>1, <3>2
  <2>2. ASSUME NEW w \in Threads, InLock(w), thread[w].pc \in {"waiting", "ok"},
               \A i \in DOMAIN calls : calls[i].by = w => ~calls[i].awaited
        PROVE  /\ InLock(w)' /\ thread'[w].pc \in {"waiting", "ok"}
               /\ \A i \in DOMAIN calls' : calls'[i].by = w => ~calls'[i].awaited
    BY <1>1, <1>5, <2>2
  <2>3. QED BY <1>4, <1>6, <1>9, <2>1, <2>2 DEF NothingUnsure
<1>10. NothingUnsure'
  <2>1. unsure' = unsure
    OBVIOUS
  <2>2. QED BY <1>9, <2>1 DEF NothingUnsure
<1>11. QED BY <1>4, <1>7, <1>8, <1>10 DEF LocksInv

LEMMA LocksAfterLock ==
  ASSUME CallTypes, LocksInv, NEW u \in Threads, LockReturns(u)
  PROVE  LocksInv'
<1>1. Returns(u, {"lock"}) /\ fw' = fw /\ InLock(u) /\ thread[u].op = "lock"
      /\ thread[u].pc \in {"waiting", "ok", "error"}
  BY DEF LockReturns, Returns, InLock
<1>2. /\ DOMAIN calls' = DOMAIN calls
      /\ \A i \in DOMAIN calls :
           /\ calls'[i].by = calls[i].by /\ calls'[i].op = calls[i].op
           /\ calls'[i].awaited <=> calls[i].awaited /\ calls[i].by # u
  BY <1>1, ReturnsEffect
<1>3. thread'[u].op = "none" /\ \A w \in Threads \ {u} : thread'[w] = thread[w]
  BY <1>1, ReturnsEffect DEF CallTypes, TypeOK, Idle
<1>4. AwaitedCalls /\ SureLocks /\ ToldIsOld /\ NothingUnsure /\ AwaitedCalls'
  BY <1>1, AwaitedAfterReturn DEF LocksInv
<1>5. told = None
  BY <1>1, <1>4 DEF ToldIsOld
\* the answer that is sure: the one request there is has been granted
<1>6. ASSUME thread[u].pc = "ok", thread[u].sure
      PROVE  /\ \A w \in Threads : InLock(w) => w = u
             /\ Queued("lock") = {} /\ fw.locks = thread[u].arg
  <2>1. SureOf(u, "lock")
    BY <1>1, <1>6 DEF SureOf
  <2>2. QED BY <1>4, <1>6, <2>1 DEF SureLocks
<1>7. oldLocks' = IF thread[u].pc = "ok" THEN thread[u].arg ELSE oldLocks
  BY <1>1 DEF LockReturns, Outcome
<1>8. told' = IF thread[u].pc = "ok" /\ thread[u].sure THEN thread[u].arg ELSE None
  BY <1>1, <1>5 DEF LockReturns, Outcome
<1>9. /\ thread[u].pc = "ok" => unsure' = ~thread[u].sure
      /\ thread[u].pc = "error" => unsure' = unsure
      /\ thread[u].pc = "waiting" => unsure'
  <2>1. unsure' = IF Outcome(u) = "ok" THEN ~thread[u].sure
                  ELSE unsure \/ Outcome(u) = "silent"
    BY DEF LockReturns
  <2>2. thread[u].pc = "ok" => unsure' = ~thread[u].sure
    BY <2>1 DEF Outcome
  <2>3. ASSUME thread[u].pc = "error" PROVE unsure' = unsure
    <3>1. Outcome(u) # "ok" /\ Outcome(u) # "silent"
      BY <2>3 DEF Outcome
    <3>2. unsure' = (unsure \/ FALSE) /\ unsure \in BOOLEAN
      BY <2>1, <3>1 DEF CallTypes, TypeOK
    <3>3. QED BY <3>2
  <2>4. ASSUME thread[u].pc = "waiting" PROVE unsure'
    <3>1. Outcome(u) = "silent"
      BY <2>4 DEF Outcome
    <3>2. unsure' = (unsure \/ TRUE)
      BY <2>1, <3>1
    <3>3. QED BY <3>2
  <2>5. QED BY <2>2, <2>3, <2>4
<1>10. SureLocks'
  <2>1. ASSUME NEW v \in Threads, SureOf(v, "lock")' PROVE FALSE
    <3>1. v # u /\ SureOf(v, "lock")
      BY <1>3, <2>1 DEF SureOf
    <3>2. QED BY <1>1, <1>4, <3>1 DEF SureLocks
  <2>2. QED BY <2>1 DEF SureLocks
<1>11. ToldIsOld'
  <2>1. ASSUME thread[u].pc = "ok", thread[u].sure PROVE ToldIsOld'
    <3>1. \A w \in Threads : ~InLock(w)'
      BY <1>3, <1>6, <2>1 DEF InLock
    <3>2. told' = oldLocks'
      BY <1>7, <1>8, <2>1
    <3>3. QED BY <3>1, <3>2 DEF ToldIsOld
  <2>2. ASSUME ~(thread[u].pc = "ok" /\ thread[u].sure) PROVE ToldIsOld'
    BY <1>8, <2>2 DEF ToldIsOld
  <2>3. QED BY <2>1, <2>2
<1>12. ASSUME unsure' = FALSE
       PROVE  /\ \A i \in Queued("lock")' : calls'[i].awaited
              /\ \/ fw'.locks = oldLocks'
                 \/ \E w \in Threads :
                      /\ InLock(w)' /\ thread'[w].pc \in {"waiting", "ok"}
                      /\ \A i \in DOMAIN calls' : calls'[i].by = w => ~calls'[i].awaited
  <2>1. Queued("lock")' = Queued("lock")
    BY <1>2 DEF Queued
  <2>2. CASE thread[u].pc = "ok"
    <3>1. thread[u].sure
      BY <1>9, <1>12, <2>2 DEF CallTypes, TypeOK, Calling
    <3>2. QED BY <1>1, <1>6, <1>7, <2>1, <2>2, <3>1
  <2>3. CASE thread[u].pc = "error"
    <3>1. ~unsure /\ oldLocks' = oldLocks
      BY <1>7, <1>9, <1>12, <2>3
    <3>2. ASSUME NEW i \in Queued("lock") PROVE calls'[i].awaited
      <4>1. i \in DOMAIN calls /\ calls[i].awaited
        BY <1>4, <3>1 DEF NothingUnsure, Queued
      <4>2. calls[i].by # u
        BY <1>4, <2>3, <4>1 DEF AwaitedCalls
      <4>3. QED BY <1>2, <4>1, <4>2
    <3>3. ASSUME NEW w \in Threads, InLock(w), thread[w].pc \in {"waiting", "ok"},
                 \A i \in DOMAIN calls : calls[i].by = w => ~calls[i].awaited
          PROVE  /\ InLock(w)' /\ thread'[w].pc \in {"waiting", "ok"}
                 /\ \A i \in DOMAIN calls' : calls'[i].by = w => ~calls'[i].awaited
      <4>1. w # u /\ thread'[w] = thread[w]
        BY <1>3, <2>3, <3>3
      <4>2. QED BY <1>2, <3>3, <4>1 DEF InLock
    <3>4. QED BY <1>1, <1>4, <2>1, <3>1, <3>2, <3>3 DEF NothingUnsure
  <2>4. CASE thread[u].pc = "waiting"
    BY <1>9, <1>12, <2>4
  <2>5. QED BY <1>1, <2>2, <2>3, <2>4
<1>13. NothingUnsure'
  <2>1. ~unsure' => unsure' = FALSE
    OBVIOUS
  <2>2. QED BY <1>12, <2>1 DEF NothingUnsure
<1>14. QED BY <1>4, <1>10, <1>11, <1>13 DEF LocksInv

(* What the firmware does when it executes the first of the calls: the     *)
(* others move up, and only the caller that awaits it learns of it.        *)
LEMMA ExecuteEffect ==
  ASSUME CallTypes, AwaitedCalls, Execute
  PROVE  LET c == Head(calls) IN
         /\ 1 \in DOMAIN calls /\ calls[1] = c /\ c.by \in Threads
         /\ \A i \in DOMAIN calls' : i + 1 \in DOMAIN calls /\ calls'[i] = calls[i + 1]
         /\ \A i \in DOMAIN calls' : i \in Nat \ {0}
         /\ \A w \in Threads :
              /\ thread'[w].op = thread[w].op /\ thread'[w].arg = thread[w].arg
              /\ thread'[w].sure = thread[w].sure
              /\ \/ thread'[w].pc = thread[w].pc
                 \/ w = c.by /\ c.awaited /\ thread'[w].pc \in {"ok", "error"}
         /\ \A i \in DOMAIN calls' : calls'[i].awaited =>
              calls'[i].by \in Threads /\ thread'[calls'[i].by].pc = "waiting"
              /\ ~(c.awaited /\ calls'[i].by = c.by)
         /\ \/ fw' = Granted(c) /\ \A w \in Threads : thread'[w].pc = "error" => thread[w].pc = "error"
            \/ fw' = fw /\ c.op = "lock"
               /\ \A w \in Threads : thread'[w].pc = "ok" => thread[w].pc = "ok"
<1> DEFINE c == Head(calls)
           C == LockCall \cup ValuesCall
<1>1. calls \in Seq(C) /\ calls # << >> /\ calls' = Tail(calls)
  BY DEF Execute, CallTypes
<1> HIDE DEF C
<1>2. /\ Len(calls) \in Nat \ {0} /\ DOMAIN calls = 1 .. Len(calls)
      /\ DOMAIN calls' = 1 .. Len(calls) - 1
      /\ \A i \in DOMAIN calls' : calls'[i] = calls[i + 1]
      /\ calls[1] = c /\ c \in C
  BY <1>1
<1>3. /\ 1 \in DOMAIN calls
      /\ \A i \in DOMAIN calls' : i \in Nat \ {0} /\ i + 1 \in DOMAIN calls
  BY <1>2
<1>4. c.by \in Threads /\ \A i \in DOMAIN calls : calls[i].by \in Threads
  BY <1>2 DEF C, CallTypes, LockCall, ValuesCall
<1>5. PICK granted \in IF c.op = "lock" THEN BOOLEAN ELSE {TRUE} :
         /\ fw' = IF granted THEN Granted(c) ELSE fw
         /\ \/ UNCHANGED thread
            \/ /\ c.awaited
               /\ thread' = [thread EXCEPT ![c.by].pc =
                               IF granted THEN "ok" ELSE "error"]
  BY DEF Execute
<1> HIDE DEF c
<1> DEFINE pc == IF granted THEN "ok" ELSE "error"
<1>6. ASSUME NEW w \in Threads
      PROVE  /\ thread'[w].op = thread[w].op /\ thread'[w].arg = thread[w].arg
             /\ thread'[w].sure = thread[w].sure
             /\ \/ thread'[w].pc = thread[w].pc
                \/ w = c.by /\ c.awaited /\ thread'[w].pc = pc
  <2>1. CASE thread' = thread
    BY <2>1
  <2>2. CASE c.awaited /\ thread' = [thread EXCEPT ![c.by].pc = pc]
    <3>1. thread \in [Threads -> Calling] /\ thread[w] \in Calling
      BY DEF CallTypes, TypeOK
    <3>2. CASE w = c.by
      <4>1. thread'[w] = [thread[w] EXCEPT !.pc = pc]
        BY <2>2, <3>1, <3>2
      <4>2. pc \in {"init", "idle", "waiting", "ok", "error"}
        OBVIOUS
      <4> HIDE DEF pc
      <4>3. /\ thread'[w].op = thread[w].op /\ thread'[w].arg = thread[w].arg
            /\ thread'[w].sure = thread[w].sure /\ thread'[w].pc = pc
        BY <3>1, <4>1, <4>2, CallingGoesOn
      <4>4. c.awaited
        BY <2>2
      <4>5. QED BY <3>2, <4>3, <4>4
    <3>3. CASE w # c.by
      BY <2>2, <3>1, <3>3
    <3>4. QED BY <3>2, <3>3
  <2>3. QED BY <1>5, <2>1, <2>2
<1>7. pc \in {"ok", "error"} /\ (granted => pc = "ok") /\ (~granted => pc = "error")
  OBVIOUS
<1>8. ASSUME NEW i \in DOMAIN calls', calls'[i].awaited
      PROVE  calls'[i].by \in Threads /\ thread'[calls'[i].by].pc = "waiting"
             /\ ~(c.awaited /\ calls'[i].by = c.by)
  <2>1. i + 1 # 1 /\ i + 1 \in DOMAIN calls /\ calls[i + 1].awaited
        /\ calls[i + 1].by = calls'[i].by
    BY <1>2, <1>3, <1>8
  <2>2. ~(c.awaited /\ calls'[i].by = c.by)
    BY <1>2, <1>3, <2>1 DEF AwaitedCalls
  <2>3. calls'[i].by \in Threads /\ thread[calls'[i].by].pc = "waiting"
    BY <1>4, <2>1 DEF AwaitedCalls
  <2>4. QED BY <1>6, <2>2, <2>3
<1> HIDE DEF pc
<1>9. CASE granted
  <2>1. \A w \in Threads : thread'[w].pc = "error" => thread[w].pc = "error"
    BY <1>6, <1>7, <1>9
  <2>2. QED BY <1>2, <1>3, <1>4, <1>5, <1>6, <1>7, <1>8, <1>9, <2>1 DEF c
<1>10. CASE ~granted
  <2>1. \A w \in Threads : thread'[w].pc = "ok" => thread[w].pc = "ok"
    BY <1>6, <1>7, <1>10
  <2>2. fw' = fw /\ c.op = "lock"
    BY <1>5, <1>10
  <2>3. QED BY <1>2, <1>3, <1>4, <1>6, <1>7, <1>8, <2>1, <2>2 DEF c
<1>11. QED BY <1>9, <1>10

LEMMA LocksAfterExecute ==
  ASSUME CallTypes, LocksInv, Execute
  PROVE  LocksInv'
<1> DEFINE c == Head(calls)
<1>1. AwaitedCalls /\ SureLocks /\ ToldIsOld /\ NothingUnsure
      /\ UNCHANGED <<oldLocks, told, unsure>>
  BY DEF LocksInv, Execute
<1>2. /\ 1 \in DOMAIN calls /\ calls[1] = c /\ c.by \in Threads
      /\ \A i \in DOMAIN calls' : i + 1 \in DOMAIN calls /\ calls'[i] = calls[i + 1]
      /\ \A i \in DOMAIN calls' : i \in Nat \ {0}
      /\ \A i \in DOMAIN calls' : calls'[i].awaited =>
           calls'[i].by \in Threads /\ thread'[calls'[i].by].pc = "waiting"
           /\ ~(c.awaited /\ calls'[i].by = c.by)
  BY <1>1, ExecuteEffect
<1>3. \A w \in Threads :
        /\ thread'[w].op = thread[w].op /\ thread'[w].arg = thread[w].arg
        /\ thread'[w].sure = thread[w].sure
        /\ \/ thread'[w].pc = thread[w].pc
           \/ w = c.by /\ c.awaited /\ thread'[w].pc \in {"ok", "error"}
  BY <1>1, ExecuteEffect
<1>4. \/ fw' = Granted(c) /\ \A w \in Threads : thread'[w].pc = "error" => thread[w].pc = "error"
      \/ fw' = fw /\ c.op = "lock"
         /\ \A w \in Threads : thread'[w].pc = "ok" => thread[w].pc = "ok"
  BY <1>1, ExecuteEffect
<1>5. /\ c.op = "lock" /\ fw' = Granted(c) => fw'.locks = c.arg
      /\ c.op # "lock" => fw'.locks = fw.locks
  BY <1>4 DEF Granted, CallTypes, TypeOK
<1>6. c.awaited => /\ thread[c.by].pc = "waiting" /\ thread[c.by].op = c.op
                   /\ thread[c.by].arg = c.arg
  BY <1>1, <1>2 DEF AwaitedCalls
<1> HIDE DEF c
<1>7. AwaitedCalls'
  <2>1. ASSUME NEW i \in DOMAIN calls', calls'[i].awaited
        PROVE  /\ thread'[calls'[i].by].pc = "waiting"
               /\ thread'[calls'[i].by].op = calls'[i].op
               /\ thread'[calls'[i].by].arg = calls'[i].arg
               /\ \A j \in DOMAIN calls' :
                    calls'[j].awaited /\ calls'[j].by = calls'[i].by => j = i
    <3>1. i + 1 \in DOMAIN calls /\ calls'[i] = calls[i + 1] /\ calls[i + 1].awaited
      BY <1>2, <2>1
    <3>2. ASSUME NEW j \in DOMAIN calls', calls'[j].awaited, calls'[j].by = calls'[i].by
          PROVE  j = i
      <4>1. j + 1 = i + 1
        BY <1>1, <1>2, <3>1, <3>2 DEF AwaitedCalls
      <4>2. QED BY <1>2, <4>1
    <3>3. QED BY <1>1, <1>2, <1>3, <2>1, <3>1, <3>2 DEF AwaitedCalls
  <2>2. QED BY <2>1 DEF AwaitedCalls
<1>8. \A w \in Threads : InLock(w)' <=> InLock(w)
  BY <1>3 DEF InLock
<1>9. SureLocks'
  <2>1. ASSUME NEW v \in Threads, SureOf(v, "lock")'
        PROVE  /\ \A w \in Threads : InLock(w)' => w = v
               /\ \A i, j \in DOMAIN calls' :
                    calls'[j].awaited /\ calls'[j].by = v /\ calls'[i].op = "lock" => i <= j
               /\ thread'[v].pc \in {"ok", "error"} => Queued("lock")' = {}
               /\ thread'[v].pc = "ok" => fw'.locks = thread'[v].arg
    <3>1. SureOf(v, "lock")
      BY <1>3, <2>1 DEF SureOf
    <3>2. \A w \in Threads : InLock(w)' => w = v
      BY <1>1, <1>8, <3>1 DEF SureLocks
    <3>3. ASSUME NEW i \in DOMAIN calls', NEW j \in DOMAIN calls',
                 calls'[j].awaited, calls'[j].by = v, calls'[i].op = "lock"
          PROVE  i <= j
      <4>1. i + 1 <= j + 1
        BY <1>1, <1>2, <3>1, <3>3 DEF SureLocks
      <4>2. QED BY <1>2, <4>1
    <3>4. CASE thread'[v].pc = thread[v].pc
      <4>1. ASSUME thread[v].pc \in {"ok", "error"}
            PROVE  Queued("lock")' = {} /\ c.op # "lock"
        <5>1. \A i \in DOMAIN calls : calls[i].op # "lock"
          BY <1>1, <3>1, <4>1 DEF SureLocks, Queued
        <5>2. QED BY <1>2, <5>1 DEF Queued
      <4>2. thread'[v].pc = "ok" => fw'.locks = thread'[v].arg
        BY <1>1, <1>3, <1>5, <3>1, <3>4, <4>1 DEF SureLocks
      <4>3. QED BY <3>2, <3>3, <3>4, <4>1, <4>2
    <3>5. CASE v = c.by /\ c.awaited /\ thread'[v].pc \in {"ok", "error"}
      <4>1. c.op = "lock" /\ thread[v].arg = c.arg
        BY <1>6, <3>1, <3>5 DEF SureOf
      <4>2. \A i \in DOMAIN calls : calls[i].op = "lock" => i <= 1
        BY <1>1, <1>2, <3>1, <3>5 DEF SureLocks
      <4>3. Queued("lock")' = {}
        <5>1. ASSUME NEW i \in DOMAIN calls', calls'[i].op = "lock" PROVE FALSE
          <6>1. i + 1 <= 1 /\ i \in Nat \ {0}
            BY <1>2, <4>2, <5>1
          <6>2. QED BY <6>1
        <5>2. QED BY <5>1 DEF Queued
      <4>4. thread'[v].pc = "ok" => fw'.locks = thread'[v].arg
        BY <1>3, <1>4, <1>5, <1>6, <3>5, <4>1
      <4>5. QED BY <3>2, <3>3, <4>3, <4>4
    <3>6. QED BY <1>3, <3>4, <3>5
  <2>2. QED BY <2>1 DEF SureLocks
<1>10. ToldIsOld'
  BY <1>1, <1>8 DEF ToldIsOld
<1>11. ASSUME ~unsure
       PROVE  /\ \A i \in Queued("lock")' : calls'[i].awaited
              /\ \/ fw'.locks = oldLocks'
                 \/ \E w \in Threads :
                      /\ InLock(w)' /\ thread'[w].pc \in {"waiting", "ok"}
                      /\ \A i \in DOMAIN calls' : calls'[i].by = w => ~calls'[i].awaited
  <2>1. \A i \in Queued("lock")' : calls'[i].awaited
    BY <1>1, <1>2, <1>11 DEF NothingUnsure, Queued
  <2>2. ASSUME NEW w \in Threads, InLock(w), thread[w].pc \in {"waiting", "ok"},
               \A i \in DOMAIN calls : calls[i].by = w => ~calls[i].awaited
        PROVE  /\ InLock(w)' /\ thread'[w].pc \in {"waiting", "ok"}
               /\ \A i \in DOMAIN calls' : calls'[i].by = w => ~calls'[i].awaited
    <3>1. ~(w = c.by /\ c.awaited)
      BY <1>2, <2>2
    <3>2. QED BY <1>2, <1>3, <1>8, <2>2, <3>1
  <2>3. CASE c.op # "lock" \/ fw' = fw
    <3>1. fw'.locks = fw.locks
      BY <1>5, <2>3
    <3>2. QED BY <1>1, <1>11, <2>1, <2>2, <3>1 DEF NothingUnsure
  <2>4. ASSUME c.op = "lock",
               \A w \in Threads : thread'[w].pc = "error" => thread[w].pc = "error"
        PROVE  \E w \in Threads :
                 /\ InLock(w)' /\ thread'[w].pc \in {"waiting", "ok"}
                 /\ \A i \in DOMAIN calls' : calls'[i].by = w => ~calls'[i].awaited
    <3>1. c.awaited
      BY <1>1, <1>2, <1>11, <2>4 DEF NothingUnsure, Queued
    <3>2. thread'[c.by].op = "lock"
      BY <1>2, <1>3, <1>6, <2>4, <3>1
    <3>3. thread'[c.by].pc \in {"waiting", "ok"}
      BY <1>2, <1>3, <1>6, <2>4, <3>1
    <3>4. \A i \in DOMAIN calls' : calls'[i].by = c.by => ~calls'[i].awaited
      BY <1>2, <3>1
    <3>5. \A w \in Threads : thread'[w].op = "lock" => InLock(w)'
      BY DEF InLock
    <3>6. QED BY <1>2, <3>2, <3>3, <3>4, <3>5
  <2>5. QED BY <1>4, <2>1, <2>3, <2>4
<1>12. NothingUnsure'
  <2>1. unsure' = unsure
    BY <1>1
  <2>2. QED BY <1>11, <2>1 DEF NothingUnsure
<1>13. QED BY <1>7, <1>9, <1>10, <1>12 DEF LocksInv

\* the steps that leave the locks, and the calls with their threads, alone
LEMMA LocksLeft ==
  ASSUME LocksInv, UNCHANGED <<thread, calls, oldLocks, told, unsure>>,
         fw'.locks = fw.locks
  PROVE  LocksInv'
<1>1. AwaitedCalls /\ SureLocks /\ ToldIsOld /\ NothingUnsure
  BY DEF LocksInv
<1>2. AwaitedCalls'
  BY <1>1 DEF AwaitedCalls
<1>3. SureLocks'
  BY <1>1 DEF SureLocks, SureOf, InLock, Queued
<1>4. ToldIsOld'
  BY <1>1 DEF ToldIsOld, InLock
<1>5. NothingUnsure'
  BY <1>1 DEF NothingUnsure, InLock, Queued
<1>6. QED BY <1>2, <1>3, <1>4, <1>5 DEF LocksInv

LEMMA LocksStep == CallTypes /\ LocksInv /\ [Next]_vars => LocksInv'
<1> SUFFICES ASSUME CallTypes, LocksInv, [Next]_vars PROVE LocksInv'
  OBVIOUS
<1>1. TypeOK /\ "main" \in Threads
  BY DEF CallTypes, Threads
<1>2. ASSUME NEW u \in Threads, OtherReturns(u) PROVE LocksInv'
  <2>1. /\ Returns(u, OtherOps \cup {"events"}) /\ "lock" \notin OtherOps \cup {"events"}
        /\ UNCHANGED <<fw, oldLocks, told, unsure>>
    BY <1>2 DEF OtherReturns, OtherOps
  <2>2. QED BY <2>1, LocksAfterReturn
<1>3. ASSUME NEW u \in Threads, LockReturns(u) PROVE LocksInv'
  BY <1>3, LocksAfterLock
<1>4. ASSUME NEW u \in Threads, NEW l \in Locks, tacSetLockSwitchOff(u, l)
      PROVE  LocksInv'
  <2>1. CASE l = oldLocks
    <3>1. UNCHANGED <<thread, calls, fw, oldLocks, unsure>>
          /\ told' = IF \E w \in Threads : InLock(w) THEN None ELSE l
      BY <1>4, <2>1 DEF tacSetLockSwitchOff
    <3>2. AwaitedCalls' /\ SureLocks' /\ NothingUnsure'
      <4>1. AwaitedCalls'
        BY <3>1 DEF LocksInv, AwaitedCalls
      <4>2. SureLocks'
        BY <3>1 DEF LocksInv, SureLocks, SureOf, InLock, Queued
      <4>3. NothingUnsure'
        BY <3>1 DEF LocksInv, NothingUnsure, InLock, Queued
      <4>4. QED BY <4>1, <4>2, <4>3
    <3>3. ToldIsOld'
      BY <2>1, <3>1 DEF ToldIsOld, InLock
    <3>4. QED BY <3>2, <3>3 DEF LocksInv
  <2>2. CASE l # oldLocks
    <3>1. /\ thread[u].pc = "idle" /\ Call(u, "lock", l) /\ told' = None
          /\ UNCHANGED <<fw, oldLocks, unsure>>
      BY <1>4, <2>2 DEF tacSetLockSwitchOff, TaRuns
    <3>2. QED BY <3>1, LocksAfterCall
  <2>3. QED BY <2>1, <2>2
<1>5. ASSUME NEW u \in Threads, NEW op \in OtherOps, OtherCall(u, op) PROVE LocksInv'
  <2>1. /\ thread[u].pc = "idle" /\ Call(u, op, None) /\ op # "lock"
        /\ UNCHANGED <<fw, oldLocks, told, unsure>>
    BY <1>5 DEF OtherCall, TaRuns, OtherOps
  <2>2. QED BY <2>1, LocksAfterCall
<1>6. CASE SendEvents
  <2>1. /\ thread["main"].pc = "idle" /\ Call("main", "events", None)
        /\ UNCHANGED <<fw, oldLocks, told, unsure>>
    BY <1>6 DEF SendEvents, TaRuns
  <2>2. QED BY <1>1, <2>1, LocksAfterCall
<1>7. CASE SkipEvents
  BY <1>7, LocksLeft DEF SkipEvents
<1>8. CASE ValuesReturn
  <2>1. Returns("main", {"values"}) /\ UNCHANGED <<fw, oldLocks, told, unsure>>
    BY <1>8 DEF ValuesReturn
  <2>2. QED BY <1>1, <2>1, LocksAfterReturn
<1>9. ASSUME NEW S \in SUBSET Oitds, NEW value \in [S -> Values], SendValues(value)
      PROVE  LocksInv'
  <2> DEFINE changed == {o \in DOMAIN subs : value[o] # subs[o]}
             arg == Restrict(value, changed)
  <2>1. UNCHANGED <<fw, oldLocks, told, unsure>> /\ thread["main"].pc = "idle"
    BY <1>9 DEF SendValues
  <2>2. CASE Call("main", "values", arg)
    <3>1. arg \in Sendings
      BY <1>9, SentIsSending DEF SendValues
    <3> HIDE DEF arg
    <3>2. QED BY <1>1, <2>1, <2>2, <3>1, LocksAfterCall
  <2>3. CASE UNCHANGED <<thread, calls>>
    BY <2>1, <2>3, LocksLeft
  <2>4. QED BY <1>9, <2>2, <2>3 DEF SendValues
<1>10. CASE Execute
  BY <1>10, LocksAfterExecute
<1>11. CASE registerAtCctrl
  <2>1. /\ thread["main"].pc = "init" /\ thread' = [thread EXCEPT !["main"] = Idle]
        /\ UNCHANGED <<calls, oldLocks, told, unsure>> /\ fw'.locks = fw.locks
    BY <1>1, <1>11 DEF registerAtCctrl, TypeOK
  <2>2. \A w \in Threads \ {"main"} : thread'[w] = thread[w]
    BY <1>1, <2>1 DEF TypeOK
  <2>3. thread'["main"].op = "none" /\ thread'["main"].pc = "idle"
    BY <1>1, <2>1 DEF TypeOK, Idle
  <2>4. \A w \in Threads : InLock(w)' => w # "main" /\ InLock(w)
    BY <2>2, <2>3 DEF InLock
  <2>5. \A w \in Threads : SureOf(w, "lock")' => w # "main" /\ SureOf(w, "lock")
    BY <2>2, <2>3 DEF SureOf
  <2>6. \A i \in DOMAIN calls : calls[i].by \in Threads
    BY DEF CallTypes, LockCall, ValuesCall
  <2>7. AwaitedCalls'
    BY <2>1, <2>2, <2>6 DEF LocksInv, AwaitedCalls
  <2>8. SureLocks'
    BY <2>1, <2>2, <2>4, <2>5 DEF LocksInv, SureLocks, Queued
  <2>9. ToldIsOld'
    BY <2>1, <2>4 DEF LocksInv, ToldIsOld
  <2>10. NothingUnsure'
    <3>1. \A w \in Threads : InLock(w) /\ thread[w].pc \in {"waiting", "ok"} =>
             InLock(w)' /\ thread'[w].pc \in {"waiting", "ok"}
      BY <2>1, <2>2 DEF InLock
    <3>2. QED BY <2>1, <3>1 DEF LocksInv, NothingUnsure, Queued
  <2>11. QED BY <2>7, <2>8, <2>9, <2>10 DEF LocksInv
<1>12. ASSUME NEW oitds \in OitdSets, subscribedevicevariables_8_svc(oitds)
       PROVE  LocksInv'
  BY <1>1, <1>12, LocksLeft DEF subscribedevicevariables_8_svc, TypeOK
<1>13. ASSUME NEW oitds \in OitdSets, unsubscribedevicevariables_8_svc(oitds)
       PROVE  LocksInv'
  BY <1>13, LocksLeft DEF unsubscribedevicevariables_8_svc
<1>14. CASE Restart
  <2>1. /\ calls' = << >> /\ told' = None /\ unsure' = TRUE
        /\ thread' = [u \in Threads |-> [thread[u] EXCEPT !.sure =
                                           thread[u].op \notin {"lock", "values"}]]
    BY <1>14 DEF Restart
  <2>2. \A u \in Threads : ~SureOf(u, "lock")'
    <3>1. ASSUME NEW u \in Threads, thread'[u].op = "lock" PROVE ~thread'[u].sure
      BY <1>1, <2>1, <3>1 DEF TypeOK, Calling
    <3>2. QED BY <3>1 DEF SureOf
  <2>3. DOMAIN calls' = {}
    BY <2>1
  <2>4. QED BY <2>1, <2>2, <2>3 DEF LocksInv, AwaitedCalls, SureLocks, ToldIsOld, NothingUnsure
<1>15. CASE BackUp
  BY <1>1, <1>15, LocksLeft DEF BackUp, TypeOK
<1>16. CASE UNCHANGED vars
  BY <1>16, LocksLeft DEF vars
<1>17. QED
  BY <1>2, <1>3, <1>4, <1>5, <1>6, <1>7, <1>8, <1>9, <1>10, <1>11, <1>12, <1>13,
     <1>14, <1>15, <1>16 DEF Next

(* What all the invariants of the calls rest on.                           *)
LEMMA CallsInvariant == Spec => []CallTypes
BY CallTypesInit, CallTypesStep, PTL DEF Spec

LEMMA LocksInvariant == Spec => []LocksInv
<1>1. Init => LocksInv
  BY DEF Init, LocksInv, AwaitedCalls, SureLocks, SureOf, ToldIsOld, NothingUnsure,
         InLock, Queued, Idle
<1>2. QED BY <1>1, LocksStep, CallsInvariant, PTL DEF Spec

(* A request that is answered SUCCESS is what the firmware holds, however  *)
(* many threads set locks, and although requests get lost, are executed    *)
(* late or are left out as repetitions (tacSetLockSwitchOff), unless an    *)
(* outcome since the last one that was confirmed by itself is unknown.     *)
THEOREM CallsLocksKnown == Spec => []LocksKnown
<1>1. ASSUME LocksInv PROVE LocksKnown
  BY <1>1 DEF LocksInv, LocksKnown, ToldIsOld, NothingUnsure
<1>2. QED BY <1>1, LocksInvariant, PTL

-----------------------------------------------------------------------------
(* The values.  First the steps that are not about them.                   *)

LEMMA ValuesLeft ==
  ASSUME ValuesInv, UNCHANGED <<subs, missed>>, fw'.shown = fw.shown,
         thread'["main"].pc \in {"init", "idle"} => thread'["main"].op = "none",
         thread'["main"].op = "values" <=> thread["main"].op = "values",
         thread["main"].op = "values" =>
           /\ thread'["main"].pc = thread["main"].pc
           /\ thread'["main"].arg = thread["main"].arg
           /\ thread'["main"].sure => thread["main"].sure,
         \A i \in DOMAIN calls' : calls'[i].op = "values" =>
           i \in DOMAIN calls /\ calls[i].op = "values" /\ calls'[i].arg = calls[i].arg,
         \A j \in DOMAIN calls' :
           calls'[j].awaited /\ calls'[j].by = "main" /\ thread["main"].op = "values" =>
             j \in DOMAIN calls /\ calls[j].awaited /\ calls[j].by = "main"
  PROVE  ValuesInv'
<1>1. Sending' = Sending
  BY DEF Sending
<1>2. Open' = Open
  BY <1>1 DEF Open
<1>3. \A o \in DOMAIN subs' \ Open' : Shown(o)'
  BY <1>2 DEF ValuesInv, Shown
<1>4. \A i \in Queued("values")' : DOMAIN calls'[i].arg \subseteq Open'
  BY <1>2 DEF ValuesInv, Queued
<1>5. \A o \in Sending' : o \in DOMAIN subs' /\ thread'["main"].arg[o] = subs'[o]
  BY <1>1 DEF ValuesInv, Sending
<1>6. ASSUME SureOf("main", "values")'
      PROVE  /\ \A i, j \in DOMAIN calls' :
                  calls'[j].awaited /\ calls'[j].by = "main" /\ calls'[i].op = "values"
                    => i <= j
             /\ thread'["main"].pc = "ok" =>
                  /\ Queued("values")' = {}
                  /\ \A o \in Sending' : fw'.shown[o] = thread'["main"].arg[o]
  <2>1. SureOf("main", "values") /\ thread["main"].op = "values"
    BY <1>6 DEF SureOf
  <2>2. \A i, j \in DOMAIN calls' :
          calls'[j].awaited /\ calls'[j].by = "main" /\ calls'[i].op = "values" => i <= j
    BY <2>1 DEF ValuesInv
  <2>3. ASSUME thread'["main"].pc = "ok"
        PROVE  /\ Queued("values")' = {}
               /\ \A o \in Sending' : fw'.shown[o] = thread'["main"].arg[o]
    <3>1. /\ Queued("values") = {}
          /\ \A o \in Sending : fw.shown[o] = thread["main"].arg[o]
      BY <2>1, <2>3 DEF ValuesInv
    <3>2. Queued("values")' = {}
      BY <3>1 DEF Queued
    <3>3. QED BY <1>1, <2>1, <3>1, <3>2
  <2>4. QED BY <2>2, <2>3
<1>7. QED BY <1>3, <1>4, <1>5, <1>6 DEF ValuesInv

LEMMA ValuesAfterCall ==
  ASSUME CallTypes, ValuesInv, NEW u \in Threads, thread[u].pc = "idle",
         NEW op \in {"lock", "events"} \cup OtherOps,
         NEW arg \in {None} \cup Locks \cup Sendings, Call(u, op, arg),
         UNCHANGED <<fw, subs, missed>>
  PROVE  ValuesInv'
<1> DEFINE c == [by |-> u, op |-> op, arg |-> arg, awaited |-> TRUE]
<1>1. op # "values" /\ op \in {"lock", "events", "values"} \cup OtherOps /\ op # "none"
  BY DEF OtherOps
<1>2. /\ thread'[u].pc = "waiting" /\ thread'[u].op = op /\ thread'[u].arg = arg
      /\ \A w \in Threads \ {u} :
           /\ thread'[w].pc = thread[w].pc /\ thread'[w].op = thread[w].op
           /\ thread'[w].arg = thread[w].arg
           /\ thread'[w].sure => thread[w].sure
      /\ calls' = calls \/ calls' = Append(calls, c)
  BY <1>1, CallEffect DEF CallTypes
<1>3. Behind(c) /\ c.by = u /\ c.op = op
  BY <1>2, AppendedBehind
<1> HIDE DEF c
<1>4. \A i \in DOMAIN calls' : calls'[i].op = "values" =>
         i \in DOMAIN calls /\ calls'[i] = calls[i]
  BY <1>1, <1>3 DEF Behind
<1>5. "main" \in Threads
  BY DEF Threads
<1>6. CASE u = "main"
  <2>1. thread["main"].op = "none"
    BY <1>6 DEF ValuesInv
  <2>2. QED BY <1>1, <1>2, <1>4, <1>6, <2>1, ValuesLeft
<1>7. CASE u # "main"
  <2>1. \A j \in DOMAIN calls' : calls'[j].by = "main" =>
           j \in DOMAIN calls /\ calls'[j] = calls[j]
    BY <1>3, <1>7 DEF Behind
  <2>2. /\ thread'["main"].pc = thread["main"].pc /\ thread'["main"].op = thread["main"].op
        /\ thread'["main"].arg = thread["main"].arg
        /\ thread'["main"].sure => thread["main"].sure
    BY <1>2, <1>5, <1>7
  <2>3. thread["main"].pc \in {"init", "idle"} => thread["main"].op = "none"
    BY DEF ValuesInv
  <2>4. QED BY <1>4, <2>1, <2>2, <2>3, ValuesLeft
<1>8. QED BY <1>6, <1>7

\* the return of a call that did not bring values
LEMMA ValuesAfterReturn ==
  ASSUME CallTypes, ValuesInv, NEW u \in Threads, NEW ops, Returns(u, ops),
         "values" \notin ops, UNCHANGED <<fw, subs, missed>>
  PROVE  ValuesInv'
<1>1. /\ DOMAIN calls' = DOMAIN calls
      /\ \A i \in DOMAIN calls :
           /\ calls'[i].by = calls[i].by /\ calls'[i].op = calls[i].op
           /\ calls'[i].arg = calls[i].arg
           /\ calls'[i].awaited <=> calls[i].awaited /\ calls[i].by # u
  BY ReturnsEffect
<1>2. thread[u].op # "values" /\ "main" \in Threads
  BY DEF Returns, Threads
<1>3. CASE u = "main"
  <2>1. thread'["main"].op = "none"
    BY <1>2, <1>3, ReturnsEffect DEF CallTypes, TypeOK, Idle
  <2>2. QED BY <1>1, <1>2, <1>3, <2>1, ValuesLeft
<1>4. CASE u # "main"
  <2>1. thread'["main"] = thread["main"]
    BY <1>2, <1>4, ReturnsEffect DEF CallTypes, TypeOK
  <2>2. thread["main"].pc \in {"init", "idle"} => thread["main"].op = "none"
    BY DEF ValuesInv
  <2>3. QED BY <1>1, <2>1, <2>2, ValuesLeft
<1>5. QED BY <1>3, <1>4

LEMMA ValuesAfterSend ==
  ASSUME CallTypes, ValuesInv, AwaitedCalls, NEW S \in SUBSET Oitds,
         NEW value \in [S -> Values], SendValues(value)
  PROVE  ValuesInv'
<1> DEFINE changed == {o \in DOMAIN subs : value[o] # subs[o]}
           arg == Restrict(value, changed)
           c == [by |-> "main", op |-> "values", arg |-> arg, awaited |-> TRUE]
<1>1. /\ thread["main"].pc = "idle" /\ thread["main"].op = "none" /\ Sending = {}
      /\ subs' = value /\ DOMAIN value = DOMAIN subs /\ fw' = fw
      /\ "main" \in Threads
  BY DEF SendValues, ValuesInv, Sending, Threads
<1>2. ASSUME NEW o \in DOMAIN subs \ (missed \cup changed) PROVE Shown(o)'
  BY <1>1, <1>2 DEF ValuesInv, Open, Shown
<1>3. DOMAIN arg = changed /\ \A o \in changed : arg[o] = value[o]
  BY DEF Restrict
<1>4. \A i \in Queued("values") : DOMAIN calls[i].arg \subseteq missed
  BY <1>1 DEF ValuesInv, Open
<1>5. arg \in Sendings
  BY <1>1, SentIsSending
<1> HIDE DEF arg, c
<1>6. CASE Call("main", "values", arg) /\ UNCHANGED missed
  <2>1. /\ thread'["main"].pc = "waiting" /\ thread'["main"].op = "values"
        /\ thread'["main"].arg = arg
        /\ calls' = calls \/ calls' = Append(calls, c)
    BY <1>1, <1>5, <1>6, CallEffect DEF CallTypes, c
  <2>2. Behind(c) /\ c.by = "main" /\ c.op = "values" /\ c.arg = arg
    BY <2>1, AppendedBehind DEF c
  <2>3. Sending' = changed /\ Open' = missed \cup changed
    BY <1>3, <1>6, <2>1 DEF Sending, Open
  <2> HIDE DEF changed
  <2>4. \A o \in DOMAIN subs' \ Open' : Shown(o)'
    BY <1>1, <1>2, <2>3
  <2>5. \A i \in Queued("values")' : DOMAIN calls'[i].arg \subseteq Open'
    BY <1>3, <1>4, <2>2, <2>3 DEF Queued, Behind
  <2>6. \A o \in Sending' : o \in DOMAIN subs' /\ thread'["main"].arg[o] = subs'[o]
    BY <1>1, <1>3, <2>1, <2>3 DEF changed
  <2>7. ASSUME NEW i \in DOMAIN calls', NEW j \in DOMAIN calls',
               calls'[j].awaited, calls'[j].by = "main"
        PROVE  i <= j
    <3>1. j \notin DOMAIN calls
      BY <1>1, <2>2, <2>7 DEF Behind, AwaitedCalls
    <3>2. QED BY <2>2, <3>1 DEF Behind
  <2>8. QED BY <2>1, <2>4, <2>5, <2>6, <2>7 DEF ValuesInv
<1>7. CASE UNCHANGED <<thread, calls>> /\ missed' = missed \cup changed
  <2>1. Sending' = {} /\ Open' = missed \cup changed
    BY <1>1, <1>7 DEF Sending, Open
  <2> HIDE DEF changed
  <2>2. \A o \in DOMAIN subs' \ Open' : Shown(o)'
    BY <1>1, <1>2, <2>1
  <2>3. \A i \in Queued("values")' : DOMAIN calls'[i].arg \subseteq Open'
    BY <1>4, <1>7, <2>1 DEF Queued
  <2>4. ~SureOf("main", "values")'
    BY <1>1, <1>7 DEF SureOf
  <2>5. QED BY <1>1, <1>7, <2>1, <2>2, <2>3, <2>4 DEF ValuesInv
<1>8. CASE UNCHANGED <<thread, calls, missed>> /\ changed = {}
  BY <1>7, <1>8
<1>9. QED
  BY <1>6, <1>7, <1>8 DEF SendValues, arg

LEMMA ValuesAfterValues ==
  ASSUME CallTypes, ValuesInv, ValuesReturn
  PROVE  ValuesInv'
<1>1. /\ Returns("main", {"values"}) /\ "main" \in Threads /\ UNCHANGED <<fw, subs>>
      /\ thread["main"].op = "values" /\ Sending = DOMAIN thread["main"].arg
  BY DEF ValuesReturn, Returns, Threads, Sending
<1>2. /\ DOMAIN calls' = DOMAIN calls
      /\ \A i \in DOMAIN calls :
           calls'[i].op = calls[i].op /\ calls'[i].arg = calls[i].arg
  BY <1>1, ReturnsEffect
<1>3. thread'["main"].op = "none" /\ thread'["main"].pc = "idle"
  BY <1>1, ReturnsEffect DEF CallTypes, TypeOK, Idle
<1>4. Sending' = {} /\ Open' = missed'
  BY <1>3 DEF Sending, Open
<1>5. ~SureOf("main", "values")'
  BY <1>3 DEF SureOf
<1>6. Queued("values")' = Queued("values")
  BY <1>2 DEF Queued
<1>7. CASE Outcome("main") = "ok" /\ thread["main"].sure
  <2>1. SureOf("main", "values") /\ thread["main"].pc = "ok"
    BY <1>1, <1>7 DEF SureOf, Outcome
  <2>2. /\ Queued("values") = {}
        /\ \A o \in Sending : /\ fw.shown[o] = thread["main"].arg[o]
                              /\ thread["main"].arg[o] = subs[o]
    BY <2>1 DEF ValuesInv
  <2>3. missed' = missed \ Sending
    BY <1>1, <1>7 DEF ValuesReturn
  <2>4. ASSUME NEW o \in DOMAIN subs \ missed' PROVE Shown(o)'
    <3>1. CASE o \in Sending
      BY <1>1, <2>2, <3>1 DEF Shown
    <3>2. CASE o \notin Sending
      BY <1>1, <2>3, <2>4, <3>2 DEF Shown, ValuesInv, Open
    <3>3. QED BY <3>1, <3>2
  <2>5. QED BY <1>1, <1>3, <1>4, <1>5, <1>6, <2>2, <2>4 DEF ValuesInv
<1>8. CASE ~(Outcome("main") = "ok" /\ thread["main"].sure)
  <2>1. missed' = Open
    BY <1>1, <1>8 DEF ValuesReturn, Open
  <2>2. \A o \in DOMAIN subs \ missed' : Shown(o)'
    BY <1>1, <2>1 DEF Shown, ValuesInv
  <2>3. \A i \in Queued("values")' : DOMAIN calls'[i].arg \subseteq Open'
    BY <1>2, <1>4, <1>6, <2>1 DEF ValuesInv, Queued
  <2>4. QED BY <1>1, <1>3, <1>4, <1>5, <2>2, <2>3 DEF ValuesInv
<1>9. QED BY <1>7, <1>8

LEMMA ValuesAfterExecute ==
  ASSUME CallTypes, ValuesInv, AwaitedCalls, Execute
  PROVE  ValuesInv'
<1> DEFINE c == Head(calls)
<1>1. UNCHANGED <<subs, missed>> /\ "main" \in Threads
  BY DEF Execute, Threads
<1>2. /\ 1 \in DOMAIN calls /\ calls[1] = c
      /\ \A i \in DOMAIN calls' : i + 1 \in DOMAIN calls /\ calls'[i] = calls[i + 1]
      /\ \A i \in DOMAIN calls' : i \in Nat \ {0}
      /\ \A w \in Threads :
           /\ thread'[w].op = thread[w].op /\ thread'[w].arg = thread[w].arg
           /\ thread'[w].sure = thread[w].sure
           /\ \/ thread'[w].pc = thread[w].pc
              \/ w = c.by /\ c.awaited /\ thread'[w].pc \in {"ok", "error"}
  BY ExecuteEffect
<1>3. \/ fw' = Granted(c)
      \/ fw' = fw /\ c.op = "lock"
  BY ExecuteEffect
<1>4. /\ c.op = "lock" => fw'.shown = fw.shown
      /\ c.op # "lock" => fw'.shown = [o \in Oitds |-> IF o \in DOMAIN c.arg THEN c.arg[o]
                                                       ELSE fw.shown[o]]
  BY <1>3 DEF Granted, CallTypes, TypeOK
<1>5. c.op \in {"lock", "values"} /\ DOMAIN subs \subseteq Oitds
      /\ \A i \in DOMAIN calls : calls[i].op \in {"lock", "values"}
  BY <1>2 DEF CallTypes, TypeOK, LockCall, ValuesCall
<1>6. c.awaited => thread[c.by].op = c.op /\ thread[c.by].arg = c.arg
  BY <1>2 DEF AwaitedCalls
<1> HIDE DEF c
<1>7. Sending' = Sending /\ Open' = Open
  BY <1>1, <1>2 DEF Sending, Open
<1>8. c.op = "values" => DOMAIN c.arg \subseteq Open
  BY <1>2 DEF ValuesInv, Queued
<1>9. ASSUME NEW o \in DOMAIN subs \ Open PROVE Shown(o)'
  <2>1. fw'.shown[o] = fw.shown[o]
    BY <1>4, <1>5, <1>8, <1>9
  <2>2. QED BY <1>1, <1>9, <2>1 DEF ValuesInv, Shown
<1>10. \A i \in Queued("values")' : DOMAIN calls'[i].arg \subseteq Open'
  BY <1>2, <1>7 DEF ValuesInv, Queued
<1>11. \A o \in Sending' : o \in DOMAIN subs' /\ thread'["main"].arg[o] = subs'[o]
  BY <1>1, <1>2, <1>7 DEF ValuesInv
<1>12. ASSUME SureOf("main", "values")'
       PROVE  /\ \A i, j \in DOMAIN calls' :
                   calls'[j].awaited /\ calls'[j].by = "main" /\ calls'[i].op = "values"
                     => i <= j
              /\ thread'["main"].pc = "ok" =>
                   /\ Queued("values")' = {}
                   /\ \A o \in Sending' : fw'.shown[o] = thread'["main"].arg[o]
  <2>1. SureOf("main", "values") /\ thread["main"].op = "values"
    BY <1>1, <1>2, <1>12 DEF SureOf
  <2>2. ASSUME NEW i \in DOMAIN calls', NEW j \in DOMAIN calls',
               calls'[j].awaited, calls'[j].by = "main", calls'[i].op = "values"
        PROVE  i <= j
    <3>1. i + 1 <= j + 1
      BY <1>2, <2>1, <2>2 DEF ValuesInv
    <3>2. QED BY <1>2, <3>1
  <2>3. ASSUME thread["main"].pc = "ok"
        PROVE  /\ Queued("values")' = {}
               /\ \A o \in Sending' : fw'.shown[o] = thread'["main"].arg[o]
    <3>1. /\ Queued("values") = {}
          /\ \A o \in Sending : fw.shown[o] = thread["main"].arg[o]
      BY <2>1, <2>3 DEF ValuesInv
    <3>2. c.op = "lock" /\ Queued("values")' = {}
      BY <1>2, <1>5, <3>1 DEF Queued
    <3>3. QED BY <1>1, <1>2, <1>4, <1>7, <3>1, <3>2
  <2>4. ASSUME c.by = "main", c.awaited
        PROVE  /\ Queued("values")' = {}
               /\ \A o \in Sending' : fw'.shown[o] = thread'["main"].arg[o]
    <3>1. c.op = "values" /\ thread["main"].arg = c.arg /\ Sending = DOMAIN c.arg
      BY <1>6, <2>1, <2>4 DEF Sending
    <3>2. Queued("values")' = {}
      <4>1. ASSUME NEW i \in DOMAIN calls', calls'[i].op = "values" PROVE FALSE
        <5>1. i + 1 <= 1 /\ i \in Nat \ {0}
          BY <1>2, <2>1, <2>4, <4>1 DEF ValuesInv
        <5>2. QED BY <5>1
      <4>2. QED BY <4>1 DEF Queued
    <3>3. \A o \in Sending : o \in Oitds
      BY <1>5 DEF ValuesInv
    <3>4. QED BY <1>1, <1>2, <1>4, <1>7, <3>1, <3>2, <3>3
  <2>5. QED BY <1>1, <1>2, <2>2, <2>3, <2>4
<1>13. thread'["main"].pc \in {"init", "idle"} => thread'["main"].op = "none"
  BY <1>1, <1>2 DEF ValuesInv
<1>14. QED BY <1>1, <1>7, <1>9, <1>10, <1>11, <1>12, <1>13 DEF ValuesInv

LEMMA ValuesAfterSubscribe ==
  ASSUME CallTypes, ValuesInv, NEW oitds \in OitdSets,
         subscribedevicevariables_8_svc(oitds)
  PROVE  ValuesInv'
<1>1. /\ thread["main"].pc = "idle" /\ thread["main"].op = "none"
      /\ UNCHANGED <<thread, calls>> /\ DOMAIN subs \subseteq Oitds
      /\ fw' = [fw EXCEPT !.shown = [o \in Oitds |-> IF o \in oitds THEN None ELSE @[o]]]
  BY DEF subscribedevicevariables_8_svc, FirmwareAsks, TaRuns, ValuesInv, CallTypes, TypeOK
<1>2. Sending = {} /\ Sending' = {} /\ Open = missed /\ Open' = missed'
  BY <1>1 DEF Sending, Open
<1>3. /\ DOMAIN subs' = DOMAIN subs \cup (oitds \cap Oitds)
      /\ \A o \in DOMAIN subs' : subs'[o] = IF o \in oitds THEN -1 ELSE subs[o]
  BY DEF subscribedevicevariables_8_svc, subscribe
<1>4. \A o \in Oitds : fw'.shown[o] = IF o \in oitds THEN None ELSE fw.shown[o]
  BY <1>1 DEF CallTypes, TypeOK
<1>5. \/ missed' = missed
      \/ Queued("values") = {} /\ missed' = missed \ oitds
  BY DEF subscribedevicevariables_8_svc, Queued
<1>6. ASSUME NEW o \in DOMAIN subs' \ Open' PROVE Shown(o)'
  <2>1. CASE o \in oitds
    <3>1. fw'.shown[o] = None /\ subs'[o] = -1
      BY <1>1, <1>3, <1>4, <2>1
    <3>2. QED BY <3>1 DEF Shown
  <2>2. CASE o \notin oitds
    <3>1. o \in DOMAIN subs \ Open
      BY <1>2, <1>3, <1>5, <1>6, <2>2
    <3>2. fw'.shown[o] = fw.shown[o] /\ subs'[o] = subs[o]
      BY <1>1, <1>3, <1>4, <2>2, <3>1
    <3>3. QED BY <3>1, <3>2 DEF ValuesInv, Shown
  <2>3. QED BY <2>1, <2>2
<1>7. \A i \in Queued("values")' : DOMAIN calls'[i].arg \subseteq Open'
  BY <1>1, <1>2, <1>5 DEF ValuesInv, Queued
<1>8. ~SureOf("main", "values")'
  BY <1>1 DEF SureOf
<1>9. QED BY <1>1, <1>2, <1>6, <1>7, <1>8 DEF ValuesInv

LEMMA ValuesAfterUnsubscribe ==
  ASSUME ValuesInv, NEW oitds \in OitdSets, unsubscribedevicevariables_8_svc(oitds)
  PROVE  ValuesInv'
<1>1. /\ thread["main"].pc = "idle" /\ thread["main"].op = "none"
      /\ UNCHANGED <<thread, calls, fw, missed>>
  BY DEF unsubscribedevicevariables_8_svc, FirmwareAsks, TaRuns, ValuesInv
<1>2. Sending = {} /\ Sending' = {} /\ Open = missed /\ Open' = missed
  BY <1>1 DEF Sending, Open
<1>3. \A o \in DOMAIN subs' : o \in DOMAIN subs /\ subs'[o] = subs[o]
  BY DEF unsubscribedevicevariables_8_svc, Restrict
<1>4. \A o \in DOMAIN subs' \ Open' : Shown(o)'
  BY <1>1, <1>2, <1>3 DEF ValuesInv, Shown
<1>5. \A i \in Queued("values")' : DOMAIN calls'[i].arg \subseteq Open'
  BY <1>1, <1>2 DEF ValuesInv, Queued
<1>6. ~SureOf("main", "values")'
  BY <1>1 DEF SureOf
<1>7. QED BY <1>1, <1>2, <1>4, <1>5, <1>6 DEF ValuesInv

LEMMA ValuesAfterRestart ==
  ASSUME CallTypes, ValuesInv, Restart
  PROVE  ValuesInv'
<1>1. /\ calls' = << >> /\ missed' = DOMAIN subs /\ subs' = subs
      /\ thread' = [u \in Threads |-> [thread[u] EXCEPT !.sure =
                                         thread[u].op \notin {"lock", "values"}]]
      /\ "main" \in Threads
  BY DEF Restart, Threads
<1>2. /\ thread'["main"].pc = thread["main"].pc /\ thread'["main"].op = thread["main"].op
      /\ thread'["main"].arg = thread["main"].arg
      /\ thread["main"].op = "values" => ~thread'["main"].sure
  BY <1>1 DEF CallTypes, TypeOK, Calling
<1>3. Sending' = Sending /\ DOMAIN subs' \subseteq Open' /\ DOMAIN calls' = {}
  BY <1>1, <1>2 DEF Sending, Open
<1>4. ~SureOf("main", "values")'
  BY <1>2 DEF SureOf
<1>5. QED BY <1>1, <1>2, <1>3, <1>4 DEF ValuesInv, Queued

LEMMA ValuesStep ==
  CallTypes /\ AwaitedCalls /\ ValuesInv /\ [Next]_vars => ValuesInv'
<1> SUFFICES ASSUME CallTypes, AwaitedCalls, ValuesInv, [Next]_vars PROVE ValuesInv'
  OBVIOUS
<1>1. /\ TypeOK /\ "main" \in Threads
      /\ thread["main"].pc \in {"init", "idle"} => thread["main"].op = "none"
  BY DEF CallTypes, Threads, ValuesInv
\* the steps that leave the values, and the calls with their threads, alone
<1>2. ASSUME UNCHANGED <<thread, calls, subs, missed>>, fw'.shown = fw.shown
      PROVE  ValuesInv'
  BY <1>1, <1>2, ValuesLeft
<1>3. ASSUME NEW u \in Threads, OtherReturns(u) PROVE ValuesInv'
  <2>1. /\ Returns(u, OtherOps \cup {"events"}) /\ "values" \notin OtherOps \cup {"events"}
        /\ UNCHANGED <<fw, subs, missed>>
    BY <1>3 DEF OtherReturns, OtherOps
  <2>2. QED BY <2>1, ValuesAfterReturn
<1>4. ASSUME NEW u \in Threads, LockReturns(u) PROVE ValuesInv'
  <2>1. Returns(u, {"lock"}) /\ UNCHANGED <<fw, subs, missed>>
    BY <1>4 DEF LockReturns
  <2>2. QED BY <2>1, ValuesAfterReturn
<1>5. ASSUME NEW u \in Threads, NEW l \in Locks, tacSetLockSwitchOff(u, l)
      PROVE  ValuesInv'
  <2>1. CASE UNCHANGED <<thread, calls>>
    BY <1>2, <1>5, <2>1 DEF tacSetLockSwitchOff
  <2>2. CASE Call(u, "lock", l)
    <3>1. thread[u].pc = "idle" /\ UNCHANGED <<fw, subs, missed>>
      BY <1>5 DEF tacSetLockSwitchOff, TaRuns
    <3>2. QED BY <2>2, <3>1, ValuesAfterCall
  <2>3. QED BY <1>5, <2>1, <2>2 DEF tacSetLockSwitchOff
<1>6. ASSUME NEW u \in Threads, NEW op \in OtherOps, OtherCall(u, op) PROVE ValuesInv'
  <2>1. thread[u].pc = "idle" /\ Call(u, op, None) /\ UNCHANGED <<fw, subs, missed>>
    BY <1>6 DEF OtherCall, TaRuns
  <2>2. QED BY <2>1, ValuesAfterCall
<1>7. CASE SendEvents
  <2>1. /\ thread["main"].pc = "idle" /\ Call("main", "events", None)
        /\ UNCHANGED <<fw, subs, missed>>
    BY <1>7 DEF SendEvents, TaRuns
  <2>2. QED BY <1>1, <2>1, ValuesAfterCall
<1>8. CASE SkipEvents
  BY <1>2, <1>8 DEF SkipEvents
<1>9. CASE ValuesReturn
  BY <1>9, ValuesAfterValues
<1>10. ASSUME NEW S \in SUBSET Oitds, NEW value \in [S -> Values], SendValues(value)
       PROVE  ValuesInv'
  BY <1>10, ValuesAfterSend
<1>11. CASE Execute
  BY <1>11, ValuesAfterExecute
<1>12. CASE registerAtCctrl
  <2>1. /\ thread["main"].pc = "init" /\ thread' = [thread EXCEPT !["main"] = Idle]
        /\ UNCHANGED <<calls, subs, missed>> /\ fw'.shown = fw.shown
    BY <1>1, <1>12 DEF registerAtCctrl, TypeOK
  <2>2. thread["main"].op = "none" /\ thread'["main"].op = "none"
    BY <1>1, <2>1 DEF TypeOK, Idle
  <2>3. QED BY <2>1, <2>2, ValuesLeft
<1>13. ASSUME NEW oitds \in OitdSets, subscribedevicevariables_8_svc(oitds)
       PROVE  ValuesInv'
  BY <1>13, ValuesAfterSubscribe
<1>14. ASSUME NEW oitds \in OitdSets, unsubscribedevicevariables_8_svc(oitds)
       PROVE  ValuesInv'
  BY <1>14, ValuesAfterUnsubscribe
<1>15. CASE Restart
  BY <1>15, ValuesAfterRestart
<1>16. CASE BackUp
  BY <1>1, <1>2, <1>16 DEF BackUp, TypeOK
<1>17. CASE UNCHANGED vars
  BY <1>2, <1>17 DEF vars
<1>18. QED
  BY <1>3, <1>4, <1>5, <1>6, <1>7, <1>8, <1>9, <1>10, <1>11, <1>12, <1>13,
     <1>14, <1>15, <1>16, <1>17 DEF Next

(* A value sent last is what the firmware shows, through subscriptions     *)
(* anew, calls that time out and are executed late, and restarts, unless   *)
(* a value was lost since (CltDeviceValueProviders).                       *)
THEOREM CallsValuesFollow == Spec => []ValuesFollow
<1>1. Init => ValuesInv
  <2> SUFFICES ASSUME Init PROVE ValuesInv
    OBVIOUS
  <2>1. "main" \in Threads /\ DOMAIN subs = {} /\ DOMAIN calls = {}
    BY DEF Init, Threads
  <2>2. thread["main"].op = "none"
    BY <2>1 DEF Init, Idle
  <2>3. Sending = {} /\ ~SureOf("main", "values")
    BY <2>2 DEF Sending, SureOf
  <2>4. QED BY <2>1, <2>2, <2>3 DEF ValuesInv, Queued
<1>2. ASSUME ValuesInv PROVE ValuesFollow
  BY <1>2 DEF ValuesInv, ValuesFollow, Open, Sending, Shown
<1>3. LocksInv => AwaitedCalls
  BY DEF LocksInv
<1>4. QED
  BY <1>1, <1>2, <1>3, ValuesStep, CallsInvariant, LocksInvariant, PTL DEF Spec
=============================================================================
