-------------------------------- MODULE Report --------------------------------
(***************************************************************************)
(* The report buffer of util/report.cpp.  Any thread puts a line into the  *)
(* ring lineBuf (VReport); the main thread writes the lines out at the end *)
(* of every call that brings signal indications (flushReport).  There is   *)
(* no lock: two atomic counts and the pointer `file' of each line, which   *)
(* is set when the line is complete, are all the synchronisation there is. *)
(*                                                                         *)
(* A line is its number.  Levels, attributes, texts and files are left     *)
(* out, and so is throwAwayCount, which is only printed.                   *)
(***************************************************************************)
EXTENDS Integers, Sequences, FiniteSets

CONSTANTS
  Reporters,      \* threads that report
  Main,           \* the one that flushes
  MAX_BUF_LINES,  \* lines of the ring
  MaxLines        \* bound: no report begins when that many lines are claimed

ASSUME ReportAssumption ==
  /\ IsFiniteSet(Reporters) /\ Main \in Reporters
  /\ MAX_BUF_LINES \in Nat \ {0} /\ MaxLines \in Nat

VARIABLES
  writeCount,  \* number of the line claimed last
  readCount,   \* number of the line written out last
  lineBuf,     \* the ring: is the line ready (file # NULL), and its text
  reporter,    \* the threads in VReport
  flush,       \* the main thread in flushReport
  log,         \* what has been written out
  overrun      \* history: has a line been claimed that was still in use?

reportVars == <<writeCount, readCount, lineBuf, reporter, flush, log, overrun>>

Torn  == -1   \* a text that is being changed, or mixed from two
NotReporting  == [pc |-> "idle", n |-> -1]
Slots == 0 .. MAX_BUF_LINES - 1

Slot(n) == n % MAX_BUF_LINES

ReportInit ==
  /\ writeCount = -1 /\ readCount = -1
  /\ lineBuf = [s \in Slots |-> [ready |-> FALSE, text |-> Torn]]
  /\ reporter = [u \in Reporters |-> NotReporting]
  /\ flush = "idle" /\ log = <<>>
  /\ overrun = FALSE

-----------------------------------------------------------------------------
(* VReport.                                                                *)

\* the test for an overflow reads two counts, one after the other
LoadWriteCount(u) ==
  /\ reporter[u].pc = "idle" /\ (u = Main => flush = "idle")
  /\ writeCount < MaxLines
  /\ reporter' = [reporter EXCEPT ![u] = [pc |-> "test", n |-> writeCount]]
  /\ UNCHANGED <<writeCount, readCount, lineBuf, flush, log, overrun>>

ThrowAway(u) ==
  /\ reporter[u].pc = "test" /\ reporter[u].n >= readCount + MAX_BUF_LINES
  /\ reporter' = [reporter EXCEPT ![u] = NotReporting]
  /\ UNCHANGED <<writeCount, readCount, lineBuf, flush, log, overrun>>

\* mutant: one more line than the ring has
TestOverflow_OneMore(u) ==
  /\ reporter[u].pc = "test" /\ reporter[u].n <= readCount + MAX_BUF_LINES
  /\ reporter' = [reporter EXCEPT ![u].pc = "claim"]
  /\ UNCHANGED <<writeCount, readCount, lineBuf, flush, log, overrun>>

TestOverflow(u) ==
  /\ reporter[u].pc = "test" /\ reporter[u].n < readCount + MAX_BUF_LINES
  /\ reporter' = [reporter EXCEPT ![u].pc = "claim"]
  /\ UNCHANGED <<writeCount, readCount, lineBuf, flush, log, overrun>>

\* mutant: the count is not increased atomically with the load
Claim_NotAtomic(u) ==
  LET n == reporter[u].n + 1 IN
  /\ reporter[u].pc = "claim"
  /\ writeCount' = n
  /\ lineBuf' = [lineBuf EXCEPT ![Slot(n)].text = Torn]
  /\ reporter' = [reporter EXCEPT ![u] = [pc |-> "fill", n |-> n]]
  /\ overrun' = (overrun \/ n > readCount + MAX_BUF_LINES)
  /\ UNCHANGED <<readCount, flush, log>>

\* writeCount.fetch_add, and the first byte of the line
Claim(u) ==
  LET n == writeCount + 1 IN
  /\ reporter[u].pc = "claim"
  /\ writeCount' = n
  /\ lineBuf' = [lineBuf EXCEPT ![Slot(n)].text = Torn]
  /\ reporter' = [reporter EXCEPT ![u] = [pc |-> "fill", n |-> n]]
  /\ overrun' = (overrun \/ n > readCount + MAX_BUF_LINES)
  /\ UNCHANGED <<readCount, flush, log>>

\* the text is complete, unless another thread fills the same line
Texts(u) ==
  LET slot == Slot(reporter[u].n) IN
  IF lineBuf[slot].text # Torn
     \/ \E w \in Reporters \ {u} :
          reporter[w].pc = "fill" /\ Slot(reporter[w].n) = slot
  THEN {reporter[u].n, Torn} ELSE {reporter[u].n}

Commit(u) ==
  /\ reporter[u].pc = "fill"
  /\ \E text \in Texts(u) :
       lineBuf' = [lineBuf EXCEPT ![Slot(reporter[u].n)] =
                     [ready |-> TRUE, text |-> text]]
  /\ reporter' = [reporter EXCEPT ![u] = NotReporting]
  /\ UNCHANGED <<writeCount, readCount, flush, log, overrun>>

-----------------------------------------------------------------------------
(* flushReport.                                                            *)

FlushReport ==
  /\ reporter[Main].pc = "idle" /\ flush = "idle"
  /\ flush' = "look"
  /\ UNCHANGED <<writeCount, readCount, lineBuf, reporter, log, overrun>>

NextLine == lineBuf[Slot(readCount + 1)]

\* nothing new, or the next line is "in preparation ... try next time"
Finished ==
  /\ flush = "look"
  /\ readCount < writeCount => ~NextLine.ready
  /\ flush' = "idle"
  /\ UNCHANGED <<writeCount, readCount, lineBuf, reporter, log, overrun>>

\* getRepLine and writeReport
WriteReport ==
  /\ flush = "look"
  /\ readCount < writeCount /\ NextLine.ready
  /\ log' = Append(log, NextLine.text)
  /\ flush' = "written"
  /\ UNCHANGED <<writeCount, readCount, lineBuf, reporter, overrun>>

\* mutant: the line is counted before it is released
Release_CountsFirst ==
  \/ /\ flush = "written" /\ flush' = "released"
     /\ readCount' = readCount + 1
     /\ UNCHANGED <<writeCount, lineBuf, reporter, log, overrun>>
  \/ /\ flush = "released" /\ flush' = "look"
     /\ lineBuf' = [lineBuf EXCEPT ![Slot(readCount)].ready = FALSE]
     /\ UNCHANGED <<writeCount, readCount, reporter, log, overrun>>

\* RepLine::processed, and readCount++
Release ==
  \/ /\ flush = "written" /\ flush' = "released"
     /\ lineBuf' = [lineBuf EXCEPT ![Slot(readCount + 1)].ready = FALSE]
     /\ UNCHANGED <<writeCount, readCount, reporter, log, overrun>>
  \/ /\ flush = "released" /\ flush' = "look"
     /\ readCount' = readCount + 1
     /\ UNCHANGED <<writeCount, lineBuf, reporter, log, overrun>>

ReportNext ==
  \/ \E u \in Reporters :
       LoadWriteCount(u) \/ ThrowAway(u) \/ TestOverflow(u) \/ Claim(u) \/ Commit(u)
  \/ FlushReport \/ Finished \/ WriteReport \/ Release

ReportSpec == ReportInit /\ [][ReportNext]_reportVars

(* Threads are scheduled, and signal indications, with which the main      *)
(* thread flushes, come every second.                                      *)
ReportFairness ==
  /\ \A u \in Reporters :
       WF_reportVars(ThrowAway(u) \/ TestOverflow(u) \/ Claim(u) \/ Commit(u))
  /\ SF_reportVars(FlushReport)
  /\ WF_reportVars(Finished \/ WriteReport \/ Release)

FairReportSpec == ReportSpec /\ ReportFairness

-----------------------------------------------------------------------------
(* Properties.                                                             *)

\* Types; the test for an overflow and fetch_add are two steps, but each
\* thread beside one can exceed the ring by one line at most (VReport).
ReportTypeOK ==
  /\ writeCount \in -1 .. MaxLines + Cardinality(Reporters)
  /\ readCount \in -1 .. writeCount
  /\ writeCount < readCount + MAX_BUF_LINES + Cardinality(Reporters)
  /\ lineBuf \in [Slots -> [ready : BOOLEAN, text : -1 .. writeCount]]
  /\ reporter \in [Reporters -> [pc : {"idle", "test", "claim", "fill"},
                               n : -1 .. writeCount]]
  /\ flush \in {"idle", "look", "written", "released"}
  /\ log \in Seq(-1 .. writeCount)
  /\ overrun \in BOOLEAN

\* As long as no claim overran the ring, lines are written out whole, once
\* each and in the order of their numbers, without any lock (VReport,
\* flushReport).
LinesInOrder ==
  ~overrun => /\ \A i \in DOMAIN log : log[i] = i - 1
              /\ Len(log) \in {readCount + 1, readCount + 2}

\* As long as no claim overran the ring, every line that is claimed is
\* written out by some flush, though a flush ends at the first line that is
\* not ready (getRepLine, flushReport).
LinesAreWritten ==
  \A n \in 0 .. MaxLines + Cardinality(Reporters) :
    (writeCount >= n) ~> (readCount >= n \/ overrun)

\* A line that is not ready is "in preparation, but not yet finished --> try
\* next time" (comment in getRepLine): some thread is still filling it.
NotReadyIsInPreparation ==
  flush = "look" /\ readCount < writeCount /\ ~NextLine.ready =>
    \E u \in Reporters : reporter[u].pc = "fill" /\ reporter[u].n = readCount + 1

=============================================================================
