---------------------------- MODULE StateMessage ----------------------------
(***************************************************************************)
(* util/StateMessage.cpp: the cache of state messages (warnings of the     *)
(* wrapper, errors of the TA, reports) that the firmware shows.  The       *)
(* handler of the signal indications (CControl_server.cpp) raises or       *)
(* removes the wrapper's warnings, runs the TA function, and sends the     *)
(* whole cache when something changed.                                     *)
(*                                                                         *)
(* A kind stands for a pair <<wErrorID, nr>>; several kinds may share one  *)
(* format string.  Only removals by the pair occur (anzPar = 1).  The      *)
(* cache is msgs, its watermark msgCount the length of msgs; slots are     *)
(* counted from 1.  A message points to its parameters in paramCache.      *)
(*                                                                         *)
(* Two threads use the cache, without a lock: the main thread (handler, TA *)
(* and flushReport) and that of the page, which raises errors and sends    *)
(* after its reset.  outbox is the call setcltstatus_8 under way, during   *)
(* which the other thread may change the cache.  What happens if both are  *)
(* in the cache at once, if both send, or if there is no client, is        *)
(* undefined, and the model ends there.                                    *)
(***************************************************************************)
EXTENDS Integers, Sequences

CONSTANTS
  MaxMsg,       \* maxMsg
  Checks,       \* warnings of the wrapper, in the order it checks them
  Errors,       \* kinds the TA and the page raise by TabuMeldungAbsetzen
  Reports,      \* kinds raised by reports with APP_HISTORY, one-shot
  Format        \* the format string of each kind

Warning == {Checks[i] : i \in 1 .. Len(Checks)}
Kinds   == Warning \cup Errors \cup Reports

\* what sendMessages adds, and a slot never filled
Special == {"ok", "version", "none"}

ASSUME MessageAssumption ==
  /\ MaxMsg \in Nat /\ MaxMsg >= 3
  /\ Len(Checks) \in Nat \ {0}
  /\ DOMAIN Format = Kinds
  /\ Kinds \cap Special = {}

VARIABLES
  msgs,          \* [kind, params]: the message and the slot it points to
  paramCache,    \* [kind, status]: for each slot
  invalidated,
  initialized,
  versionDue,    \* isVersionInvalidated
  stage,         \* 0: idle, i: next the i-th check, Len(Checks)+1: flush
  loc_text,      \* the text of all reports: that of the last one
  outbox,        \* [sent, version, by], or NoSend; sent is <<>> if the other
                 \* thread has changed the cache meanwhile
  page,          \* what the page's thread is about to do with the cache
  undefined,     \* has undefined behaviour happened?
  firmware,      \* history: what the last send delivered, <<>> if it failed,
                 \* was torn, or the cache is marked as changed since
  unsent,        \* history: kinds raised since the last send began
  unmarked       \* history: those of them that were raised during a send

cacheVars == <<msgs, paramCache>>
sendVars  == <<outbox, firmware>>
pageVars  == <<page, undefined>>
sentVars  == <<unsent, unmarked>>
vars == <<cacheVars, invalidated, initialized, versionDue, stage, loc_text,
          sendVars, pageVars, sentVars>>

Slot    == 1 .. MaxMsg
Message == [kind : Kinds \cup Special, params : Slot]
Params  == [kind : Kinds \cup Special, status : BOOLEAN]
Sent    == Seq([kind : Kinds \cup Special, params : Kinds \cup Special])

NoSend == [sent |-> <<>>, version |-> FALSE, by |-> "none"]
Idle   == outbox.by = "none"

\* the main thread is not within a send, and the page not in the cache
MainRuns == ~undefined /\ (Idle \/ outbox.by = "page") /\ page = "out"

\* AWP_Init runs, or the TA function
TARuns == MainRuns /\ (~initialized \/ stage = Len(Checks))

Init ==
  /\ msgs = <<>>
  /\ paramCache = [s \in Slot |-> [kind |-> "none", status |-> FALSE]]
  /\ invalidated = FALSE /\ initialized = FALSE /\ versionDue = TRUE
  /\ stage = 0
  /\ loc_text = "none"
  /\ outbox = NoSend /\ firmware = <<>>
  /\ page = "out" /\ undefined = FALSE
  /\ unsent = {} /\ unmarked = {}

-----------------------------------------------------------------------------
(* UpdateCltMessageEnum, format given.                                     *)

\* the message may be overwritten by one of this kind
Reusable(i, kind) ==
  \/ msgs[i].kind \in Kinds /\ Format[msgs[i].kind] = Format[kind]
  \/ ~paramCache[i].status

\* mutant: a message of this second is overwritten
IsSlotFor_Overwrites(i, kind) ==
  LET reusable == {j \in 1 .. Len(msgs) : Reusable(j, kind)} IN
  IF reusable # {} THEN i \in reusable /\ \A j \in reusable : i <= j
  ELSE i = IF Len(msgs) < MaxMsg - 1 THEN Len(msgs) + 1 ELSE 1

\* mutant: no place is left for the version message
IsSlotFor_Fills(i, kind) ==
  LET reusable == {j \in 1 .. Len(msgs) : ~invalidated /\ Reusable(j, kind)} IN
  IF reusable # {} THEN i \in reusable /\ \A j \in reusable : i <= j
  ELSE i = IF Len(msgs) < MaxMsg THEN Len(msgs) + 1 ELSE 1

IsSlotFor(i, kind) ==
  LET reusable == {j \in 1 .. Len(msgs) : ~invalidated /\ Reusable(j, kind)} IN
  IF reusable # {} THEN i \in reusable /\ \A j \in reusable : i <= j
  ELSE i = IF Len(msgs) < MaxMsg - 1 THEN Len(msgs) + 1 ELSE 1

\* fillMessage: messages ms, parameters ps with slot i filled
FilledMsgs(ms, i, kind) ==
  [j \in 1 .. (IF i > Len(ms) THEN i ELSE Len(ms)) |->
     IF j = i THEN [kind |-> kind, params |-> i] ELSE ms[j]]
FilledParams(ps, i, kind, status) ==
  [ps EXCEPT ![i] = [kind |-> kind, status |-> status]]

\* what a full cache gives up
Overwritten(i) ==
  IF Len(msgs) >= MaxMsg - 1 /\ i = 1 THEN {msgs[1].kind} ELSE {}

Mark == invalidated' = TRUE /\ firmware' = <<>>

\* a send that is under way when the cache changes delivers anything
Tear == outbox' = IF Idle THEN outbox ELSE [outbox EXCEPT !.sent = <<>>]

Raise(kind, status) ==
  /\ \E i \in Slot :
       /\ IsSlotFor(i, kind)
       /\ msgs' = FilledMsgs(msgs, i, kind)
       /\ paramCache' = FilledParams(paramCache, i, kind, status)
       /\ unsent' = (unsent \ Overwritten(i)) \cup {kind}
  /\ Mark /\ Tear
  /\ unmarked' = IF Idle THEN unmarked \ {kind} ELSE unmarked \cup {kind}

-----------------------------------------------------------------------------
(* UpdateCltMessageEnum, no format: the first message with these           *)
(* parameters is removed, the messages behind it move up.                  *)

Matches(kind) == {i \in 1 .. Len(msgs) : paramCache[i].kind = kind}

\* mutant: the change is not marked
Remove_Unmarked(kind) ==
  \/ Matches(kind) = {} /\ UNCHANGED <<cacheVars, invalidated, sendVars, sentVars>>
  \/ /\ \E i \in Matches(kind) :
          /\ \A j \in Matches(kind) : i <= j
          /\ msgs' = [j \in 1 .. Len(msgs) - 1 |->
                        IF j < i THEN msgs[j] ELSE msgs[j + 1]]
          /\ paramCache' = [s \in Slot |->
               IF i <= s /\ s < Len(msgs) THEN paramCache[s + 1]
               ELSE paramCache[s]]
     /\ UNCHANGED <<invalidated, firmware>>
     /\ unsent' = unsent \ {kind} /\ UNCHANGED unmarked
     /\ Tear

\* mutant: the parameters do not move
Remove_MessagesOnly(kind) ==
  \/ Matches(kind) = {} /\ UNCHANGED <<cacheVars, invalidated, sendVars, sentVars>>
  \/ /\ \E i \in Matches(kind) :
          /\ \A j \in Matches(kind) : i <= j
          /\ msgs' = [j \in 1 .. Len(msgs) - 1 |->
                        IF j < i THEN msgs[j] ELSE msgs[j + 1]]
          /\ UNCHANGED paramCache
     /\ Mark
     /\ unsent' = unsent \ {kind} /\ UNCHANGED unmarked
     /\ Tear

\* mutant: the last message is never looked at
Remove_SkipsLast(kind) ==
  LET found == Matches(kind) \ {Len(msgs)} IN
  \/ found = {} /\ UNCHANGED <<cacheVars, invalidated, sendVars, sentVars>>
  \/ /\ \E i \in found :
          /\ \A j \in found : i <= j
          /\ msgs' = [j \in 1 .. Len(msgs) - 1 |->
                        IF j < i THEN msgs[j] ELSE msgs[j + 1]]
          /\ paramCache' = [s \in Slot |->
               IF i <= s /\ s < Len(msgs) THEN paramCache[s + 1]
               ELSE paramCache[s]]
     /\ Mark
     /\ unsent' = unsent \ {kind} /\ UNCHANGED unmarked
     /\ Tear

Remove(kind) ==
  \/ Matches(kind) = {} /\ UNCHANGED <<cacheVars, invalidated, sendVars, sentVars>>
  \/ /\ \E i \in Matches(kind) :
          /\ \A j \in Matches(kind) : i <= j
          /\ msgs' = [j \in 1 .. Len(msgs) - 1 |->
                        IF j < i THEN msgs[j] ELSE msgs[j + 1]]
          /\ paramCache' = [s \in Slot |->
               IF i <= s /\ s < Len(msgs) THEN paramCache[s + 1]
               ELSE paramCache[s]]
     /\ Mark
     /\ unsent' = unsent \ {kind} /\ UNCHANGED unmarked
     /\ Tear

-----------------------------------------------------------------------------
(* sendMessages.  The firmware is given the messages with the parameters   *)
(* they point to; the format of a report points to the text of the last.   *)

Shown(ms, ps, text) ==
  [i \in 1 .. Len(ms) |->
     [kind |-> IF ms[i].kind \in Reports THEN text ELSE ms[i].kind,
      params |-> ps[ms[i].params].kind]]

SendBegin(cached, by) ==
  LET okMsgs   == IF cached = <<>> THEN FilledMsgs(cached, 1, "ok") ELSE cached
      okParams == IF cached = <<>>
                  THEN FilledParams(paramCache, 1, "ok", paramCache[1].status)
                  ELSE paramCache
      last     == Len(okMsgs) + 1
  IN  /\ msgs' = IF versionDue THEN FilledMsgs(okMsgs, last, "version")
                 ELSE okMsgs
      /\ paramCache' = IF versionDue
                       THEN FilledParams(okParams, last, "version", FALSE)
                       ELSE okParams
      /\ outbox' = [sent |-> Shown(msgs', paramCache', loc_text),
                     version |-> versionDue, by |-> by]
      /\ versionDue' = FALSE
      /\ unsent' = {} /\ unmarked' = {}

\* the call succeeds, or fails, or its answer is lost; what was raised
\* meanwhile is not sent, but unmarked
SendEnd ==
  /\ ~undefined /\ ~Idle /\ page = "out"
  /\ outbox.version => msgs # <<>>
  /\ msgs' = IF outbox.version THEN SubSeq(msgs, 1, Len(msgs) - 1) ELSE msgs
  /\ firmware' \in {outbox.sent, <<>>}
  /\ invalidated' = FALSE
  /\ outbox' = NoSend
  /\ UNCHANGED <<paramCache, initialized, versionDue, stage, loc_text, pageVars,
                 sentVars>>

-----------------------------------------------------------------------------
(* The handler of the signal indications.                                  *)

\* initStateMessages, after AWP_Init
InitStateMessages ==
  /\ MainRuns /\ stage = 0 /\ ~initialized
  /\ initialized' = TRUE /\ Mark
  /\ stage' = Len(Checks) + 1
  /\ UNCHANGED <<cacheVars, versionDue, loc_text, outbox, pageVars, sentVars>>

\* the planned tick is reached
Second ==
  /\ MainRuns /\ stage = 0 /\ initialized
  /\ stage' = 1
  /\ UNCHANGED <<cacheVars, invalidated, initialized, versionDue, loc_text,
                 sendVars, pageVars, sentVars>>

\* it is not, or the wrapper mitigates: the TA function is not called
SkipTA ==
  /\ MainRuns /\ stage \in {0, Len(Checks)}
  /\ stage' = Len(Checks) + 1
  /\ UNCHANGED <<cacheVars, invalidated, initialized, versionDue, loc_text,
                 sendVars, pageVars, sentVars>>

Check ==
  /\ MainRuns /\ stage \in 1 .. Len(Checks)
  /\ Raise(Checks[stage], TRUE) \/ Remove(Checks[stage])
  /\ stage' = stage + 1
  /\ UNCHANGED <<initialized, versionDue, loc_text, pageVars>>

\* flushStateMessages
Flush ==
  /\ MainRuns /\ stage = Len(Checks) + 1
  /\ stage' = 0
  /\ \/ ~invalidated /\ UNCHANGED <<cacheVars, outbox, versionDue, sentVars>>
     \/ invalidated /\ Idle /\ SendBegin(msgs, "main")
  /\ UNCHANGED <<invalidated, initialized, loc_text, firmware, pageVars>>

-----------------------------------------------------------------------------
(* The TA, and reports, which the main thread writes (flushReport).        *)

TabuMeldungAbsetzen ==
  /\ TARuns
  /\ \E kind \in Errors : Raise(kind, TRUE)
  /\ UNCHANGED <<initialized, versionDue, stage, loc_text, pageVars>>

WriteReportToDetailStateHistory ==
  /\ MainRuns
  /\ \E kind \in Reports : loc_text' = kind /\ Raise(kind, FALSE)
  /\ UNCHANGED <<initialized, versionDue, stage, pageVars>>

ResetStatus ==
  /\ TARuns /\ initialized
  /\ msgs' = <<>> /\ Mark /\ Tear
  /\ unsent' = {}
  /\ UNCHANGED <<paramCache, initialized, versionDue, stage, loc_text, pageVars,
                 unmarked>>

\* of the TA, or when the component is registered
SetVersion ==
  /\ MainRuns
  /\ versionDue' = TRUE
  /\ UNCHANGED <<cacheVars, invalidated, initialized, stage, loc_text,
                 sendVars, pageVars, sentVars>>

-----------------------------------------------------------------------------
(* The page, in the HTTP thread: an error, or a reset.                     *)

PageEnters ==
  /\ ~undefined /\ page = "out" /\ (Idle \/ outbox.by = "main")
  /\ page' \in Errors \cup {"reset"}
  /\ UNCHANGED <<cacheVars, invalidated, initialized, versionDue, stage,
                 loc_text, sendVars, undefined, sentVars>>

PageRaises ==
  /\ ~undefined /\ page \in Errors
  /\ Raise(page, TRUE)
  /\ page' = "out"
  /\ UNCHANGED <<initialized, versionDue, stage, loc_text, undefined>>

PageReset ==
  /\ ~undefined /\ page = "reset" /\ Idle
  /\ SendBegin(<<>>, "page")
  /\ page' = "out"
  /\ UNCHANGED <<invalidated, initialized, stage, loc_text, firmware,
                 undefined>>

-----------------------------------------------------------------------------
(* Both threads are in the cache; a send finds no client, or the other     *)
(* thread sending; or its msgCount-- finds nothing.                        *)

Breaks ==
  /\ ~undefined
  /\ \/ page # "out"
     \/ MainRuns /\ outbox.by = "page"
     \/ invalidated /\ MainRuns /\ stage = Len(Checks) + 1
     \/ ~Idle /\ outbox.version /\ msgs = <<>>
  /\ undefined' = TRUE
  /\ UNCHANGED <<cacheVars, invalidated, initialized, versionDue, stage,
                 loc_text, sendVars, page, sentVars>>

Next ==
  \/ InitStateMessages \/ Second \/ SkipTA \/ Check \/ Flush \/ SendEnd
  \/ TabuMeldungAbsetzen \/ WriteReportToDetailStateHistory
  \/ ResetStatus \/ SetVersion
  \/ PageEnters \/ PageRaises \/ PageReset \/ Breaks

Spec == Init /\ [][Next]_vars

-----------------------------------------------------------------------------
(* Properties.                                                             *)

(* The watermark stays within the arrays, also with the OK message and the *)
(* version message (sendMessages).                                         *)
TypeOK ==
  /\ Len(msgs) <= (IF Idle THEN MaxMsg - 1 ELSE MaxMsg)
  /\ msgs \in Seq(Message)
  /\ paramCache \in [Slot -> Params]
  /\ invalidated \in BOOLEAN /\ initialized \in BOOLEAN
  /\ versionDue \in BOOLEAN
  /\ stage \in 0 .. Len(Checks) + 1
  /\ loc_text \in Reports \cup {"none"}
  /\ outbox \in [sent : Sent, version : BOOLEAN,
                 by : {"none", "main", "page"}]
  /\ page \in Errors \cup {"out", "reset"}
  /\ undefined \in BOOLEAN
  /\ firmware \in Sent
  /\ unsent \subseteq Kinds /\ unmarked \subseteq Kinds

(* Each message lies beside its own parameters, which is what the page     *)
(* prints and what a removal compares (printTableOfSentMessages).          *)
RecordsAgree == \A i \in 1 .. Len(msgs) : paramCache[i].kind = msgs[i].kind

(* When nothing is marked as changed, the firmware shows what the cache    *)
(* holds, a version message apart, unless the last send failed or the      *)
(* other thread changed the cache meanwhile.                               *)
FirmwareInSync ==
  Idle /\ ~invalidated /\ firmware # <<>>
    => SubSeq(firmware, 1, Len(msgs)) = Shown(msgs, paramCache, loc_text)

Cached(kind) == \E i \in 1 .. Len(msgs) : msgs[i].kind = kind

(* "prevent that messages with the same format string gets overwritten in  *)
(* the same time slot (before flush)": a message raised since the last     *)
(* send began is still there, unless it was removed, the cache was full,   *)
(* or it was raised during that send, whose end unmarks it.                *)
UnsentKept == \A kind \in unsent \ unmarked : Cached(kind)

(* A warning the wrapper no longer raises leaves the cache if the wrapper  *)
(* checks it again and again, though the cache may hold it several times   *)
(* and a removal takes one of them.                                        *)
Checked(kind) ==
  MainRuns /\ stage \in 1 .. Len(Checks) /\ Checks[stage] = kind /\ stage' = stage + 1
RaisedNow(kind)  == Checked(kind) /\ Raise(kind, TRUE)
RemovedNow(kind) == Checked(kind) /\ Remove(kind)
WarningDrains ==
  \A kind \in Warning :
    []<><<RemovedNow(kind)>>_vars /\ <>[][~RaisedNow(kind)]_vars
      => <>[]~Cached(kind)

=============================================================================
