------------------------- MODULE StateMessage_proofs -------------------------
(***************************************************************************)
(* Proofs about the cache of state messages.  The inductive invariant adds *)
(* two facts to the properties: what is under way to the firmware is what  *)
(* the cache holds unless the call is torn, and what is raised meanwhile   *)
(* is in unmarked (OutboxInv); without the mark, nothing else is unsent    *)
(* (MarkInv).                                                              *)
(***************************************************************************)
EXTENDS StateMessage, SequenceTheorems, TLAPS

OutboxInv ==
  ~Idle => /\ ~outbox.version => Len(msgs) <= MaxMsg - 1
           /\ outbox.sent # <<>>
                => outbox.sent = Shown(msgs, paramCache, loc_text)
           /\ unsent \subseteq unmarked

MarkInv == ~invalidated => unsent \subseteq unmarked

Inv == /\ TypeOK /\ RecordsAgree /\ UnsentKept /\ FirmwareInSync
       /\ OutboxInv /\ MarkInv

-----------------------------------------------------------------------------
(* A list built element by element is a sequence.                          *)
LEMMA FilledFacts ==
  ASSUME NEW ms \in Seq(Message), NEW i \in Slot, i <= Len(ms) + 1,
         NEW kind \in Kinds \cup Special, MaxMsg \in Nat
  PROVE  /\ FilledMsgs(ms, i, kind) \in Seq(Message)
         /\ Len(FilledMsgs(ms, i, kind)) = IF i > Len(ms) THEN i ELSE Len(ms)
         /\ \A j \in 1 .. Len(FilledMsgs(ms, i, kind)) :
              FilledMsgs(ms, i, kind)[j] =
                IF j = i THEN [kind |-> kind, params |-> i] ELSE ms[j]
<1> DEFINE n == IF i > Len(ms) THEN i ELSE Len(ms)
<1>1. n \in Nat
  BY DEF Slot
<1>2. FilledMsgs(ms, i, kind) \in [1 .. n -> Message]
  <2>1. ASSUME NEW j \in 1 .. n
        PROVE  (IF j = i THEN [kind |-> kind, params |-> i] ELSE ms[j]) \in Message
    <3>1. CASE j = i
      BY <3>1 DEF Message
    <3>2. CASE j # i
      <4>1. j \in 1 .. Len(ms)
        BY <3>2 DEF Slot
      <4>2. ms[j] \in Message
        BY <4>1
      <4>3. QED
        BY <3>2, <4>2
    <3>3. QED
      BY <3>1, <3>2
  <2>2. QED
    BY <2>1 DEF FilledMsgs
<1>3. FilledMsgs(ms, i, kind) \in Seq(Message)
  BY <1>1, <1>2, SeqDef
<1>4. Len(FilledMsgs(ms, i, kind)) = n
  BY <1>1, <1>2, <1>3, LenProperties DEF FilledMsgs
<1>5. QED
  BY <1>1, <1>3, <1>4 DEF FilledMsgs

LEMMA AppendedFacts ==
  ASSUME NEW ms \in Seq(Message), NEW i \in Slot, i = Len(ms) + 1,
         NEW kind \in Kinds \cup Special, MaxMsg \in Nat
  PROVE  /\ FilledMsgs(ms, i, kind) \in Seq(Message)
         /\ Len(FilledMsgs(ms, i, kind)) = i
         /\ FilledMsgs(ms, i, kind)[i] = [kind |-> kind, params |-> i]
         /\ \A j \in 1 .. Len(ms) : FilledMsgs(ms, i, kind)[j] = ms[j]
<1>1. i <= Len(ms) + 1 /\ i > Len(ms)
      /\ i \in 1 .. i /\ \A j \in 1 .. Len(ms) : j \in 1 .. i /\ j # i
  BY DEF Slot
<1> DEFINE F == FilledMsgs(ms, i, kind)
<1> HIDE DEF F
<1>2. /\ F \in Seq(Message)
      /\ Len(F) = IF i > Len(ms) THEN i ELSE Len(ms)
      /\ \A j \in 1 .. Len(F) :
           F[j] = IF j = i THEN [kind |-> kind, params |-> i] ELSE ms[j]
  BY ZenonT(60), <1>1, FilledFacts DEF F
<1>3. Len(F) = i
  BY <1>1, <1>2
<1>4. F[i] = [kind |-> kind, params |-> i]
  BY <1>1, <1>2, <1>3
<1>5. \A j \in 1 .. Len(ms) : F[j] = ms[j]
  BY <1>1, <1>2, <1>3
<1>6. QED
  BY <1>2, <1>3, <1>4, <1>5 DEF F

LEMMA OkFacts ==
  ASSUME MaxMsg \in Nat, MaxMsg >= 1
  PROVE  /\ FilledMsgs(<<>>, 1, "ok") \in Seq(Message)
         /\ Len(FilledMsgs(<<>>, 1, "ok")) = 1
         /\ FilledMsgs(<<>>, 1, "ok")[1] = [kind |-> "ok", params |-> 1]
<1>1. <<>> \in Seq(Message) /\ Len(<<>>) = 0
  OBVIOUS
<1>2. 1 \in Slot /\ 1 = Len(<<>>) + 1
  BY <1>1 DEF Slot
<1>3. "ok" \in Kinds \cup Special
  BY DEF Special
<1>4. QED
  BY <1>1, <1>2, <1>3, AppendedFacts

LEMMA FilledParamsFacts ==
  ASSUME NEW ps \in [Slot -> Params], NEW i \in Slot,
         NEW kind \in Kinds \cup Special, NEW status \in BOOLEAN
  PROVE  /\ FilledParams(ps, i, kind, status) \in [Slot -> Params]
         /\ \A s \in Slot : FilledParams(ps, i, kind, status)[s] =
              IF s = i THEN [kind |-> kind, status |-> status] ELSE ps[s]
BY DEF FilledParams, Params

LEMMA ShownFacts ==
  ASSUME NEW ms \in Seq(Message), NEW ps \in [Slot -> Params],
         NEW text \in Reports \cup {"none"}
  PROVE  /\ Shown(ms, ps, text) \in Sent
         /\ Len(Shown(ms, ps, text)) = Len(ms)
         /\ \A i \in 1 .. Len(ms) : Shown(ms, ps, text)[i] =
              [kind |-> IF ms[i].kind \in Reports THEN text ELSE ms[i].kind,
               params |-> ps[ms[i].params].kind]
<1>1. Len(ms) \in Nat
  OBVIOUS
<1>2. \A i \in 1 .. Len(ms) : ms[i] \in Message
  OBVIOUS
<1> DEFINE R == [kind : Kinds \cup Special, params : Kinds \cup Special]
<1>3. ASSUME NEW i \in 1 .. Len(ms)
      PROVE  [kind |-> IF ms[i].kind \in Reports THEN text ELSE ms[i].kind,
              params |-> ps[ms[i].params].kind] \in R
  <2>1. ms[i].kind \in Kinds \cup Special /\ ps[ms[i].params].kind \in Kinds \cup Special
    BY <1>2 DEF Message, Params
  <2>2. text \in Kinds \cup Special
    BY DEF Kinds, Special
  <2>3. (IF ms[i].kind \in Reports THEN text ELSE ms[i].kind) \in Kinds \cup Special
    BY <2>1, <2>2
  <2>4. QED
    BY <2>1, <2>3
<1> HIDE DEF R
<1>7. Shown(ms, ps, text) \in [1 .. Len(ms) -> R]
  BY <1>3 DEF Shown
<1>8. Shown(ms, ps, text) \in Seq(R)
  BY <1>1, <1>7, SeqDef
<1>4. Shown(ms, ps, text) \in Sent
  BY <1>8 DEF Sent, R
<1>5. Len(Shown(ms, ps, text)) = Len(ms)
  BY <1>1, <1>7, <1>8, LenProperties
<1>6. QED
  BY <1>4, <1>5 DEF Shown

-----------------------------------------------------------------------------
(* The two updates of the cache (UpdateCltMessageEnum).                    *)
LEMMA RaiseFacts ==
  ASSUME MessageAssumption, Inv, NEW kind \in Kinds, NEW status \in BOOLEAN,
         Raise(kind, status)
  PROVE  /\ msgs' \in Seq(Message)
         /\ Len(msgs') <= MaxMsg - 1 \/ Len(msgs') = Len(msgs)
         /\ paramCache' \in [Slot -> Params]
         /\ RecordsAgree'
         /\ unsent' \subseteq Kinds
         /\ unmarked' \subseteq Kinds
         /\ UnsentKept'
         /\ ~Idle => unsent' \subseteq unmarked'
         /\ invalidated' = TRUE /\ firmware' = <<>>
         /\ outbox' = IF Idle THEN outbox ELSE [outbox EXCEPT !.sent = <<>>]
<1> USE DEF MessageAssumption
<1>1. PICK i \in Slot :
        /\ IsSlotFor(i, kind)
        /\ msgs' = FilledMsgs(msgs, i, kind)
        /\ paramCache' = FilledParams(paramCache, i, kind, status)
        /\ unsent' = (unsent \ Overwritten(i)) \cup {kind}
  BY DEF Raise
<1>m. unmarked' = IF Idle THEN unmarked \ {kind} ELSE unmarked \cup {kind}
  BY DEF Raise
<1>2. msgs \in Seq(Message) /\ Len(msgs) \in Nat /\ Len(msgs) <= MaxMsg
      /\ paramCache \in [Slot -> Params] /\ unsent \subseteq Kinds
      /\ unmarked \subseteq Kinds /\ invalidated \in BOOLEAN
  BY DEF Inv, TypeOK
<1>3. \/ i <= Len(msgs) /\ (~invalidated \/ (i = 1 /\ Len(msgs) >= MaxMsg - 1))
      \/ i = Len(msgs) + 1 /\ i <= MaxMsg - 1
  <2> DEFINE reusable ==
        {j \in 1 .. Len(msgs) : ~invalidated /\ Reusable(j, kind)}
  <2>1. CASE reusable # {}
    <3>1. i \in reusable
      BY <1>1, <2>1, Zenon DEF IsSlotFor
    <3>2. i \in 1 .. Len(msgs) /\ ~invalidated
      BY <3>1, Zenon
    <3>3. i <= Len(msgs)
      BY <1>2, <3>2
    <3>4. QED
      BY <3>2, <3>3, Zenon
  <2>2. CASE reusable = {}
    <3>1. i = IF Len(msgs) < MaxMsg - 1 THEN Len(msgs) + 1 ELSE 1
      BY <1>1, <2>2 DEF IsSlotFor
    <3>2. QED
      BY <1>2, <3>1
  <2>3. QED
    BY <2>1, <2>2
<1>4. kind \in Kinds \cup Special
  OBVIOUS
<1>5. /\ msgs' \in Seq(Message)
      /\ Len(msgs') = IF i > Len(msgs) THEN i ELSE Len(msgs)
      /\ \A j \in 1 .. Len(msgs') :
           msgs'[j] = IF j = i THEN [kind |-> kind, params |-> i] ELSE msgs[j]
  <2>1. i <= Len(msgs) + 1
    BY <1>2, <1>3 DEF Slot
  <2>2. QED
    BY <1>1, <1>2, <1>4, <2>1, FilledFacts
<1>6. /\ paramCache' \in [Slot -> Params]
      /\ \A s \in Slot : paramCache'[s] =
           IF s = i THEN [kind |-> kind, status |-> status] ELSE paramCache[s]
  BY <1>1, <1>2, <1>4, FilledParamsFacts
<1>7. RecordsAgree'
  <2>1. \A j \in 1 .. Len(msgs) : paramCache[j].kind = msgs[j].kind
    BY DEF Inv, RecordsAgree
  <2>2. ASSUME NEW j \in 1 .. Len(msgs') PROVE (paramCache')[j].kind = (msgs')[j].kind
    <3>1. j \in Slot /\ (j = i \/ j \in 1 .. Len(msgs))
      BY <1>2, <1>3, <1>5 DEF Slot
    <3>2. QED
      BY <1>5, <1>6, <2>1, <3>1
  <2>3. QED
    BY <2>2 DEF RecordsAgree
<1>8. ASSUME NEW k \in unsent' \ unmarked' PROVE Cached(k)'
  <2>1. i \in 1 .. Len(msgs')
    BY <1>2, <1>5 DEF Slot
  <2>2. CASE k = kind
    BY <1>5, <2>1, <2>2 DEF Cached
  <2>3. CASE k # kind
    <3>1. k \in unsent \ unmarked /\ k \notin Overwritten(i)
      BY <1>1, <1>m, <2>3
    <3>2. PICK j \in 1 .. Len(msgs) : msgs[j].kind = k
      BY <3>1 DEF Inv, UnsentKept, Cached
    <3>3. invalidated
      BY <3>1 DEF Inv, MarkInv, TypeOK
    <3>4. i # j
      BY <1>2, <1>3, <3>1, <3>2, <3>3 DEF Overwritten
    <3>5. j \in 1 .. Len(msgs')
      BY <1>2, <1>5, <3>2 DEF Slot
    <3>6. QED
      BY <1>5, <3>2, <3>4, <3>5 DEF Cached
  <2>4. QED
    BY <2>2, <2>3
<1>9. Len(msgs') <= MaxMsg - 1 \/ Len(msgs') = Len(msgs)
  BY <1>2, <1>3, <1>5
<1>10. unsent' \subseteq Kinds /\ unmarked' \subseteq Kinds
  BY <1>1, <1>2, <1>m
<1>11. ~Idle => unsent' \subseteq unmarked'
  BY <1>1, <1>m DEF Inv, OutboxInv
<1>12. invalidated' = TRUE /\ firmware' = <<>>
  BY DEF Raise, Mark
<1>13. outbox' = IF Idle THEN outbox ELSE [outbox EXCEPT !.sent = <<>>]
  BY DEF Raise, Tear
<1>14. UnsentKept'
  BY <1>8 DEF UnsentKept
<1>15. QED
  BY <1>5, <1>6, <1>7, <1>9, <1>10, <1>11, <1>12, <1>13, <1>14

LEMMA RemoveFacts ==
  ASSUME MessageAssumption, Inv, NEW kind \in Kinds, Remove(kind)
  PROVE  /\ msgs' \in Seq(Message)
         /\ Len(msgs') <= Len(msgs)
         /\ paramCache' \in [Slot -> Params]
         /\ RecordsAgree'
         /\ unsent' \subseteq Kinds
         /\ \A k \in unsent' \ unmarked' : Cached(k)'
         /\ unsent' \subseteq unsent /\ unmarked' = unmarked
         /\ \/ UNCHANGED <<cacheVars, invalidated, sendVars, sentVars>>
            \/ /\ invalidated' = TRUE /\ firmware' = <<>>
               /\ outbox' = IF Idle THEN outbox ELSE [outbox EXCEPT !.sent = <<>>]
<1> USE DEF MessageAssumption
<1>1. /\ msgs \in Seq(Message) /\ Len(msgs) \in Nat /\ Len(msgs) <= MaxMsg
      /\ paramCache \in [Slot -> Params] /\ unsent \subseteq Kinds
      /\ \A j \in 1 .. Len(msgs) : paramCache[j].kind = msgs[j].kind
      /\ \A k \in unsent \ unmarked : Cached(k)
  BY DEF Inv, TypeOK, RecordsAgree, UnsentKept
<1>2. CASE UNCHANGED <<cacheVars, invalidated, sendVars, sentVars>>
  BY <1>1, <1>2 DEF cacheVars, sentVars, RecordsAgree, Cached
<1>3. CASE ~UNCHANGED <<cacheVars, invalidated, sendVars, sentVars>>
  <2>1. PICK i \in Matches(kind) :
          /\ msgs' = [j \in 1 .. Len(msgs) - 1 |->
                        IF j < i THEN msgs[j] ELSE msgs[j + 1]]
          /\ paramCache' = [s \in Slot |->
               IF i <= s /\ s < Len(msgs) THEN paramCache[s + 1]
               ELSE paramCache[s]]
          /\ invalidated' = TRUE /\ firmware' = <<>>
          /\ outbox' = IF Idle THEN outbox ELSE [outbox EXCEPT !.sent = <<>>]
          /\ unsent' = unsent \ {kind} /\ unmarked' = unmarked
    BY <1>3 DEF Remove, Mark, Tear
  <2>2. i \in 1 .. Len(msgs) /\ msgs[i].kind = kind
    BY <1>1, <2>1 DEF Matches
  <2>3. \A j \in 1 .. Len(msgs) : msgs[j] \in Message
    BY <1>1
  <2>4. Len(msgs) - 1 \in Nat
    BY <1>1, <2>2
  <2>5. \A j \in 1 .. Len(msgs) - 1 :
          (IF j < i THEN msgs[j] ELSE msgs[j + 1]) \in Message
    BY <1>1, <2>2, <2>3
  <2>6. msgs' \in [1 .. Len(msgs) - 1 -> Message]
    BY <2>1, <2>5
  <2>7. msgs' \in Seq(Message)
    BY <2>4, <2>6, SeqDef
  <2>8. Len(msgs') = Len(msgs) - 1
    BY <2>1, <2>4, <2>6, <2>7, LenProperties
  <2>9. paramCache' \in [Slot -> Params]
    BY <1>1, <2>1, <2>2 DEF Slot
  <2>10. RecordsAgree'
    <3>1. ASSUME NEW j \in 1 .. Len(msgs') PROVE (paramCache')[j].kind = (msgs')[j].kind
      <4>1. j \in 1 .. Len(msgs) /\ j + 1 \in 1 .. Len(msgs) /\ j \in Slot
            /\ j < Len(msgs)
        BY <1>1, <2>2, <2>8 DEF Slot
      <4>2. CASE j < i
        BY <1>1, <2>1, <2>2, <2>8, <4>1, <4>2
      <4>3. CASE i <= j
        BY <1>1, <2>1, <2>2, <2>8, <4>1, <4>3
      <4>4. QED
        BY <1>1, <2>2, <4>2, <4>3
    <3>2. QED
      BY <3>1 DEF RecordsAgree
  <2>11. ASSUME NEW k \in unsent' \ unmarked' PROVE Cached(k)'
    <3>1. k \in unsent \ unmarked /\ k # kind
      BY <2>1
    <3>2. PICK j \in 1 .. Len(msgs) : msgs[j].kind = k
      BY <1>1, <3>1 DEF Cached
    <3>3. j # i
      BY <2>2, <3>1, <3>2
    <3>4. CASE j < i
      <4>1. j \in 1 .. Len(msgs')
        BY <1>1, <2>2, <2>8, <3>4
      <4>2. (msgs')[j] = msgs[j]
        BY <2>1, <2>8, <3>4, <4>1
      <4>3. QED
        BY <3>2, <4>1, <4>2 DEF Cached
    <3>5. CASE i < j
      <4>1. j - 1 \in 1 .. Len(msgs') /\ ~(j - 1 < i) /\ (j - 1) + 1 = j
        BY <1>1, <2>2, <2>8, <3>5
      <4>2. (msgs')[j - 1] = msgs[j]
        BY <2>1, <2>8, <4>1
      <4>3. QED
        BY <3>2, <4>1, <4>2 DEF Cached
    <3>6. QED
      BY <1>1, <2>2, <3>3, <3>4, <3>5
  <2>12. Len(msgs') <= Len(msgs)
    BY <1>1, <2>8
  <2>13. unsent' \subseteq Kinds /\ unsent' \subseteq unsent
    BY <1>1, <2>1
  <2>14. QED
    BY <2>1, <2>7, <2>9, <2>10, <2>11, <2>12, <2>13
<1>4. QED
  BY <1>2, <1>3

-----------------------------------------------------------------------------
(* sendMessages fills the OK message into an empty cache and appends the   *)
(* version message.                                                        *)
LEMMA SendBeginFacts ==
  ASSUME MessageAssumption, Inv, Idle, NEW cached, cached \in {msgs, <<>>},
         NEW by \in {"main", "page"}, loc_text' = loc_text,
         SendBegin(cached, by)
  PROVE  /\ msgs' \in Seq(Message)
         /\ paramCache' \in [Slot -> Params]
         /\ RecordsAgree'
         /\ Len(msgs') <= MaxMsg
         /\ ~versionDue => Len(msgs') <= MaxMsg - 1
         /\ outbox' = [sent |-> Shown(msgs', paramCache', loc_text),
                       version |-> versionDue, by |-> by]
         /\ Shown(msgs', paramCache', loc_text) \in Sent
         /\ versionDue \in BOOLEAN
         /\ ~Idle'
         /\ unsent' = {} /\ unmarked' = {} /\ versionDue' = FALSE
<1> USE DEF MessageAssumption
<1> DEFINE okMsgs   == IF cached = <<>> THEN FilledMsgs(cached, 1, "ok") ELSE cached
           okParams == IF cached = <<>>
                       THEN FilledParams(paramCache, 1, "ok", paramCache[1].status)
                       ELSE paramCache
<1>1. /\ cached \in Seq(Message) /\ Len(cached) \in Nat /\ Len(cached) <= MaxMsg - 1
      /\ paramCache \in [Slot -> Params] /\ versionDue \in BOOLEAN
      /\ \A j \in 1 .. Len(cached) : paramCache[j].kind = cached[j].kind
  <2>1. /\ msgs \in Seq(Message) /\ Len(msgs) <= MaxMsg - 1
        /\ paramCache \in [Slot -> Params] /\ versionDue \in BOOLEAN
        /\ \A j \in 1 .. Len(msgs) : paramCache[j].kind = msgs[j].kind
    BY DEF Inv, TypeOK, RecordsAgree
  <2>2. CASE cached = msgs
    BY <2>1, <2>2
  <2>3. CASE cached = <<>>
    <3>1. cached \in Seq(Message) /\ Len(cached) = 0
      BY <2>3
    <3>2. QED
      BY <2>1, <3>1
  <2>4. QED
    BY <2>2, <2>3
<1>2. /\ 1 \in Slot /\ paramCache[1].status \in BOOLEAN
      /\ "ok" \in Kinds \cup Special /\ "version" \in Kinds \cup Special
  BY <1>1 DEF Slot, Params, Special
<1>3. /\ okMsgs \in Seq(Message) /\ Len(okMsgs) \in 1 .. MaxMsg - 1
      /\ okParams \in [Slot -> Params]
      /\ \A j \in 1 .. Len(okMsgs) : okParams[j].kind = okMsgs[j].kind
  <2>1. CASE cached = <<>>
    <3>1. Len(cached) = 0
      BY <2>1
    <3>2. /\ okMsgs \in Seq(Message) /\ Len(okMsgs) = 1
          /\ okMsgs[1] = [kind |-> "ok", params |-> 1]
      <4>1. okMsgs = FilledMsgs(<<>>, 1, "ok")
        BY <2>1
      <4> HIDE DEF okMsgs
      <4>2. QED
        BY <4>1, OkFacts
    <3>3. /\ okParams \in [Slot -> Params]
          /\ okParams[1].kind = "ok"
      BY <1>1, <1>2, <2>1 DEF FilledParams, Params
    <3> HIDE DEF okMsgs, okParams
    <3>4. okMsgs[1].kind = "ok" /\ 1 .. Len(okMsgs) = {1} /\ Len(okMsgs) \in 1 .. MaxMsg - 1
      BY <3>2
    <3>5. QED
      BY <3>2, <3>3, <3>4
  <2>2. CASE cached # <<>>
    <3>1. Len(cached) >= 1
      BY <1>1, <2>2
    <3>2. QED
      BY <1>1, <2>2, <3>1
  <2>3. QED
    BY <2>1, <2>2
<1>4. /\ msgs' = IF versionDue THEN FilledMsgs(okMsgs, Len(okMsgs) + 1, "version")
                 ELSE okMsgs
      /\ paramCache' = IF versionDue
                       THEN FilledParams(okParams, Len(okMsgs) + 1, "version", FALSE)
                       ELSE okParams
      /\ outbox' = [sent |-> Shown(msgs', paramCache', loc_text),
                    version |-> versionDue, by |-> by]
      /\ versionDue' = FALSE /\ unsent' = {} /\ unmarked' = {}
  BY DEF SendBegin
<1> HIDE DEF okMsgs, okParams
<1>5. /\ msgs' \in Seq(Message) /\ paramCache' \in [Slot -> Params]
      /\ Len(msgs') = Len(okMsgs) + (IF versionDue THEN 1 ELSE 0)
      /\ \A j \in 1 .. Len(msgs') : (paramCache')[j].kind = (msgs')[j].kind
  <2>1. CASE versionDue
    <3>1. Len(okMsgs) + 1 \in Slot /\ Len(okMsgs) \in Nat
      BY <1>3 DEF Slot
    <3>2. /\ msgs' \in Seq(Message) /\ Len(msgs') = Len(okMsgs) + 1
          /\ \A j \in 1 .. Len(msgs') : (msgs')[j] =
               IF j = Len(okMsgs) + 1
               THEN [kind |-> "version", params |-> Len(okMsgs) + 1] ELSE okMsgs[j]
      BY <1>2, <1>3, <1>4, <2>1, <3>1, FilledFacts
    <3>3. /\ paramCache' \in [Slot -> Params]
          /\ \A j \in Slot : (paramCache')[j] =
               IF j = Len(okMsgs) + 1
               THEN [kind |-> "version", status |-> FALSE] ELSE okParams[j]
      BY <1>2, <1>3, <1>4, <2>1, <3>1 DEF FilledParams, Params
    <3>4. ASSUME NEW j \in 1 .. Len(msgs')
          PROVE  (paramCache')[j].kind = (msgs')[j].kind
      <4>1. j \in Slot /\ (j = Len(okMsgs) + 1 \/ j \in 1 .. Len(okMsgs))
        BY <3>1, <3>2 DEF Slot
      <4>2. QED
        BY <1>3, <3>2, <3>3, <4>1
    <3>5. QED
      BY <2>1, <3>2, <3>3, <3>4
  <2>2. CASE ~versionDue
    BY <1>3, <1>4, <2>2
  <2>3. QED
    BY <2>1, <2>2
<1>6. Len(msgs') \in Nat \ {0} /\ Len(msgs') <= MaxMsg
      /\ (~versionDue => Len(msgs') <= MaxMsg - 1)
  BY <1>1, <1>3, <1>5
<1>7. Shown(msgs', paramCache', loc_text) \in Sent
  <2>1. loc_text \in Reports \cup {"none"}
    BY DEF Inv, TypeOK
  <2>2. QED
    BY <1>5, <2>1, ShownFacts
<1>8. ~Idle'
  BY <1>4 DEF Idle
<1>9. QED
  BY <1>1, <1>4, <1>5, <1>6, <1>7, <1>8 DEF RecordsAgree

(* The call has ended: the version message is dropped, and what was        *)
(* delivered begins with what is left of the cache.                        *)
LEMMA SendEndFacts ==
  ASSUME MessageAssumption, Inv, SendEnd
  PROVE  Inv'
<1> USE DEF MessageAssumption
<1>1. /\ msgs \in Seq(Message) /\ Len(msgs) \in Nat /\ Len(msgs) <= MaxMsg
      /\ paramCache \in [Slot -> Params] /\ ~Idle /\ outbox.version \in BOOLEAN
      /\ outbox.sent \in Sent
      /\ \A j \in 1 .. Len(msgs) : paramCache[j].kind = msgs[j].kind
      /\ ~outbox.version => Len(msgs) <= MaxMsg - 1
      /\ outbox.sent # <<>> => outbox.sent = Shown(msgs, paramCache, loc_text)
      /\ unsent \subseteq unmarked /\ loc_text \in Reports \cup {"none"}
  BY DEF Inv, TypeOK, RecordsAgree, OutboxInv, SendEnd
<1>n. outbox.version => Len(msgs) > 0
  BY <1>1 DEF SendEnd
<1> DEFINE n == IF outbox.version THEN Len(msgs) - 1 ELSE Len(msgs)
<1>2. /\ msgs' \in Seq(Message) /\ Len(msgs') = n /\ n \in Nat /\ n <= MaxMsg - 1
      /\ n <= Len(msgs)
      /\ \A j \in 1 .. n : (msgs')[j] = msgs[j]
  BY <1>1, <1>n DEF SendEnd
<1> HIDE DEF n
<1>3. /\ paramCache' = paramCache /\ loc_text' = loc_text
      /\ unsent' = unsent /\ unmarked' = unmarked
      /\ Idle' /\ outbox' = NoSend
  BY DEF SendEnd, Idle, NoSend, sentVars
<1>4. RecordsAgree' /\ UnsentKept' /\ OutboxInv' /\ MarkInv'
  BY <1>1, <1>2, <1>3 DEF RecordsAgree, UnsentKept, OutboxInv, MarkInv
<1>5. <<>> \in Sent
  BY DEF Sent
<1>6. TypeOK'
  <2>1. TypeOK
    BY DEF Inv
  <2>2. firmware' \in Sent /\ invalidated' = FALSE
        /\ UNCHANGED <<paramCache, initialized, versionDue, stage, loc_text,
                       page, undefined>>
    BY <1>1, <1>5 DEF SendEnd, pageVars
  <2>3. NoSend \in [sent : Sent, version : BOOLEAN, by : {"none", "main", "page"}]
    BY <1>5 DEF NoSend
  <2>4. Len(msgs') <= (IF Idle' THEN MaxMsg - 1 ELSE MaxMsg)
    BY <1>2, <1>3
  <2>5. QED
    BY <1>2, <1>3, <2>1, <2>2, <2>3, <2>4 DEF TypeOK
<1>7. FirmwareInSync'
  <2>1. SUFFICES ASSUME firmware' # <<>>
        PROVE  SubSeq(firmware', 1, Len(msgs')) = Shown(msgs', paramCache', loc_text)
    BY <1>3 DEF FirmwareInSync
  <2>2. firmware' = Shown(msgs, paramCache, loc_text)
    BY <1>1, <2>1 DEF SendEnd
  <2>3. QED
    <3>1. /\ Shown(msgs, paramCache, loc_text) \in Sent
          /\ Len(Shown(msgs, paramCache, loc_text)) = Len(msgs)
          /\ \A i \in 1 .. Len(msgs) : Shown(msgs, paramCache, loc_text)[i] =
               [kind |-> IF msgs[i].kind \in Reports THEN loc_text ELSE msgs[i].kind,
                params |-> paramCache[msgs[i].params].kind]
      BY <1>1, ShownFacts
    <3>2. /\ Shown(msgs', paramCache', loc_text) \in Sent
          /\ Len(Shown(msgs', paramCache', loc_text)) = n
          /\ \A i \in 1 .. n : Shown(msgs', paramCache', loc_text)[i] = Shown(msgs, paramCache, loc_text)[i]
      <4>1. paramCache' \in [Slot -> Params]
        BY <1>1, <1>3
      <4>2. /\ Shown(msgs', paramCache', loc_text) \in Sent
            /\ Len(Shown(msgs', paramCache', loc_text)) = Len(msgs')
            /\ \A i \in 1 .. Len(msgs') : Shown(msgs', paramCache', loc_text)[i] =
                 [kind |-> IF msgs'[i].kind \in Reports THEN loc_text ELSE msgs'[i].kind,
                  params |-> (paramCache')[msgs'[i].params].kind]
        BY <1>1, <1>2, <4>1, ShownFacts
      <4>3. QED
        BY <1>1, <1>2, <1>3, <3>1, <4>2
    <3>3. /\ SubSeq(firmware', 1, n) \in Sent
          /\ Len(SubSeq(firmware', 1, n)) = n
          /\ \A i \in 1 .. n : SubSeq(firmware', 1, n)[i] = Shown(msgs, paramCache, loc_text)[i]
      <4>1. firmware' \in Sent /\ Len(firmware') = Len(msgs)
        BY <2>2, <3>1
      <4>2. \A i \in 1 .. n : i \in 1 .. Len(firmware')
        BY <1>1, <1>2, <4>1
      <4>3. /\ SubSeq(firmware', 1, n) \in Sent
            /\ Len(SubSeq(firmware', 1, n)) = n
            /\ \A i \in 1 .. n : SubSeq(firmware', 1, n)[i] = (firmware')[i]
        <5> DEFINE R == [kind : Kinds \cup Special, params : Kinds \cup Special]
        <5>4. firmware' \in Seq(R)
          BY <4>1 DEF Sent
        <5> HIDE DEF R
        <5>1. \A i \in 1 .. n : (firmware')[i] \in R
          BY <4>2, <5>4
        <5>2. 1 \in Int /\ n \in Int /\ n - 1 + 1 = n /\ \A i \in 1 .. n : 1 + i - 1 = i
          BY <1>2
        <5>3. /\ SubSeq(firmware', 1, n) \in Seq(R)
              /\ Len(SubSeq(firmware', 1, n)) = IF 1 <= n THEN n - 1 + 1 ELSE 0
              /\ \A i \in 1 .. n - 1 + 1 : SubSeq(firmware', 1, n)[i] = (firmware')[1 + i - 1]
          BY <5>1, <5>2, SubSeqProperties
        <5>5. QED
          BY <1>2, <5>2, <5>3 DEF Sent, R
      <4>4. QED
        BY <2>2, <4>3
    <3>4. QED
      BY <1>2, <3>2, <3>3, SeqEqual DEF Sent
<1>8. QED
  BY <1>4, <1>6, <1>7 DEF Inv

-----------------------------------------------------------------------------
(* Every step preserves the invariant.  A message raised or removed marks  *)
(* the cache; a send under way becomes torn.                               *)
LEMMA RaisePreserves ==
  ASSUME MessageAssumption, Inv, NEW kind \in Kinds, NEW status \in BOOLEAN,
         Raise(kind, status), stage' \in 0 .. Len(Checks) + 1,
         loc_text' \in Reports \cup {"none"},
         page' \in Errors \cup {"out", "reset"},
         UNCHANGED <<initialized, versionDue, undefined>>
  PROVE  Inv'
<1> USE DEF MessageAssumption
<1>1. TypeOK /\ OutboxInv
  BY DEF Inv
<1>2. /\ msgs' \in Seq(Message)
      /\ Len(msgs') <= MaxMsg - 1 \/ Len(msgs') = Len(msgs)
      /\ paramCache' \in [Slot -> Params]
      /\ RecordsAgree'
      /\ unsent' \subseteq Kinds /\ unmarked' \subseteq Kinds
      /\ UnsentKept'
      /\ ~Idle => unsent' \subseteq unmarked'
      /\ invalidated' = TRUE /\ firmware' = <<>>
      /\ outbox' = IF Idle THEN outbox ELSE [outbox EXCEPT !.sent = <<>>]
  BY RaiseFacts
<1>3. FirmwareInSync' /\ MarkInv'
  BY <1>2 DEF FirmwareInSync, MarkInv
<1>4. <<>> \in Sent
  BY DEF Sent
<1>5. /\ outbox' \in [sent : Sent, version : BOOLEAN, by : {"none", "main", "page"}]
      /\ outbox'.version = outbox.version /\ outbox'.by = outbox.by
      /\ ~Idle => outbox'.sent = <<>>
  BY <1>1, <1>2, <1>4 DEF TypeOK
<1>6. Idle' = Idle
  BY <1>5 DEF Idle
<1>7. OutboxInv'
  BY <1>1, <1>2, <1>5, <1>6 DEF TypeOK, OutboxInv
<1>8. Len(msgs') <= (IF Idle' THEN MaxMsg - 1 ELSE MaxMsg)
  BY <1>1, <1>2, <1>6 DEF TypeOK
<1>9. TypeOK'
  BY <1>1, <1>2, <1>4, <1>5, <1>8 DEF TypeOK
<1>10. QED
  BY <1>2, <1>3, <1>7, <1>9 DEF Inv

LEMMA RemovePreserves ==
  ASSUME MessageAssumption, Inv, NEW kind \in Kinds, Remove(kind),
         stage' \in 0 .. Len(Checks) + 1,
         UNCHANGED <<initialized, versionDue, loc_text, pageVars>>
  PROVE  Inv'
<1> USE DEF MessageAssumption
<1>1. /\ msgs' \in Seq(Message)
      /\ Len(msgs') <= Len(msgs)
      /\ paramCache' \in [Slot -> Params]
      /\ RecordsAgree'
      /\ unsent' \subseteq Kinds
      /\ \A k \in unsent' \ unmarked' : Cached(k)'
      /\ unsent' \subseteq unsent /\ unmarked' = unmarked
      /\ \/ UNCHANGED <<cacheVars, invalidated, sendVars, sentVars>>
         \/ /\ invalidated' = TRUE /\ firmware' = <<>>
            /\ outbox' = IF Idle THEN outbox ELSE [outbox EXCEPT !.sent = <<>>]
  BY RemoveFacts
<1>2. TypeOK /\ OutboxInv
  BY DEF Inv
<1>3. FirmwareInSync' /\ MarkInv'
  <2>1. CASE invalidated' = TRUE
    BY <2>1 DEF FirmwareInSync, MarkInv
  <2>2. CASE UNCHANGED <<cacheVars, invalidated, sendVars, sentVars>>
    BY <2>2 DEF Inv, FirmwareInSync, MarkInv, cacheVars, sendVars, sentVars, Idle
  <2>3. QED
    BY <1>1, <2>1, <2>2
<1>4. <<>> \in Sent
  BY DEF Sent
<1>5. /\ outbox' \in [sent : Sent, version : BOOLEAN, by : {"none", "main", "page"}]
      /\ outbox'.version = outbox.version /\ outbox'.by = outbox.by
      /\ firmware' \in Sent /\ invalidated' \in BOOLEAN
      /\ \/ UNCHANGED <<msgs, paramCache, outbox>>
         \/ ~Idle => outbox'.sent = <<>>
  BY <1>1, <1>2, <1>4 DEF TypeOK, sendVars, cacheVars
<1>6. Idle' = Idle
  BY <1>5 DEF Idle
<1>7. OutboxInv'
  BY <1>1, <1>2, <1>5, <1>6 DEF TypeOK, OutboxInv
<1>8. Len(msgs') <= (IF Idle' THEN MaxMsg - 1 ELSE MaxMsg)
  BY <1>1, <1>2, <1>6 DEF TypeOK
<1>9. TypeOK'
  BY <1>1, <1>2, <1>5, <1>8 DEF TypeOK, pageVars
<1>10. UnsentKept'
  BY <1>1 DEF UnsentKept
<1>11. QED
  BY <1>1, <1>3, <1>7, <1>9, <1>10 DEF Inv

LEMMA SendBeginPreserves ==
  ASSUME MessageAssumption, Inv, Idle, NEW cached, cached \in {msgs, <<>>},
         NEW by \in {"main", "page"}, SendBegin(cached, by),
         stage' \in 0 .. Len(Checks) + 1,
         page' \in Errors \cup {"out", "reset"},
         UNCHANGED <<invalidated, initialized, loc_text, firmware, undefined>>
  PROVE  Inv'
<1>1. /\ msgs' \in Seq(Message)
      /\ paramCache' \in [Slot -> Params]
      /\ RecordsAgree'
      /\ Len(msgs') <= MaxMsg
      /\ ~versionDue => Len(msgs') <= MaxMsg - 1
      /\ outbox' = [sent |-> Shown(msgs', paramCache', loc_text),
                    version |-> versionDue, by |-> by]
      /\ Shown(msgs', paramCache', loc_text) \in Sent
      /\ versionDue \in BOOLEAN
      /\ ~Idle'
      /\ unsent' = {} /\ unmarked' = {} /\ versionDue' = FALSE
  BY SendBeginFacts
<1>2. UnsentKept' /\ FirmwareInSync' /\ MarkInv'
  BY <1>1 DEF UnsentKept, FirmwareInSync, MarkInv
<1>3. OutboxInv'
  <2>1. outbox'.version = versionDue
        /\ outbox'.sent = Shown(msgs', paramCache', loc_text')
    BY <1>1
  <2>2. QED
    BY <1>1, <2>1 DEF OutboxInv
<1>4. outbox' \in [sent : Sent, version : BOOLEAN, by : {"none", "main", "page"}]
  BY <1>1
<1>5. TypeOK'
  BY <1>1, <1>4 DEF Inv, TypeOK
<1>6. QED
  BY <1>1, <1>2, <1>3, <1>5 DEF Inv

LEMMA InitInv ==
  ASSUME MessageAssumption, Init
  PROVE  Inv
<1>1. Len(msgs) = 0 /\ msgs \in Seq(Message) /\ Idle
  BY DEF Init, Idle, NoSend
<1>2. <<>> \in Sent
  BY DEF Sent
<1>3. TypeOK
  <2>1. paramCache \in [Slot -> Params]
    BY DEF Init, Params, Special
  <2>2. outbox \in [sent : Sent, version : BOOLEAN, by : {"none", "main", "page"}]
    BY <1>2 DEF Init, NoSend
  <2>3. Len(msgs) <= (IF Idle THEN MaxMsg - 1 ELSE MaxMsg)
    BY <1>1 DEF MessageAssumption
  <2>4. 0 \in 0 .. Len(Checks) + 1
    BY DEF MessageAssumption
  <2>5. QED
    BY <1>1, <1>2, <2>1, <2>2, <2>3, <2>4 DEF Init, TypeOK
<1>4. RecordsAgree /\ UnsentKept /\ FirmwareInSync /\ OutboxInv /\ MarkInv
  BY <1>1 DEF Init, RecordsAgree, UnsentKept, FirmwareInSync, OutboxInv, MarkInv
<1>5. QED
  BY <1>3, <1>4 DEF Inv

LEMMA NextInv ==
  ASSUME MessageAssumption, Inv, [Next]_vars
  PROVE  Inv'
<1> USE DEF MessageAssumption
<1>0. /\ stage \in 0 .. Len(Checks) + 1 /\ Warning \subseteq Kinds
      /\ Errors \subseteq Kinds /\ Reports \subseteq Kinds
      /\ 0 \in 0 .. Len(Checks) + 1 /\ Len(Checks) + 1 \in 0 .. Len(Checks) + 1
      /\ 1 \in 0 .. Len(Checks) + 1
      /\ loc_text \in Reports \cup {"none"}
      /\ page \in Errors \cup {"out", "reset"}
  BY DEF Inv, TypeOK, Kinds
<1>a. <<>> \in Sent
  BY DEF Sent
<1>1. CASE InitStateMessages
  BY <1>0, <1>1, <1>a DEF InitStateMessages, Mark, MainRuns, Inv, TypeOK,
     RecordsAgree, UnsentKept, FirmwareInSync, OutboxInv, MarkInv, cacheVars,
     pageVars, sentVars, Idle, Cached
<1>2. ASSUME UNCHANGED <<cacheVars, invalidated, sendVars, sentVars, loc_text>>,
             initialized' = initialized, versionDue' \in BOOLEAN,
             stage' \in 0 .. Len(Checks) + 1,
             page' \in Errors \cup {"out", "reset"}, undefined' \in BOOLEAN
      PROVE  Inv'
  <2>1. UNCHANGED <<msgs, paramCache, outbox, firmware, unsent, unmarked>>
    BY <1>2 DEF cacheVars, sendVars, sentVars
  <2>2. TypeOK'
    BY <1>2, <2>1 DEF Inv, TypeOK, Idle
  <2>3. RecordsAgree' /\ UnsentKept' /\ MarkInv'
    BY <1>2, <2>1 DEF Inv, RecordsAgree, UnsentKept, MarkInv, Cached
  <2>4. OutboxInv' /\ FirmwareInSync'
    BY <1>2, <2>1 DEF Inv, OutboxInv, FirmwareInSync, Idle
  <2>5. QED
    BY <2>2, <2>3, <2>4 DEF Inv
<1>3. CASE Second
  BY <1>0, <1>2, <1>3 DEF Second, pageVars, Inv, TypeOK
<1>4. CASE SkipTA
  BY <1>0, <1>2, <1>4 DEF SkipTA, pageVars, Inv, TypeOK
<1>5. CASE Check
  <2>1. Checks[stage] \in Kinds /\ stage' \in 0 .. Len(Checks) + 1
    BY <1>0, <1>5 DEF Check, Warning
  <2>2. CASE Raise(Checks[stage], TRUE)
    BY <1>0, <1>5, <2>1, <2>2, RaisePreserves DEF Check, pageVars
  <2>3. CASE Remove(Checks[stage])
    BY <1>0, <1>5, <2>1, <2>3, RemovePreserves DEF Check
  <2>4. QED
    BY <1>5, <2>2, <2>3 DEF Check
<1>6. CASE Flush
  <2>1. CASE ~invalidated
    BY <1>0, <1>2, <1>6, <2>1 DEF Flush, Inv, TypeOK, cacheVars, sendVars, pageVars
  <2>2. CASE invalidated
    BY <1>0, <1>6, <2>2, SendBeginPreserves DEF Flush, pageVars
  <2>3. QED
    BY <2>1, <2>2
<1>7. CASE SendEnd
  BY <1>7, SendEndFacts
<1>8. CASE TabuMeldungAbsetzen
  BY <1>0, <1>8, RaisePreserves DEF TabuMeldungAbsetzen, pageVars
<1>9. CASE WriteReportToDetailStateHistory
  <2>1. PICK kind \in Reports : loc_text' = kind /\ Raise(kind, FALSE)
    BY <1>9 DEF WriteReportToDetailStateHistory
  <2>2. QED
    BY <1>0, <1>9, <2>1, RaisePreserves DEF WriteReportToDetailStateHistory, pageVars
<1>10. CASE ResetStatus
  <2>1. /\ msgs' = <<>> /\ Len(msgs') = 0 /\ msgs' \in Seq(Message)
        /\ invalidated' = TRUE /\ firmware' = <<>> /\ unsent' = {}
        /\ outbox' = IF Idle THEN outbox ELSE [outbox EXCEPT !.sent = <<>>]
        /\ UNCHANGED <<paramCache, initialized, versionDue, stage, loc_text,
                       page, undefined, unmarked>>
    BY <1>10 DEF ResetStatus, Mark, Tear, pageVars
  <2>2. TypeOK
    BY DEF Inv
  <2>3. /\ outbox' \in [sent : Sent, version : BOOLEAN, by : {"none", "main", "page"}]
        /\ outbox'.by = outbox.by /\ (~Idle => outbox'.sent = <<>>)
    BY <1>a, <2>1, <2>2 DEF TypeOK
  <2>4. Idle' = Idle
    BY <2>3 DEF Idle
  <2>5. TypeOK'
    BY <1>a, <2>1, <2>2, <2>3, <2>4 DEF TypeOK
  <2>6. QED
    BY <2>1, <2>3, <2>4, <2>5 DEF Inv, RecordsAgree, UnsentKept,
       FirmwareInSync, OutboxInv, MarkInv
<1>11. CASE SetVersion
  BY <1>0, <1>2, <1>11 DEF SetVersion, pageVars, Inv, TypeOK
<1>12. CASE PageEnters
  BY <1>0, <1>2, <1>12 DEF PageEnters, Inv, TypeOK
<1>13. CASE PageRaises
  BY <1>0, <1>13, RaisePreserves DEF PageRaises
<1>14. CASE PageReset
  BY <1>0, <1>14, SendBeginPreserves DEF PageReset
<1>15. CASE Breaks
  BY <1>0, <1>2, <1>15 DEF Breaks, Inv, TypeOK
<1>16. CASE UNCHANGED vars
  BY <1>0, <1>2, <1>16 DEF vars, pageVars, Inv, TypeOK
<1>17. QED
  BY <1>1, <1>3, <1>4, <1>5, <1>6, <1>7, <1>8, <1>9, <1>10, <1>11, <1>12,
     <1>13, <1>14, <1>15, <1>16 DEF Next

LEMMA InvHolds == MessageAssumption /\ Spec => []Inv
<1>1. MessageAssumption /\ Init => Inv
  BY InitInv
<1>2. MessageAssumption /\ Inv /\ [Next]_vars => Inv'
  BY NextInv
<1>3. QED
  BY MessageAssumption, <1>1, <1>2, PTL DEF Spec

-----------------------------------------------------------------------------
(* The watermark stays within the arrays for every maxMsg of at least 3,   *)
(* whatever is raised, removed, reset or sent (sendMessages appends up to  *)
(* two messages that UpdateCltMessageEnum does not count on).              *)
THEOREM WatermarkInBounds == Spec => []TypeOK
BY MessageAssumption, InvHolds, PTL DEF Inv

(* What the page prints beside a message, and what a removal compares, are *)
(* the parameters of that message (printTableOfSentMessages).              *)
THEOREM RecordsStayTogether == Spec => []RecordsAgree
BY MessageAssumption, InvHolds, PTL DEF Inv

(* No update is overwritten before it was sent unless the cache is full,   *)
(* whatever formats it shares with others; one raised during a send is     *)
(* excepted, since the end of the send unmarks it (the guard on            *)
(* invalidated in UpdateCltMessageEnum).                                   *)
THEOREM UpdatesReachTheFlush == Spec => []UnsentKept
BY MessageAssumption, InvHolds, PTL DEF Inv

(* Between the flushes the firmware shows the cache, if the last send      *)
(* succeeded undisturbed (flushStateMessages, sendMessages).               *)
THEOREM FirmwareShowsTheCache == Spec => []FirmwareInSync
BY MessageAssumption, InvHolds, PTL DEF Inv
=============================================================================
