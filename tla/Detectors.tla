------------------------------ MODULE Detectors ------------------------------
(***************************************************************************)
(* class Detectors (mv/Detectors.cpp, mv/api_mv.cpp): what TacKernel knows *)
(* of the vehicle detectors.  Each 100 ms the firmware sends the detectors *)
(* that have changed (detstates_8_svc), over UDP; the main thread counts   *)
(* edges, gaps and occupancy from it, and the TA reads and sets them.  The *)
(* renew thread fills the map of detectors in place before it subscribes.  *)
(*                                                                         *)
(* Each step of the handler's loops is an action, since the renew thread   *)
(* may insert and erase between two of them.  Operations on the map and    *)
(* DetectorValueSet are atomic.  Ticks are counted in 100 ms and relative: *)
(* age is devTick - lastBuCalcTick.  wLU, wSS, quality and error, which    *)
(* nothing else depends on, are left out.                                  *)
(***************************************************************************)
EXTENDS Integers

CONSTANTS
  Det,             \* detector numbers
  ZsMax,           \* limit of wZS
  LsMax,           \* limit of wLS
  UshortMax,       \* USHRT_MAX
  BuPeriod,        \* ticks between two calculations of BU
  AlphaUp,         \* smoothing factors, in percent
  AlphaDown,
  SetValues,       \* values given to DetectorValueSet
  MaxEdges,        \* bound on the edges of a detector within a tick
  VehicleBound,    \* bound on the vehicles since the last reset
  UptimeBound      \* bound on the ticks the firmware has run before a restart

ASSUME DetAssumption ==
  /\ Det \subseteq Int
  /\ UshortMax \in Nat /\ ZsMax \in 0 .. UshortMax /\ LsMax \in 0 .. UshortMax
  /\ BuPeriod \in 1 .. UshortMax
  /\ AlphaUp \in 0 .. 100 /\ AlphaDown \in 0 .. 100
  /\ SetValues \subseteq 0 .. UshortMax
  /\ MaxEdges \in Nat /\ VehicleBound \in Nat /\ UptimeBound \in Nat

VARIABLES
  nr2det,      \* the map of detectors
  main,        \* the handler of detstates_8_svc
  renew,       \* the renew thread
  occupied,    \* is a vehicle on the detector?
  config,      \* detectors configured in the firmware
  subscribed,
  full,        \* the next message lists all detectors
  restarted,   \* history: has the firmware started again?
  since,       \* history: vehicles since wZS was set, what it was set to
               \* included, and so is one that stands there unnoticed
  stale,       \* history: has a change not been noticed?
  exact        \* history: has none been lost since wZS was set?

fwVars   == <<occupied, config, subscribed, full, restarted>>
histVars == <<since, stale, exact>>
vars == <<nr2det, main, renew, fwVars, histVars>>

NewDetector ==
  [au |-> FALSE, zs |-> 0, ls |-> 0, bu10ms |-> 0, bu |-> 0, ba |-> 0,
   age |-> BuPeriod]

\* todo: the detectors of the message still to be gone through; det: the one
\* the handler holds a reference or an iterator to; left: edges still to be
\* handled; status: the message holds a detector status
Waiting == [pc |-> "idle", todo |-> {}, det |-> {}, left |-> [d \in Det |-> 0],
            status |-> FALSE]

Init ==
  /\ nr2det = [d \in {} |-> NewDetector]
  /\ main = Waiting
  /\ renew = [pc |-> "start", params |-> {}]
  /\ occupied \in [Det -> BOOLEAN]
  /\ config \in SUBSET Det
  /\ subscribed = FALSE /\ full = FALSE /\ restarted = FALSE
  /\ since = [d \in Det |-> 0]
  /\ stale = [d \in Det |-> TRUE] /\ exact = [d \in Det |-> FALSE]

Configured == DOMAIN nr2det
Odd(n) == n % 2 = 1
Lesser(m, n) == IF m < n THEN m ELSE n

-----------------------------------------------------------------------------
(* One detector.                                                           *)

\* mutant: a falling edge is missed
SetAU_Holds(det, occ) ==
  IF ~det.au /\ occ
  THEN [det EXCEPT !.au = TRUE, !.zs = IF @ < ZsMax THEN @ + 1 ELSE @,
                   !.ls = 0]
  ELSE det

\* mutant: whoever is there is counted, edge or not
SetAU_Counts(det, occ) ==
  IF occ
  THEN [det EXCEPT !.au = TRUE, !.zs = IF @ < ZsMax THEN @ + 1 ELSE @,
                   !.ls = 0]
  ELSE [det EXCEPT !.au = occ]

\* setAU; a value set above the limit stays
SetAU(det, occ) ==
  IF ~det.au /\ occ
  THEN [det EXCEPT !.au = TRUE, !.zs = IF @ < ZsMax THEN @ + 1 ELSE @,
                   !.ls = 0]
  ELSE [det EXCEPT !.au = occ]

\* mutant: the gap has no limit
GapOrBusy_NoLimit(det) ==
  IF ~det.au
  THEN [det EXCEPT !.ls = @ + 1]
  ELSE [det EXCEPT !.bu10ms = @ + 1]

\* gap, or occupied; a gap set above the limit stays
GapOrBusy(det) ==
  IF ~det.au
  THEN [det EXCEPT !.ls = IF @ < LsMax THEN @ + 1 ELSE @]
  ELSE [det EXCEPT !.bu10ms = @ + 1]

\* mutant: the sum does not start again
CalcBuBa_GoesOn(det) ==
  LET alpha == IF det.bu > det.ba THEN AlphaUp ELSE AlphaDown
  IN  [det EXCEPT
         !.ba = (det.ba * (100 - alpha) + det.bu10ms * alpha) \div 100,
         !.bu = det.bu10ms % (UshortMax + 1),
         !.age = 0]

\* calcBuBa
CalcBuBa(det) ==
  LET alpha == IF det.bu > det.ba THEN AlphaUp ELSE AlphaDown
  IN  [det EXCEPT
         !.ba = (det.ba * (100 - alpha) + det.bu10ms * alpha) \div 100,
         !.bu = det.bu10ms % (UshortMax + 1),
         !.bu10ms = 0, !.age = 0]

Every100msAfterAU(det) ==
  IF det.age >= BuPeriod THEN CalcBuBa(GapOrBusy(det)) ELSE GapOrBusy(det)

-----------------------------------------------------------------------------
(* A tick of the firmware: detector d has n[d] edges.  They reach the      *)
(* handler, or they do not: nobody has subscribed, or the package is lost. *)

\* what the detector will count of what has happened to it
Coming(det, d) ==
  (IF ~det.au /\ occupied[d] THEN 1 ELSE 0) + main.left[d] \div 2

Tick(n) ==
  /\ occupied' = [d \in Det |-> occupied[d] # Odd(n[d])]
  /\ since' = [d \in Det |->
       since[d] + (n[d] + (IF occupied[d] THEN 0 ELSE 1)) \div 2]
  /\ \A d \in Det : since'[d] > since[d] => since'[d] <= VehicleBound
  /\ stale' = [d \in Det |-> stale[d] \/ n[d] > 0]
  /\ nr2det' = [d \in Configured |->
       [nr2det[d] EXCEPT !.age = Lesser(@ + 1, BuPeriod)]]
  /\ full' = FALSE
  /\ UNCHANGED <<renew, config, subscribed, restarted>>

Edges == [Det -> 0 .. MaxEdges]

NoMessage ==
  /\ main.pc = "idle"
  /\ \E n \in Edges :
       /\ Tick(n)
       /\ exact' = [d \in Det |-> exact[d] /\ n[d] = 0]
  /\ UNCHANGED main

\* the sequence number is checked, and a gap reported
detstates_8_svc ==
  /\ main.pc = "idle" /\ subscribed
  /\ \E n \in Edges, status \in BOOLEAN :
       LET listed == {d \in config : full \/ n[d] > 0} IN
       /\ Tick(n)
       /\ exact' = [d \in Det |-> exact[d] /\ (d \in config \/ n[d] = 0)]
       /\ main' = [pc |-> "values", todo |-> listed, det |-> {},
                   left |-> [d \in Det |-> IF d \in listed THEN n[d] ELSE 0],
                   status |-> status]

-----------------------------------------------------------------------------
(* onNewValues100ms.                                                       *)

\* onNewValue100ms: the last value first, then each edge; a detector that
\* is not in the map is skipped
NewValue(d) ==
  /\ main.pc = "values" /\ d \in main.todo
  /\ IF d \in Configured
     THEN /\ nr2det' = [nr2det EXCEPT ![d] = SetAU(@, occupied[d])]
          /\ IF main.left[d] > 0
             THEN /\ main' = [main EXCEPT !.pc = "edges", !.det = {d},
                                          !.todo = @ \ {d}]
                  /\ UNCHANGED stale
             ELSE /\ main' = [main EXCEPT !.todo = @ \ {d}]
                  /\ stale' = [stale EXCEPT ![d] = FALSE]
     ELSE /\ main' = [main EXCEPT !.todo = @ \ {d}, !.left[d] = 0]
          /\ UNCHANGED <<nr2det, stale>>
  /\ UNCHANGED <<renew, fwVars, since, exact>>

NewEdge(d) ==
  /\ main.pc = "edges" /\ main.det = {d}
  /\ LET value == IF Odd(main.left[d]) THEN occupied[d] ELSE ~occupied[d]
     IN  nr2det' = [nr2det EXCEPT ![d] = SetAU(@, value)]
  /\ IF main.left[d] > 1
     THEN /\ main' = [main EXCEPT !.left[d] = @ - 1]
          /\ UNCHANGED stale
     ELSE /\ main' = [main EXCEPT !.left[d] = 0, !.pc = "values", !.det = {}]
          /\ stale' = [stale EXCEPT ![d] = FALSE]
  /\ UNCHANGED <<renew, fwVars, since, exact>>

First(ds) == {d \in ds : \A e \in ds : d <= e}

\* the iterator goes to the first of these, or the loop ends
IterateOver(ds) ==
  main' = IF ds = {} THEN Waiting
          ELSE [Waiting EXCEPT !.pc = "every", !.det = First(ds)]

\* a message with a status is not one of those that come each 100 ms
ValuesDone ==
  /\ main.pc = "values" /\ main.todo = {}
  /\ IterateOver(IF main.status THEN {} ELSE Configured)
  /\ UNCHANGED <<nr2det, renew, fwVars, histVars>>

Every100ms(d) ==
  /\ main.pc = "every" /\ main.det = {d}
  /\ nr2det' = [nr2det EXCEPT ![d] = Every100msAfterAU(@)]
  /\ IterateOver({e \in Configured : d < e})
  /\ UNCHANGED <<renew, fwVars, histVars>>

-----------------------------------------------------------------------------
(* DetectorValueSet, by the TA, or by the page, which only resets.         *)

MaySet(w) == main.pc = "idle" \/ (w = 0 /\ main.pc # "undefined")

SetCounter ==
  /\ \E d \in Configured, w \in SetValues :
       /\ MaySet(w)
       /\ nr2det' = [nr2det EXCEPT ![d].zs = w]
       /\ since' = [since EXCEPT ![d] = w + Coming(nr2det[d], d)]
       /\ exact' = [exact EXCEPT ![d] = ~stale[d]]
  /\ UNCHANGED <<main, renew, fwVars, stale>>

SetGap ==
  /\ \E d \in Configured, w \in SetValues :
       /\ MaySet(w)
       /\ nr2det' = [nr2det EXCEPT ![d].ls = w]
  /\ UNCHANGED <<main, renew, fwVars, histVars>>

-----------------------------------------------------------------------------
(* The renew thread: Detectors::fill, then the subscription.               *)

Goto(l) == renew' = [renew EXCEPT !.pc = l]

\* if the call fails, the next one is made without a client
FillStarts ==
  /\ renew.pc = "start"
  /\ renew' \in {[pc |-> "fill", params |-> config],
                 [pc |-> "undefined", params |-> {}]}
  /\ UNCHANGED <<nr2det, main, fwVars, histVars>>

\* mutant: a detector that is there starts again
Insert_Again(d) ==
  /\ renew.pc = "fill" /\ d \in renew.params
  /\ nr2det' = [e \in Configured \cup {d} |->
                  IF e = d THEN NewDetector ELSE nr2det[e]]
  /\ since' = [since EXCEPT ![d] = IF d \in Configured THEN @
                                   ELSE Coming(NewDetector, d)]
  /\ stale' = [stale EXCEPT ![d] = TRUE]
  /\ exact' = [exact EXCEPT ![d] = d \in Configured /\ @]
  /\ UNCHANGED <<main, renew, fwVars>>

Insert(d) ==
  /\ renew.pc = "fill" /\ d \in renew.params \ Configured
  /\ nr2det' = [e \in Configured \cup {d} |->
                  IF e = d THEN NewDetector ELSE nr2det[e]]
  /\ since' = [since EXCEPT ![d] = Coming(NewDetector, d)]
  /\ stale' = [stale EXCEPT ![d] = TRUE]
  /\ exact' = [exact EXCEPT ![d] = FALSE]
  /\ UNCHANGED <<main, renew, fwVars>>

\* what the handler holds of it dangles
Erase(d) ==
  /\ renew.pc = "fill" /\ renew.params \subseteq Configured
  /\ d \in Configured \ renew.params
  /\ nr2det' = [e \in Configured \ {d} |-> nr2det[e]]
  /\ main' = IF main.det = {d} THEN [main EXCEPT !.pc = "undefined"] ELSE main
  /\ UNCHANGED <<renew, fwVars, histVars>>

\* fillDataFromDetectorCctrl
FillEnds ==
  /\ renew.pc = "fill" /\ Configured = renew.params
  /\ Goto("subscribe") \/ Goto("start")
  /\ UNCHANGED <<nr2det, main, fwVars, histVars>>

\* one of the calls may fail, this one or one for another topic
Subscribe ==
  /\ renew.pc = "subscribe"
  /\ \/ /\ Goto("lease") \/ Goto("start")
        /\ subscribed' = TRUE /\ full' = TRUE
     \/ /\ Goto("start")
        /\ UNCHANGED <<subscribed, full>>
  /\ UNCHANGED <<nr2det, main, occupied, config, restarted, histVars>>

RenewFails ==
  /\ renew.pc = "lease"
  /\ Goto("start")
  /\ UNCHANGED <<nr2det, main, fwVars, histVars>>

LeaseExpires ==
  /\ subscribed /\ renew.pc # "lease"
  /\ subscribed' = FALSE /\ full' = FALSE
  /\ UNCHANGED <<nr2det, main, renew, occupied, config, restarted, histVars>>

\* the ticks start again; bound: once
Restart ==
  /\ main.pc = "idle" /\ ~restarted
  /\ config' \in SUBSET Det
  /\ \E uptime \in 0 .. UptimeBound :
       nr2det' = [d \in Configured |-> [nr2det[d] EXCEPT !.age = -uptime]]
  /\ subscribed' = FALSE /\ full' = FALSE /\ restarted' = TRUE
  /\ UNCHANGED <<main, renew, occupied, histVars>>

-----------------------------------------------------------------------------
Handler == ValuesDone \/ \E d \in Det : NewValue(d) \/ NewEdge(d) \/ Every100ms(d)
Fill    == FillStarts \/ FillEnds \/ Subscribe \/ \E d \in Det : Insert(d) \/ Erase(d)

Next ==
  \/ detstates_8_svc \/ NoMessage \/ Handler
  \/ SetCounter \/ SetGap
  \/ Fill \/ RenewFails \/ LeaseExpires \/ Restart

Spec == Init /\ [][Next]_vars

-----------------------------------------------------------------------------
(* Properties.                                                             *)

DetectorType ==
  [au : BOOLEAN, zs : 0 .. UshortMax, ls : 0 .. UshortMax, bu10ms : Nat,
   bu : 0 .. UshortMax, ba : Nat, age : Int]

(* The counters keep within USHORT whatever is set (wZS, wLS).             *)
TypeOK ==
  /\ Configured \subseteq Det
  /\ nr2det = [d \in Configured |-> nr2det[d]]
  /\ \A d \in Configured : nr2det[d] \in DetectorType
  /\ main \in [pc : {"idle", "values", "edges", "every", "undefined"},
               todo : SUBSET Det, det : SUBSET Det, left : [Det -> Nat],
               status : BOOLEAN]
  /\ main.det = {} \/ \E d \in Det : main.det = {d}
  /\ renew \in [pc : {"start", "fill", "subscribe", "lease", "undefined"},
                params : SUBSET Det]
  /\ occupied \in [Det -> BOOLEAN] /\ config \subseteq Det
  /\ subscribed \in BOOLEAN /\ full \in BOOLEAN /\ restarted \in BOOLEAN
  /\ since \in [Det -> Nat]
  /\ stale \in [Det -> BOOLEAN] /\ exact \in [Det -> BOOLEAN]

(* wAU is what the firmware has detected last, whatever the order of last  *)
(* value and edges, refills and restarts, unless the package with the last *)
(* change was lost (onNewValue100ms).                                      *)
AuCurrent == \A d \in Configured : ~stale[d] => nr2det[d].au = occupied[d]

(* wZS never counts a vehicle that was not there, though a full message    *)
(* reports detectors anew and packages are lost; and it misses none as     *)
(* long as no package is lost and the limit is not reached (setAU), also   *)
(* when the renew thread fills the detectors again.                        *)
VehiclesCounted ==
  main.pc # "undefined" =>
    \A d \in Configured :
      LET zs == nr2det[d].zs  coming == Coming(nr2det[d], d) IN
      /\ zs + coming <= since[d]
      /\ exact[d] => zs + coming = since[d] \/ zs >= ZsMax

(* The occupancy rate BU and its smoothed value BA are at most 100 percent *)
(* whatever packages are lost, as long as the ticks do not start again     *)
(* (calcBuBa: "0 .. 100").                                                 *)
BuBounded ==
  ~restarted =>
    \A d \in Configured : nr2det[d].bu <= BuPeriod /\ nr2det[d].ba <= BuPeriod

=============================================================================
