-------------------------- MODULE Detectors_proofs --------------------------
(***************************************************************************)
(* Theorems about Detectors: type correctness; wAU is what the firmware    *)
(* has detected last; vehicles are counted once each; and the occupancy    *)
(* rate is a rate.                                                         *)
(***************************************************************************)
EXTENDS Detectors, TLAPS

-----------------------------------------------------------------------------
(* Arithmetic.                                                             *)

(* What the occupancy is cast to USHORT from fits (calcBuBa).              *)
LEMMA ModSmall ==
  ASSUME NEW n \in Nat, NEW m \in Nat
  PROVE  /\ n % (m + 1) \in 0 .. m
         /\ n <= m => n % (m + 1) = n
<1>1. \A k \in Nat \ {0} : n % k \in 0 .. (k - 1) /\ (n < k => n % k = n)
  OBVIOUS
<1>2. m + 1 \in Nat \ {0} OBVIOUS
<1>3. n % (m + 1) \in 0 .. (m + 1 - 1) /\ (n < m + 1 => n % (m + 1) = n)
  BY <1>1, <1>2
<1>4. QED BY <1>3

(* A product of natural numbers is one, and grows with its factors.        *)
LEMMA ProductGrows ==
  ASSUME NEW m \in Nat, NEW n \in Nat, NEW k \in Nat
  PROVE  /\ m * k \in Nat
         /\ m <= n => m * k <= n * k
<1>1. \A i, j \in Nat : i * j \in Nat OBVIOUS
<1>2. m * k \in Nat BY <1>1
<1>3. ASSUME m <= n PROVE m * k <= n * k
  <2>1. n - m \in Nat BY <1>3
  <2>2. (n - m) * k \in Nat BY <1>1, <2>1
  <2>3. n * k = m * k + (n - m) * k OBVIOUS
  <2>4. QED BY <1>2, <2>2, <2>3
<1>4. QED BY <1>2, <1>3

(* The smoothed value lies between the old one and the new (calcBuBa).     *)
LEMMA Smoothed ==
  ASSUME NEW ba \in Nat, NEW bu \in Nat, NEW alpha \in 0 .. 100, NEW limit \in Nat
  PROVE  /\ (ba * (100 - alpha) + bu * alpha) \div 100 \in Nat
         /\ ba <= limit /\ bu <= limit =>
              (ba * (100 - alpha) + bu * alpha) \div 100 <= limit
<1> DEFINE p == ba * (100 - alpha)
           q == bu * alpha
<1>1. alpha \in Nat /\ 100 - alpha \in Nat OBVIOUS
<1>2. p \in Nat /\ q \in Nat BY <1>1, ProductGrows
<1>3. (p + q) \div 100 \in Nat
  <2> HIDE DEF p, q
  <2> QED BY <1>2
<1>4. ASSUME ba <= limit, bu <= limit PROVE (p + q) \div 100 <= limit
  <2>1. p <= limit * (100 - alpha) /\ q <= limit * alpha
    BY <1>1, <1>4, ProductGrows
  <2>2. limit * (100 - alpha) \in Nat /\ limit * alpha \in Nat
    BY <1>1, ProductGrows
  <2>3. limit * (100 - alpha) + limit * alpha = 100 * limit OBVIOUS
  <2>4. p + q <= 100 * limit
    <3> HIDE DEF p, q
    <3> QED BY <1>2, <2>1, <2>2, <2>3
  <2> HIDE DEF p, q
  <2>5. QED BY <1>2, <2>4
<1>5. QED BY <1>3, <1>4

-----------------------------------------------------------------------------
(* One detector.                                                           *)

(* What setAU changes, and that it counts rising edges up to the limit.    *)
LEMMA SetAUType ==
  ASSUME NEW det \in DetectorType, NEW occ \in BOOLEAN
  PROVE  /\ SetAU(det, occ) \in DetectorType
         /\ SetAU(det, occ).au = occ
         /\ SetAU(det, occ).bu10ms = det.bu10ms /\ SetAU(det, occ).age = det.age
         /\ SetAU(det, occ).bu = det.bu /\ SetAU(det, occ).ba = det.ba
         /\ (det.au \/ ~occ) => SetAU(det, occ).zs = det.zs
         /\ (~det.au /\ occ /\ det.zs < ZsMax) => SetAU(det, occ).zs = det.zs + 1
         /\ (~det.au /\ occ /\ det.zs >= ZsMax) => SetAU(det, occ).zs = det.zs
<1>1. det.zs < ZsMax => det.zs + 1 \in 0 .. UshortMax
  BY DetAssumption DEF DetectorType
<1>2. CASE ~det.au /\ occ
  <2> DEFINE zs == IF det.zs < ZsMax THEN det.zs + 1 ELSE det.zs
  <2>1. zs \in 0 .. UshortMax BY <1>1 DEF DetectorType
  <2>2. 0 \in 0 .. UshortMax BY DetAssumption
  <2>3. SetAU(det, occ) = [det EXCEPT !.au = TRUE, !.zs = zs, !.ls = 0]
    BY <1>2 DEF SetAU
  <2>4. (det.zs < ZsMax => zs = det.zs + 1) /\ (det.zs >= ZsMax => zs = det.zs)
    BY DetAssumption DEF DetectorType
  <2> HIDE DEF zs
  <2>5. SetAU(det, occ) \in DetectorType BY <2>1, <2>2, <2>3 DEF DetectorType
  <2>6. QED BY <1>2, <2>3, <2>4, <2>5 DEF DetectorType
<1>3. CASE ~(~det.au /\ occ)
  BY <1>3 DEF SetAU, DetectorType
<1>4. QED BY <1>2, <1>3

(* A tick adds to the gap or to the occupancy.                             *)
LEMMA GapOrBusyType ==
  ASSUME NEW det \in DetectorType
  PROVE  /\ GapOrBusy(det) \in DetectorType
         /\ GapOrBusy(det).au = det.au /\ GapOrBusy(det).zs = det.zs
         /\ GapOrBusy(det).bu10ms \in det.bu10ms .. (det.bu10ms + 1)
         /\ GapOrBusy(det).age = det.age
         /\ GapOrBusy(det).bu = det.bu /\ GapOrBusy(det).ba = det.ba
<1>1. det.ls < LsMax => det.ls + 1 \in 0 .. UshortMax
  BY DetAssumption DEF DetectorType
<1>2. QED BY <1>1 DEF GapOrBusy, DetectorType

(* calcBuBa starts again, with BU and BA no greater than what they come    *)
(* from.                                                                   *)
LEMMA CalcBuBaType ==
  ASSUME NEW det \in DetectorType
  PROVE  /\ CalcBuBa(det) \in DetectorType
         /\ CalcBuBa(det).au = det.au /\ CalcBuBa(det).zs = det.zs
         /\ CalcBuBa(det).bu10ms = 0 /\ CalcBuBa(det).age = 0
         /\ det.bu10ms <= BuPeriod => CalcBuBa(det).bu <= BuPeriod
         /\ det.bu10ms <= BuPeriod /\ det.ba <= BuPeriod => CalcBuBa(det).ba <= BuPeriod
<1> DEFINE alpha == IF det.bu > det.ba THEN AlphaUp ELSE AlphaDown
           ba    == (det.ba * (100 - alpha) + det.bu10ms * alpha) \div 100
           bu    == det.bu10ms % (UshortMax + 1)
<1>1. det.ba \in Nat /\ det.bu10ms \in Nat BY DEF DetectorType
<1>2. alpha \in 0 .. 100 BY DetAssumption
<1>3. BuPeriod \in Nat /\ UshortMax \in Nat /\ BuPeriod <= UshortMax
  BY DetAssumption
<1>4. /\ ba \in Nat
      /\ det.ba <= BuPeriod /\ det.bu10ms <= BuPeriod => ba <= BuPeriod
  <2> HIDE DEF alpha
  <2> QED BY <1>1, <1>2, <1>3, Smoothed
<1>5. bu \in 0 .. UshortMax /\ (det.bu10ms <= UshortMax => bu = det.bu10ms)
  BY <1>1, <1>3, ModSmall
<1>6. CalcBuBa(det) = [det EXCEPT !.ba = ba, !.bu = bu, !.bu10ms = 0, !.age = 0]
  BY DEF CalcBuBa
<1> HIDE DEF alpha, ba, bu
<1>7. 0 \in Nat /\ 0 \in Int OBVIOUS
<1>8. CalcBuBa(det) \in DetectorType
  <2> DEFINE rated == [det EXCEPT !.ba = ba, !.bu = bu]
  <2>1. rated \in DetectorType BY <1>4, <1>5 DEF DetectorType
  <2>2. CalcBuBa(det) = [rated EXCEPT !.bu10ms = 0, !.age = 0]
    BY <1>6 DEF DetectorType
  <2> HIDE DEF rated
  <2>3. QED BY <1>7, <2>1, <2>2 DEF DetectorType
<1>9. /\ CalcBuBa(det).bu = bu /\ CalcBuBa(det).ba = ba
      /\ CalcBuBa(det).au = det.au /\ CalcBuBa(det).zs = det.zs
      /\ CalcBuBa(det).bu10ms = 0 /\ CalcBuBa(det).age = 0
  BY <1>6 DEF DetectorType
<1>10. det.bu10ms <= BuPeriod => bu <= BuPeriod BY <1>1, <1>3, <1>5
<1>11. QED BY <1>4, <1>8, <1>9, <1>10

(* every100msAfterAU leaves wAU and wZS alone.                             *)
LEMMA EveryType ==
  ASSUME NEW det \in DetectorType
  PROVE  /\ Every100msAfterAU(det) \in DetectorType
         /\ Every100msAfterAU(det).au = det.au
         /\ Every100msAfterAU(det).zs = det.zs
BY GapOrBusyType, CalcBuBaType DEF Every100msAfterAU

(* A new detector has counted nothing.                                     *)
LEMMA NewDetectorType ==
  NewDetector \in DetectorType
BY DetAssumption DEF NewDetector, DetectorType

(* The iterator holds one detector at most.                                *)
LEMMA FirstIsOne ==
  ASSUME NEW ds \in SUBSET Det
  PROVE  First(ds) = {} \/ \E d \in ds : First(ds) = {d}
<1>1. SUFFICES ASSUME NEW d \in First(ds) PROVE First(ds) = {d}
  BY DEF First
<1>2. \A e \in First(ds) : e <= d /\ d <= e BY <1>1 DEF First
<1>3. \A e \in First(ds) : e = d BY <1>2, DetAssumption DEF First
<1>4. QED BY <1>1, <1>3

-----------------------------------------------------------------------------
(* Type correctness.                                                       *)

DetectorsType ==
  /\ Configured \subseteq Det
  /\ nr2det = [d \in Configured |-> nr2det[d]]
  /\ \A d \in Configured : nr2det[d] \in DetectorType

MainRecord ==
  [pc : {"idle", "values", "edges", "every", "undefined"},
   todo : SUBSET Det, det : SUBSET Det, left : [Det -> Nat], status : BOOLEAN]

MainType == main \in MainRecord /\ (main.det = {} \/ \E d \in Det : main.det = {d})

RenewType == [pc : {"start", "fill", "subscribe", "lease", "undefined"},
              params : SUBSET Det]

(* Setting the values of one detector leaves the others as they are.       *)
LEMMA UpdateType ==
  ASSUME DetectorsType, NEW d \in Det, NEW new \in DetectorType,
         nr2det' = [nr2det EXCEPT ![d] = new]
  PROVE  /\ DetectorsType' /\ Configured' = Configured
         /\ d \in Configured => nr2det'[d] = new
         /\ \A e \in Configured : e # d => nr2det'[e] = nr2det[e]
BY DEF DetectorsType, Configured

(* A tick reaches each detector once, and changes its age only.            *)
LEMMA TickType ==
  ASSUME TypeOK, NEW n \in Edges, Tick(n)
  PROVE  /\ DetectorsType' /\ Configured' = Configured
         /\ \A d \in Configured :
              nr2det'[d] = [nr2det[d] EXCEPT !.age = Lesser(@ + 1, BuPeriod)]
         /\ occupied' \in [Det -> BOOLEAN] /\ since' \in [Det -> Nat]
         /\ stale' \in [Det -> BOOLEAN] /\ full' \in BOOLEAN
<1>1. \A d \in Configured : nr2det'[d] = [nr2det[d] EXCEPT !.age = Lesser(@ + 1, BuPeriod)]
  BY DEF Tick
<1>2. Configured' = Configured BY DEF Tick, Configured
<1>3. \A d \in Configured : Lesser(nr2det[d].age + 1, BuPeriod) \in Int
  <2>1. \A d \in Configured : nr2det[d].age \in Int BY DEF TypeOK, DetectorType
  <2>2. QED BY <2>1, DetAssumption DEF Lesser
<1>4. DetectorsType'
  <2>1. ASSUME NEW d \in Configured PROVE nr2det'[d] \in DetectorType
    <3>1. nr2det[d] \in DetectorType BY DEF TypeOK
    <3>2. PICK age \in Int : nr2det'[d] = [nr2det[d] EXCEPT !.age = age]
      BY <1>1, <1>3
    <3>3. QED BY <3>1, <3>2 DEF DetectorType
  <2>2. QED BY <1>2, <2>1 DEF TypeOK, DetectorsType, Tick, Configured
<1>5. ASSUME NEW d \in Det
      PROVE  since[d] + (n[d] + (IF occupied[d] THEN 0 ELSE 1)) \div 2 \in Nat
  <2>1. since[d] \in Nat BY DEF TypeOK
  <2>2. n[d] \in Nat BY DetAssumption DEF Edges
  <2>3. QED BY <2>1, <2>2
<1>6. since' \in [Det -> Nat] BY <1>5 DEF Tick
<1>7. occupied' \in [Det -> BOOLEAN] BY DEF Tick
<1>8. stale' \in [Det -> BOOLEAN] BY DEF Tick
<1>9. full' \in BOOLEAN BY DEF Tick
<1>10. QED BY <1>1, <1>2, <1>4, <1>6, <1>7, <1>8, <1>9

(* Every step keeps the types.                                             *)
LEMMA TypeStep ==
  ASSUME TypeOK, [Next]_vars PROVE TypeOK'
<1>D. DetectorsType BY DEF TypeOK, DetectorsType
<1>R. renew \in RenewType BY DEF TypeOK, RenewType
<1>M. MainType BY DEF TypeOK, MainType, MainRecord
<1>1. ASSUME NoMessage PROVE TypeOK'
  <2>1. PICK n \in Edges : Tick(n) /\ exact' = [d \in Det |-> exact[d] /\ n[d] = 0]
    BY <1>1 DEF NoMessage
  <2>2. exact' \in [Det -> BOOLEAN] BY <2>1 DEF TypeOK
  <2>3. QED BY <1>1, <2>1, <2>2, TickType DEF NoMessage, Tick, TypeOK, DetectorsType
<1>2. ASSUME detstates_8_svc PROVE TypeOK'
  <2>1. PICK n \in Edges, status \in BOOLEAN :
          LET listed == {d \in config : full \/ n[d] > 0} IN
          /\ Tick(n)
          /\ exact' = [d \in Det |-> exact[d] /\ (d \in config \/ n[d] = 0)]
          /\ main' = [pc |-> "values", todo |-> listed, det |-> {},
                      left |-> [d \in Det |-> IF d \in listed THEN n[d] ELSE 0],
                      status |-> status]
    BY <1>2 DEF detstates_8_svc
  <2> DEFINE listed == {d \in config : full \/ n[d] > 0}
  <2>2. exact' \in [Det -> BOOLEAN] BY <2>1 DEF TypeOK
  <2>3. [d \in Det |-> IF d \in listed THEN n[d] ELSE 0] \in [Det -> Nat]
    BY DetAssumption DEF Edges
  <2>4. listed \subseteq Det BY DEF TypeOK
  <2> DEFINE left == [d \in Det |-> IF d \in listed THEN n[d] ELSE 0]
  <2>5. MainType'
    <3>1. main' = [pc |-> "values", todo |-> listed, det |-> {}, left |-> left,
                   status |-> status]
      BY <2>1
    <3> HIDE DEF listed, left
    <3>2. left \in [Det -> Nat] BY <2>3 DEF left, listed
    <3>3. QED BY <2>4, <3>1, <3>2 DEF MainType, MainRecord
  <2>6. QED
    BY <2>1, <2>2, <2>5, TickType DEF Tick, TypeOK, DetectorsType, MainType, MainRecord
<1>3. ASSUME NEW d \in Det, NewValue(d) PROVE TypeOK'
  <2>1. CASE d \in Configured
    <3>1. SetAU(nr2det[d], occupied[d]) \in DetectorType
      BY <2>1, SetAUType DEF TypeOK
    <3>2. nr2det' = [nr2det EXCEPT ![d] = SetAU(nr2det[d], occupied[d])]
      BY <1>3, <2>1 DEF NewValue
    <3>3. DetectorsType' BY <1>D, <3>1, <3>2, UpdateType
    <3>4. stale' \in [Det -> BOOLEAN] BY <1>3, <2>1 DEF NewValue, TypeOK
    <3>5. MainType'
      <4>1. \/ main' = [main EXCEPT !.pc = "edges", !.det = {d}, !.todo = @ \ {d}]
            \/ main' = [main EXCEPT !.todo = @ \ {d}]
        BY <1>3, <2>1 DEF NewValue
      <4>2. QED BY <1>M, <4>1 DEF MainType, MainRecord
    <3>6. QED
      BY <1>3, <3>3, <3>4, <3>5
      DEF NewValue, fwVars, TypeOK, DetectorsType, MainType, MainRecord
  <2>2. CASE d \notin Configured
    <3>1. main' = [main EXCEPT !.todo = @ \ {d}, !.left[d] = 0]
      BY <1>3, <2>2 DEF NewValue
    <3>2. [main.left EXCEPT ![d] = 0] \in [Det -> Nat] BY DEF TypeOK
    <3>3. MainType' BY <1>M, <3>1, <3>2 DEF MainType, MainRecord
    <3>4. QED
      BY <1>3, <2>2, <3>3
      DEF NewValue, fwVars, TypeOK, Configured, MainType, MainRecord
  <2>3. QED BY <2>1, <2>2
<1>4. ASSUME NEW d \in Det, NewEdge(d) PROVE TypeOK'
  <2> DEFINE value == IF Odd(main.left[d]) THEN occupied[d] ELSE ~occupied[d]
  <2>1. nr2det' = [nr2det EXCEPT ![d] = SetAU(nr2det[d], value)]
    BY <1>4 DEF NewEdge
  <2>2. value \in BOOLEAN BY DEF TypeOK
  <2>3. DetectorsType'
    <3> HIDE DEF value
    <3>1. CASE d \in Configured
      <4>1. SetAU(nr2det[d], value) \in DetectorType
        BY <2>2, <3>1, SetAUType DEF TypeOK
      <4>2. QED BY <1>D, <2>1, <4>1, UpdateType
    <3>2. CASE d \notin Configured
      <4>1. nr2det' = nr2det BY <1>D, <2>1, <3>2 DEF DetectorsType, Configured
      <4>2. QED BY <1>D, <4>1 DEF DetectorsType, Configured
    <3>3. QED BY <3>1, <3>2
  <2>4. CASE main.left[d] > 1
    <3>1. main' = [main EXCEPT !.left[d] = @ - 1] /\ UNCHANGED stale
      BY <1>4, <2>4 DEF NewEdge
    <3>2. main.left[d] - 1 \in Nat BY <2>4 DEF TypeOK
    <3>3. [main.left EXCEPT ![d] = main.left[d] - 1] \in [Det -> Nat]
      BY <3>2 DEF TypeOK
    <3>4. MainType' BY <1>M, <3>1, <3>3 DEF MainType, MainRecord
    <3>5. QED
      BY <1>4, <2>3, <3>1, <3>4
      DEF NewEdge, fwVars, TypeOK, DetectorsType, MainType, MainRecord
  <2>5. CASE ~(main.left[d] > 1)
    <3>1. main' = [main EXCEPT !.left[d] = 0, !.pc = "values", !.det = {}]
      BY <1>4, <2>5 DEF NewEdge
    <3>2. [main.left EXCEPT ![d] = 0] \in [Det -> Nat] BY DEF TypeOK
    <3>3. MainType' BY <1>M, <3>1, <3>2 DEF MainType, MainRecord
    <3>4. stale' \in [Det -> BOOLEAN] BY <1>4, <2>5 DEF NewEdge, TypeOK
    <3>5. QED
      BY <1>4, <2>3, <3>3, <3>4
      DEF NewEdge, fwVars, TypeOK, DetectorsType, MainType, MainRecord
  <2>6. QED BY <2>4, <2>5
<1>5. ASSUME NEW ds \in SUBSET Det, IterateOver(ds)
      PROVE  MainType'
  <2>1. [d \in Det |-> 0] \in [Det -> Nat] OBVIOUS
  <2>2. main'.det = {} \/ \E d \in Det : main'.det = {d}
    BY <1>5, FirstIsOne DEF IterateOver, Waiting
  <2>3. First(ds) \in SUBSET Det BY DEF First
  <2>4. main' \in MainRecord BY <1>5, <2>1, <2>3 DEF IterateOver, Waiting, MainRecord
  <2>5. QED BY <2>2, <2>4 DEF MainType
<1>6. ASSUME ValuesDone PROVE TypeOK'
  <2>1. (IF main.status THEN {} ELSE Configured) \in SUBSET Det BY DEF TypeOK
  <2>2. MainType'
    BY <1>5, <1>6, <2>1 DEF ValuesDone
  <2>3. QED BY <1>6, <2>2 DEF ValuesDone, TypeOK, Configured, fwVars, histVars, MainType, MainRecord
<1>7. ASSUME NEW d \in Det, Every100ms(d) PROVE TypeOK'
  <2>1. nr2det' = [nr2det EXCEPT ![d] = Every100msAfterAU(nr2det[d])]
    BY <1>7 DEF Every100ms
  <2>2. DetectorsType'
    <3>1. CASE d \in Configured
      <4>1. Every100msAfterAU(nr2det[d]) \in DetectorType
        BY <3>1, EveryType DEF TypeOK
      <4>2. QED BY <1>D, <2>1, <4>1, UpdateType
    <3>2. CASE d \notin Configured
      <4>1. nr2det' = nr2det BY <1>D, <2>1, <3>2 DEF DetectorsType, Configured
      <4>2. QED BY <1>D, <4>1 DEF DetectorsType, Configured
    <3>3. QED BY <3>1, <3>2
  <2>3. {e \in Configured : d < e} \in SUBSET Det BY DEF TypeOK
  <2>4. MainType'
    BY <1>5, <1>7, <2>3 DEF Every100ms
  <2>5. QED
    BY <1>7, <2>2, <2>4
    DEF Every100ms, TypeOK, DetectorsType, fwVars, histVars, MainType, MainRecord
<1>8. ASSUME SetCounter PROVE TypeOK'
  <2>1. PICK d \in Configured, w \in SetValues :
          /\ nr2det' = [nr2det EXCEPT ![d].zs = w]
          /\ since' = [since EXCEPT ![d] = w + Coming(nr2det[d], d)]
          /\ exact' = [exact EXCEPT ![d] = ~stale[d]]
    BY <1>8 DEF SetCounter
  <2>2. d \in Det BY DEF TypeOK
  <2>3. [nr2det[d] EXCEPT !.zs = w] \in DetectorType
    BY DetAssumption DEF TypeOK, DetectorType
  <2>4. nr2det' = [nr2det EXCEPT ![d] = [nr2det[d] EXCEPT !.zs = w]] BY <2>1
  <2>5. DetectorsType' BY <1>D, <2>2, <2>3, <2>4, UpdateType
  <2>6. w + Coming(nr2det[d], d) \in Nat
    <3>1. main.left[d] \in Nat /\ w \in Nat BY <2>2, DetAssumption DEF TypeOK
    <3>2. QED BY <3>1 DEF Coming
  <2>7. since' \in [Det -> Nat] /\ exact' \in [Det -> BOOLEAN]
    BY <2>1, <2>2, <2>6 DEF TypeOK
  <2>8. QED BY <1>8, <2>5, <2>7 DEF SetCounter, TypeOK, DetectorsType, fwVars
<1>9. ASSUME SetGap PROVE TypeOK'
  <2>1. PICK d \in Configured, w \in SetValues : nr2det' = [nr2det EXCEPT ![d].ls = w]
    BY <1>9 DEF SetGap
  <2>2. d \in Det BY DEF TypeOK
  <2>3. [nr2det[d] EXCEPT !.ls = w] \in DetectorType
    BY DetAssumption DEF TypeOK, DetectorType
  <2>4. nr2det' = [nr2det EXCEPT ![d] = [nr2det[d] EXCEPT !.ls = w]] BY <2>1
  <2>5. DetectorsType' BY <1>D, <2>2, <2>3, <2>4, UpdateType
  <2>6. QED BY <1>9, <2>5 DEF SetGap, TypeOK, DetectorsType, fwVars, histVars
<1>10. ASSUME FillStarts PROVE TypeOK'
  <2>1. renew' \in RenewType BY <1>10 DEF FillStarts, RenewType, TypeOK
  <2>2. QED BY <1>10, <2>1 DEF FillStarts, TypeOK, Configured, fwVars, histVars, RenewType
<1>11. ASSUME NEW d \in Det, Insert(d) PROVE TypeOK'
  <2>1. nr2det' = [e \in Configured \cup {d} |-> IF e = d THEN NewDetector ELSE nr2det[e]]
    BY <1>11 DEF Insert
  <2>2. DetectorsType'
    <3>1. Configured' = Configured \cup {d} BY <2>1 DEF Configured
    <3>2. \A e \in Configured' : nr2det'[e] \in DetectorType
      BY <2>1, <3>1, NewDetectorType DEF TypeOK
    <3>3. Configured' \subseteq Det BY <3>1 DEF TypeOK
    <3>4. nr2det' = [e \in Configured' |-> nr2det'[e]] BY <2>1, <3>1
    <3>5. QED BY <3>2, <3>3, <3>4 DEF DetectorsType
  <2>3. Coming(NewDetector, d) \in Nat
    <3>1. main.left[d] \in Nat BY DEF TypeOK
    <3>2. QED BY <3>1 DEF Coming
  <2>4. /\ since' \in [Det -> Nat] /\ stale' \in [Det -> BOOLEAN]
        /\ exact' \in [Det -> BOOLEAN]
    BY <1>11, <2>3 DEF Insert, TypeOK
  <2>5. QED BY <1>11, <2>2, <2>4 DEF Insert, TypeOK, DetectorsType, fwVars
<1>12. ASSUME NEW d \in Det, Erase(d) PROVE TypeOK'
  <2>1. nr2det' = [e \in Configured \ {d} |-> nr2det[e]] BY <1>12 DEF Erase
  <2>2. DetectorsType' BY <1>D, <2>1 DEF DetectorsType, Configured
  <2>3. MainType' BY <1>M, <1>12 DEF Erase, MainType, MainRecord
  <2>4. QED
    BY <1>12, <2>2, <2>3
    DEF Erase, TypeOK, DetectorsType, fwVars, histVars, MainType, MainRecord
<1>13. ASSUME FillEnds PROVE TypeOK'
  <2>1. renew' \in RenewType BY <1>13, <1>R DEF FillEnds, Goto, RenewType
  <2>2. QED BY <1>13, <2>1 DEF FillEnds, TypeOK, Configured, fwVars, histVars, RenewType
<1>14. ASSUME Subscribe PROVE TypeOK'
  <2>1. renew' \in RenewType BY <1>14, <1>R DEF Subscribe, Goto, RenewType
  <2>2. subscribed' \in BOOLEAN /\ full' \in BOOLEAN BY <1>14 DEF Subscribe, TypeOK
  <2>3. QED BY <1>14, <2>1, <2>2 DEF Subscribe, TypeOK, Configured, histVars, RenewType
<1>15. ASSUME RenewFails PROVE TypeOK'
  <2>1. renew' \in RenewType BY <1>15, <1>R DEF RenewFails, Goto, RenewType
  <2>2. QED BY <1>15, <2>1 DEF RenewFails, TypeOK, Configured, fwVars, histVars, RenewType
<1>16. ASSUME LeaseExpires PROVE TypeOK'
  BY <1>16 DEF LeaseExpires, TypeOK, Configured, histVars
<1>17. ASSUME Restart PROVE TypeOK'
  <2>1. PICK uptime \in 0 .. UptimeBound :
          nr2det' = [d \in Configured |-> [nr2det[d] EXCEPT !.age = -uptime]]
    BY <1>17 DEF Restart
  <2>2. -uptime \in Int BY DetAssumption
  <2>3. \A d \in Configured : [nr2det[d] EXCEPT !.age = -uptime] \in DetectorType
    BY <2>2 DEF TypeOK, DetectorType
  <2>4. DetectorsType'
    <3>1. Configured' = Configured BY <2>1 DEF Configured
    <3>2. \A d \in Configured : nr2det'[d] \in DetectorType BY <2>1, <2>3
    <3>3. QED BY <1>D, <2>1, <3>1, <3>2 DEF DetectorsType, Configured
  <2>5. QED BY <1>17, <2>4 DEF Restart, TypeOK, DetectorsType, histVars
<1>18. CASE UNCHANGED vars
  BY <1>18 DEF TypeOK, Configured, vars, fwVars, histVars
<1>19. QED
  BY <1>1, <1>2, <1>3, <1>4, <1>6, <1>7, <1>8, <1>9, <1>10, <1>11, <1>12, <1>13,
     <1>14, <1>15, <1>16, <1>17, <1>18 DEF Next, Handler, Fill

(* TypeOK is an invariant: the counters of a detector keep within their    *)
(* limits whatever is lost, set, filled again or restarted.                *)
THEOREM TypesAreRight == Spec => []TypeOK
<1>1. Init => TypeOK
  <2> SUFFICES ASSUME Init PROVE TypeOK OBVIOUS
  <2>1. DOMAIN nr2det = {} BY DEF Init
  <2>2. main = Waiting /\ Waiting.det = {} BY DEF Init, Waiting
  <2>3. Waiting \in MainRecord BY DEF Waiting, MainRecord
  <2>4. nr2det = [d \in {} |-> nr2det[d]] BY DEF Init
  <2>5. renew \in RenewType BY DEF Init, RenewType
  <2>6. QED
    BY <2>1, <2>2, <2>3, <2>4, <2>5 DEF Init, TypeOK, Configured, MainRecord, RenewType
<1>2. TypeOK /\ [Next]_vars => TypeOK' BY TypeStep
<1>3. QED BY <1>1, <1>2, PTL DEF Spec

-----------------------------------------------------------------------------
(* What a detector will count.                                             *)

\* Coming, of a detector with j edges to come
ToCount(det, occ, j) == (IF ~det.au /\ occ THEN 1 ELSE 0) + j \div 2

\* between two states of a detector, nothing is counted twice, and nothing
\* is missed below the limit
CountsOn(det, i, new, j, occ) ==
  /\ new.zs + ToCount(new, occ, j) <= det.zs + ToCount(det, occ, i)
  /\ \/ new.zs + ToCount(new, occ, j) = det.zs + ToCount(det, occ, i)
     \/ new.zs >= ZsMax
  /\ det.zs >= ZsMax => new.zs >= ZsMax

(* Half of a number of edges, even or odd.                                 *)
LEMMA EvenOrOdd ==
  ASSUME NEW n \in Nat
  PROVE  /\ n \div 2 \in Nat
         /\ Odd(n) => n = 2 * (n \div 2) + 1 /\ (n + 1) \div 2 = n \div 2 + 1
         /\ ~Odd(n) => n = 2 * (n \div 2) /\ (n + 1) \div 2 = n \div 2
BY DEF Odd

(* The last value counts the vehicle that stands there unnoticed.          *)
LEMMA ValueCounts ==
  ASSUME NEW det \in DetectorType, NEW occ \in BOOLEAN, NEW j \in Nat
  PROVE  CountsOn(det, j, SetAU(det, occ), j, occ)
<1>1. det.zs \in Nat /\ det.au \in BOOLEAN /\ SetAU(det, occ).zs \in Nat
  BY SetAUType, DetAssumption DEF DetectorType
<1>2. ZsMax \in Nat /\ j \div 2 \in Nat BY DetAssumption
<1>3. CASE ~det.au /\ occ
  <2>1. ToCount(det, occ, j) = 1 + j \div 2 BY <1>3 DEF ToCount
  <2> DEFINE new == SetAU(det, occ)
  <2>0. new.au BY <1>3, SetAUType
  <2>2. ToCount(new, occ, j) = j \div 2
    <3> HIDE DEF new
    <3> QED BY <1>2, <2>0 DEF ToCount
  <2>3. CASE det.zs < ZsMax
    <3>1. SetAU(det, occ).zs = det.zs + 1 BY <1>3, <2>3, SetAUType
    <3>2. QED BY <1>1, <1>2, <2>1, <2>2, <2>3, <3>1 DEF CountsOn
  <2>4. CASE det.zs >= ZsMax
    <3>1. SetAU(det, occ).zs = det.zs BY <1>3, <2>4, SetAUType
    <3>2. QED BY <1>1, <1>2, <2>1, <2>2, <2>4, <3>1 DEF CountsOn
  <2>5. QED BY <1>1, <1>2, <2>3, <2>4
<1>4. CASE det.au \/ ~occ
  BY <1>1, <1>2, <1>4, SetAUType DEF CountsOn, ToCount
<1>5. QED BY <1>1, <1>3, <1>4

(* The edges before the last one come in turn, and each rising one counts. *)
LEMMA EdgeCounts ==
  ASSUME NEW det \in DetectorType, NEW occ \in BOOLEAN, NEW j \in Nat \ {0},
         ~Odd(j) => det.au = occ,
         NEW value \in BOOLEAN, value = IF Odd(j) THEN occ ELSE ~occ
  PROVE  /\ CountsOn(det, j, SetAU(det, value), j - 1, occ)
         /\ ~Odd(j - 1) => SetAU(det, value).au = occ
<1>1. /\ det.zs \in Nat /\ det.au \in BOOLEAN
      /\ SetAU(det, value).zs \in Nat /\ ZsMax \in Nat
  BY SetAUType, DetAssumption DEF DetectorType
<1>2. CASE Odd(j)
  <2>1. j - 1 \in Nat /\ ~Odd(j - 1) /\ (j - 1) \div 2 = j \div 2 /\ j \div 2 \in Nat
    BY <1>2 DEF Odd
  <2>2. value = occ BY <1>2
  <2>3. CountsOn(det, j, SetAU(det, occ), j, occ) BY ValueCounts
  <2>4. QED BY <2>1, <2>2, <2>3, SetAUType DEF CountsOn, ToCount
<1>3. CASE ~Odd(j)
  <2>1. j - 1 \in Nat /\ Odd(j - 1) /\ (j - 1) \div 2 = j \div 2 - 1 /\ j \div 2 \in Nat
    BY <1>3 DEF Odd
  <2>2. value = ~occ /\ det.au = occ BY <1>3
  <2>3. CASE occ
    <3>1. SetAU(det, value).zs = det.zs /\ ~SetAU(det, value).au
      BY <2>2, <2>3, SetAUType
    <3>2. ToCount(det, occ, j) = j \div 2 BY <2>1, <2>2, <2>3 DEF ToCount
    <3>3. ToCount(SetAU(det, value), occ, j - 1) = j \div 2
      BY <2>1, <2>3, <3>1 DEF ToCount
    <3>4. QED BY <1>1, <2>1, <3>1, <3>2, <3>3 DEF CountsOn
  <2>4. CASE ~occ
    <3>1. value /\ ~det.au BY <2>2, <2>4
    <3>2. ToCount(det, occ, j) = j \div 2 BY <2>1, <2>4 DEF ToCount
    <3>3. ToCount(SetAU(det, value), occ, j - 1) = j \div 2 - 1
      BY <2>1, <2>4 DEF ToCount
    <3>4. CASE det.zs < ZsMax
      <4>1. SetAU(det, value).zs = det.zs + 1 BY <3>1, <3>4, SetAUType
      <4>2. QED BY <1>1, <2>1, <3>2, <3>3, <3>4, <4>1 DEF CountsOn
    <3>5. CASE det.zs >= ZsMax
      <4>1. SetAU(det, value).zs = det.zs BY <3>1, <3>5, SetAUType
      <4>2. QED BY <1>1, <2>1, <3>2, <3>3, <3>5, <4>1 DEF CountsOn
    <3>6. QED BY <1>1, <3>4, <3>5
  <2>5. QED BY <2>1, <2>3, <2>4
<1>4. QED BY <1>2, <1>3

(* The vehicles of a tick are those that will be counted if the tick       *)
(* reaches the handler, and if wAU was up to date before.                  *)
LEMMA TickCounts ==
  ASSUME NEW au \in BOOLEAN, NEW occ \in BOOLEAN, NEW n \in Nat,
         NEW now \in BOOLEAN, now = (occ # Odd(n)), NEW left \in {0, n}
  PROVE  LET before == IF ~au /\ occ THEN 1 ELSE 0
             after  == (IF ~au /\ now THEN 1 ELSE 0) + left \div 2
             came   == (n + (IF occ THEN 0 ELSE 1)) \div 2
         IN  /\ after <= before + came
             /\ au = occ /\ left = n => after = before + came
             /\ n = 0 => now = occ /\ came = 0
<1> DEFINE half == n \div 2
           came == (n + (IF occ THEN 0 ELSE 1)) \div 2
           rest == left \div 2
<1>1. half \in Nat /\ rest \in {0, half} /\ (left = n => rest = half)
  BY EvenOrOdd
<1>2. came = IF Odd(n) /\ ~occ THEN half + 1 ELSE half
  BY EvenOrOdd
<1>3. n = 0 => ~Odd(n) /\ half = 0 BY DEF Odd
<1>4. now = IF Odd(n) THEN ~occ ELSE occ BY DEF Odd
<1> HIDE DEF half, came, rest
<1>5. /\ (IF ~au /\ now THEN 1 ELSE 0) + rest <= (IF ~au /\ occ THEN 1 ELSE 0) + came
      /\ au = occ /\ left = n =>
           (IF ~au /\ now THEN 1 ELSE 0) + rest = (IF ~au /\ occ THEN 1 ELSE 0) + came
      /\ n = 0 => now = occ /\ came = 0
  <2>1. CASE Odd(n)
    <3>1. now = ~occ /\ n # 0 BY <1>3, <1>4, <2>1
    <3>2. CASE occ
      <4>1. came = half /\ ~now BY <1>2, <2>1, <3>1, <3>2
      <4>2. CASE au
        <5>1. (IF ~au /\ now THEN 1 ELSE 0) = 0 /\ (IF ~au /\ occ THEN 1 ELSE 0) = 0
          BY <4>2
        <5>2. 0 + rest <= 0 + came /\ (left = n => 0 + rest = 0 + came)
          BY <1>1, <4>1
        <5>3. QED BY <3>1, <5>1, <5>2
      <4>3. CASE ~au
        <5>1. ~(au = occ) BY <3>2, <4>3
        <5>2. QED BY <1>1, <3>1, <4>1, <4>3, <5>1
      <4>4. QED BY <4>2, <4>3
    <3>3. CASE ~occ
      <4>1. came = half + 1 /\ now BY <1>2, <2>1, <3>1, <3>3
      <4>2. QED BY <1>1, <3>1, <3>3, <4>1
    <3>4. QED BY <3>2, <3>3
  <2>2. CASE ~Odd(n) BY <1>1, <1>2, <1>3, <1>4, <2>2
  <2>3. QED BY <2>1, <2>2
<1>6. QED BY <1>5 DEF came, rest

-----------------------------------------------------------------------------
(* The steps that count nothing.                                           *)

SameCounts ==
  /\ Configured' = Configured
  /\ \A d \in Configured : nr2det'[d].au = nr2det[d].au /\ nr2det'[d].zs = nr2det[d].zs

\* a step of the renew thread or the firmware, or a gap that is set
Quiet == UNCHANGED <<main, occupied, since, stale, exact>> /\ SameCounts

\* a step of the loop over all detectors
Looping ==
  /\ UNCHANGED <<occupied, since, stale, exact>> /\ SameCounts
  /\ main.pc = "every" \/ (main.pc = "values" /\ main.todo = {})
  /\ main'.pc \in {"idle", "every"} /\ main'.left = [d \in Det |-> 0]

(* They are quiet.                                                         *)
LEMMA QuietSteps ==
  ASSUME TypeOK,
         \/ SetGap \/ FillStarts \/ FillEnds \/ Subscribe
         \/ RenewFails \/ LeaseExpires \/ Restart \/ UNCHANGED vars
  PROVE  Quiet
<1>1. ASSUME UNCHANGED <<nr2det, main, occupied, histVars>> PROVE Quiet
  BY <1>1 DEF Quiet, SameCounts, Configured, histVars
<1>2. CASE SetGap
  <2>1. PICK d \in Configured, w \in SetValues : nr2det' = [nr2det EXCEPT ![d].ls = w]
    BY <1>2 DEF SetGap
  <2>2. SameCounts
    <3>1. nr2det[d] \in DetectorType BY DEF TypeOK
    <3>2. \A e \in Configured :
            nr2det'[e] = IF e = d THEN [nr2det[d] EXCEPT !.ls = w] ELSE nr2det[e]
      BY <2>1 DEF Configured
    <3>3. QED BY <2>1, <3>1, <3>2 DEF SameCounts, Configured, DetectorType
  <2>3. QED BY <1>2, <2>2 DEF SetGap, Quiet, fwVars, histVars
<1>3. CASE Restart
  <2>1. PICK uptime \in 0 .. UptimeBound :
          nr2det' = [d \in Configured |-> [nr2det[d] EXCEPT !.age = -uptime]]
    BY <1>3 DEF Restart
  <2>2. \A d \in Configured :
          nr2det[d] \in DetectorType /\ nr2det'[d] = [nr2det[d] EXCEPT !.age = -uptime]
    BY <2>1 DEF TypeOK
  <2>3. SameCounts BY <2>1, <2>2 DEF SameCounts, Configured, DetectorType
  <2>4. QED BY <1>3, <2>3 DEF Restart, Quiet, histVars
<1>4. CASE FillStarts \/ FillEnds \/ Subscribe
  BY <1>1, <1>4 DEF FillStarts, FillEnds, Subscribe, fwVars
<1>5. CASE RenewFails \/ LeaseExpires \/ UNCHANGED vars
  BY <1>1, <1>5 DEF RenewFails, LeaseExpires, vars, fwVars
<1>6. QED BY <1>2, <1>3, <1>4, <1>5

(* every100msAfterAU counts no vehicle.                                    *)
LEMMA LoopingSteps ==
  ASSUME TypeOK, ValuesDone \/ \E d \in Det : Every100ms(d)
  PROVE  Looping
<1>1. ASSUME NEW ds, IterateOver(ds)
      PROVE  main'.pc \in {"idle", "every"} /\ main'.left = [d \in Det |-> 0]
  BY <1>1 DEF IterateOver, Waiting
<1>2. CASE ValuesDone
  BY <1>1, <1>2 DEF ValuesDone, Looping, SameCounts, Configured, fwVars, histVars
<1>3. ASSUME NEW d \in Det, Every100ms(d) PROVE Looping
  <2>1. nr2det' = [nr2det EXCEPT ![d] = Every100msAfterAU(nr2det[d])]
    BY <1>3 DEF Every100ms
  <2>2. d \in Configured =>
          /\ Every100msAfterAU(nr2det[d]).au = nr2det[d].au
          /\ Every100msAfterAU(nr2det[d]).zs = nr2det[d].zs
    BY EveryType DEF TypeOK
  <2>3. SameCounts BY <2>1, <2>2 DEF SameCounts, Configured
  <2>4. main'.pc \in {"idle", "every"} /\ main'.left = [e \in Det |-> 0]
    BY <1>1, <1>3 DEF Every100ms
  <2>5. QED BY <1>3, <2>3, <2>4 DEF Every100ms, Looping, fwVars, histVars
<1>4. QED BY <1>2, <1>3

-----------------------------------------------------------------------------
(* wAU is what the firmware has detected last.                             *)

\* the handler has still to see what the message says of d
Busy(d) ==
  \/ main.pc = "undefined"
  \/ main.pc \in {"values", "edges"} /\ d \in main.todo
  \/ main.pc = "edges" /\ main.det = {d}

\* edges are left for detectors the handler is busy with; each turns wAU,
\* and the last one leaves it at the last value
HandlerInv ==
  /\ \A d \in Det : main.left[d] > 0 => Busy(d) /\ stale[d]
  /\ main.pc = "edges" =>
       \E d \in Configured :
         /\ main.det = {d} /\ main.left[d] > 0
         /\ ~Odd(main.left[d]) => nr2det[d].au = occupied[d]
  /\ AuCurrent

(* Every step keeps it.                                                    *)
LEMMA HandlerStep ==
  ASSUME TypeOK, HandlerInv, [Next]_vars PROVE HandlerInv'
<1>1. CASE Quiet
  <2>1. AuCurrent' BY <1>1 DEF HandlerInv, AuCurrent, Quiet, SameCounts
  <2>2. QED BY <1>1, <2>1 DEF HandlerInv, Busy, Quiet, SameCounts
<1>2. CASE Looping
  <2>1. AuCurrent' BY <1>2 DEF HandlerInv, AuCurrent, Looping, SameCounts
  <2>2. QED BY <1>2, <2>1 DEF HandlerInv, Busy, Looping
<1>3. ASSUME NEW n \in Edges, Tick(n) PROVE AuCurrent'
  <2>1. SUFFICES ASSUME NEW d \in Configured', ~stale'[d]
                 PROVE  nr2det'[d].au = occupied'[d]
    BY DEF AuCurrent
  <2>2. d \in Configured /\ d \in Det BY <1>3, TickType DEF TypeOK
  <2>3. nr2det'[d].au = nr2det[d].au
    BY ZenonT(60), <1>3, <2>2, TickType DEF TypeOK, DetectorType
  <2>4. ~stale[d] /\ ~(n[d] > 0) BY <1>3, <2>1, <2>2 DEF Tick, TypeOK
  <2>5. n[d] = 0 BY <2>2, <2>4, DetAssumption DEF Edges
  <2>6. ~Odd(0) BY DEF Odd
  <2>7. occupied'[d] = (occupied[d] # Odd(n[d])) BY <1>3, <2>2 DEF Tick
  <2>8. occupied'[d] = occupied[d] BY <2>2, <2>5, <2>6, <2>7 DEF TypeOK, Odd
  <2>9. QED BY <2>2, <2>3, <2>4, <2>8 DEF HandlerInv, AuCurrent
<1>4. CASE NoMessage
  <2>1. AuCurrent' BY <1>3, <1>4 DEF NoMessage
  <2>2. main' = main /\ main.pc = "idle" BY <1>4 DEF NoMessage
  <2>3. \A d \in Det : ~(main.left[d] > 0) BY <2>2 DEF HandlerInv, Busy
  <2>4. QED BY <2>1, <2>2, <2>3 DEF HandlerInv
<1>5. CASE detstates_8_svc
  <2>1. PICK n \in Edges, status \in BOOLEAN :
          LET listed == {d \in config : full \/ n[d] > 0} IN
          /\ Tick(n)
          /\ main' = [pc |-> "values", todo |-> listed, det |-> {},
                      left |-> [d \in Det |-> IF d \in listed THEN n[d] ELSE 0],
                      status |-> status]
    BY <1>5 DEF detstates_8_svc
  <2>2. \A d \in Det : main'.left[d] > 0 => d \in main'.todo /\ n[d] > 0 BY <2>1
  <2>3. \A d \in Det : n[d] > 0 => stale'[d] BY <2>1 DEF Tick
  <2>4. main'.pc = "values" BY <2>1
  <2>5. QED BY <1>3, <2>1, <2>2, <2>3, <2>4 DEF HandlerInv, Busy
<1>6. ASSUME NEW d \in Det, NewValue(d) PROVE HandlerInv'
  <2>1. CASE d \in Configured
    <3> DEFINE new == SetAU(nr2det[d], occupied[d])
    <3>1. nr2det' = [nr2det EXCEPT ![d] = new] BY <1>6, <2>1 DEF NewValue
    <3>2. nr2det[d] \in DetectorType /\ occupied[d] \in BOOLEAN BY <2>1 DEF TypeOK
    <3>3. new \in DetectorType /\ new.au = occupied[d] BY <3>2, SetAUType
    <3> HIDE DEF new
    <3>4. DetectorsType BY DEF TypeOK, DetectorsType
    <3>5. Configured' = Configured /\ nr2det'[d].au = occupied[d]
      BY <2>1, <3>1, <3>3, <3>4, UpdateType
    <3>6. \A e \in Configured : e # d => nr2det'[e] = nr2det[e]
      BY <3>1, <3>3, <3>4, UpdateType
    <3>7. \A e \in Det : e # d => stale'[e] = stale[e]
      BY <1>6, <2>1 DEF NewValue, TypeOK
    <3>8. occupied' = occupied BY <1>6 DEF NewValue, fwVars
    <3>9. AuCurrent'
      <4>1. ASSUME NEW e \in Configured', ~stale'[e] PROVE nr2det'[e].au = occupied'[e]
        <5>1. CASE e = d BY <3>5, <3>8, <5>1
        <5>2. CASE e # d
          BY <3>5, <3>6, <3>7, <3>8, <4>1, <5>2 DEF HandlerInv, AuCurrent, TypeOK
        <5>3. QED BY <5>1, <5>2
      <4>2. QED BY <4>1 DEF AuCurrent
    <3>10. CASE main.left[d] > 0
      <4>1. main' = [main EXCEPT !.pc = "edges", !.det = {d}, !.todo = @ \ {d}] /\ stale' = stale
        BY <1>6, <2>1, <3>10 DEF NewValue
      <4>2. /\ main'.pc = "edges" /\ main'.det = {d} /\ main'.todo = main.todo \ {d}
            /\ main'.left = main.left
        BY <4>1 DEF TypeOK
      <4>3. main.pc = "values" BY <1>6 DEF NewValue
      <4>4. \A e \in Det : main'.left[e] > 0 => Busy(e)' /\ stale'[e]
        BY <4>1, <4>2, <4>3 DEF HandlerInv, Busy
      <4>5. QED BY <2>1, <3>5, <3>8, <3>9, <3>10, <4>2, <4>4 DEF HandlerInv
    <3>11. CASE ~(main.left[d] > 0)
      <4>1. main' = [main EXCEPT !.todo = @ \ {d}] BY <1>6, <2>1, <3>11 DEF NewValue
      <4>2. main'.pc = "values" /\ main'.todo = main.todo \ {d} /\ main'.left = main.left
        BY <1>6, <4>1 DEF NewValue, TypeOK
      <4>3. main.pc = "values" BY <1>6 DEF NewValue
      <4>4. \A e \in Det : main'.left[e] > 0 => Busy(e)' /\ stale'[e]
        BY <3>7, <3>11, <4>2, <4>3 DEF HandlerInv, Busy
      <4>5. QED BY <3>9, <4>2, <4>4 DEF HandlerInv
    <3>12. QED BY <3>10, <3>11
  <2>2. CASE d \notin Configured
    <3>1. main' = [main EXCEPT !.todo = @ \ {d}, !.left[d] = 0]
      BY <1>6, <2>2 DEF NewValue
    <3>2. /\ main.pc = "values" /\ main'.pc = "values" /\ main'.todo = main.todo \ {d}
          /\ \A e \in Det : main'.left[e] = IF e = d THEN 0 ELSE main.left[e]
      BY <1>6, <3>1 DEF NewValue, TypeOK
    <3>3. UNCHANGED <<nr2det, occupied, stale>> BY <1>6, <2>2 DEF NewValue, fwVars
    <3>4. \A e \in Det : main'.left[e] > 0 => Busy(e)' /\ stale'[e]
      BY <3>2, <3>3 DEF HandlerInv, Busy
    <3>5. AuCurrent' BY <3>3 DEF HandlerInv, AuCurrent, Configured
    <3>6. QED BY <3>2, <3>4, <3>5 DEF HandlerInv
  <2>3. QED BY <2>1, <2>2
<1>7. ASSUME NEW d \in Det, NewEdge(d) PROVE HandlerInv'
  <2>1. PICK value \in BOOLEAN :
          /\ value = (IF Odd(main.left[d]) THEN occupied[d] ELSE ~occupied[d])
          /\ nr2det' = [nr2det EXCEPT ![d] = SetAU(nr2det[d], value)]
    BY <1>7 DEF NewEdge, TypeOK
  <2>2. /\ d \in Configured /\ main.left[d] \in Nat \ {0}
        /\ ~Odd(main.left[d]) => nr2det[d].au = occupied[d]
    BY <1>7 DEF NewEdge, HandlerInv, TypeOK
  <2> DEFINE new == SetAU(nr2det[d], value)
  <2>3. nr2det[d] \in DetectorType /\ occupied[d] \in BOOLEAN BY <2>2 DEF TypeOK
  <2>4. /\ new \in DetectorType
        /\ new.au = value
        /\ ~Odd(main.left[d] - 1) => new.au = occupied[d]
    BY <2>1, <2>2, <2>3, SetAUType, EdgeCounts
  <2>5. nr2det' = [nr2det EXCEPT ![d] = new] BY <2>1
  <2> HIDE DEF new
  <2>6. DetectorsType BY DEF TypeOK, DetectorsType
  <2>7. /\ Configured' = Configured /\ nr2det'[d] = new
        /\ \A e \in Configured : e # d => nr2det'[e] = nr2det[e]
    BY <2>2, <2>4, <2>5, <2>6, UpdateType
  <2>8. occupied' = occupied /\ main.pc = "edges" /\ main.det = {d}
    BY <1>7 DEF NewEdge, fwVars
  <2>9. CASE main.left[d] > 1
    <3>1. main' = [main EXCEPT !.left[d] = @ - 1] /\ stale' = stale
      BY <1>7, <2>9 DEF NewEdge
    <3>2. /\ main'.pc = "edges" /\ main'.det = {d} /\ main'.todo = main.todo
          /\ \A e \in Det : main'.left[e] = IF e = d THEN main.left[d] - 1 ELSE main.left[e]
      BY <2>8, <3>1 DEF TypeOK
    <3>3. \A e \in Det : main'.left[e] > 0 => Busy(e)' /\ stale'[e]
      BY <2>2, <2>8, <3>1, <3>2 DEF HandlerInv, Busy
    <3>4. stale[d] BY <2>2 DEF HandlerInv
    <3>5. AuCurrent' BY <2>7, <2>8, <3>1, <3>4 DEF HandlerInv, AuCurrent
    <3>6. main'.left[d] = main.left[d] - 1 /\ main'.left[d] > 0
      BY <2>2, <2>9, <3>2
    <3>7. QED BY <2>2, <2>4, <2>7, <2>8, <3>2, <3>3, <3>5, <3>6 DEF HandlerInv
  <2>10. CASE ~(main.left[d] > 1)
    <3>1. /\ main' = [main EXCEPT !.left[d] = 0, !.pc = "values", !.det = {}]
          /\ stale' = [stale EXCEPT ![d] = FALSE]
      BY <1>7, <2>10 DEF NewEdge
    <3>2. /\ main'.pc = "values" /\ main'.todo = main.todo
          /\ \A e \in Det : main'.left[e] = IF e = d THEN 0 ELSE main.left[e]
      BY <3>1 DEF TypeOK
    <3>3. \A e \in Det : e # d => stale'[e] = stale[e] BY <3>1 DEF TypeOK
    <3>4. \A e \in Det : main'.left[e] > 0 => Busy(e)' /\ stale'[e]
      BY <2>8, <3>2, <3>3 DEF HandlerInv, Busy
    <3>5. main.left[d] = 1 BY <2>2, <2>10
    <3>6. new.au = occupied[d] BY <2>4, <3>5 DEF Odd
    <3>7. AuCurrent'
      BY <2>7, <2>8, <3>3, <3>6 DEF HandlerInv, AuCurrent, TypeOK
    <3>8. QED BY <3>2, <3>4, <3>7 DEF HandlerInv
  <2>11. QED BY <2>9, <2>10
<1>8. CASE SetCounter
  <2>1. PICK d \in Configured, w \in SetValues : nr2det' = [nr2det EXCEPT ![d].zs = w]
    BY <1>8 DEF SetCounter
  <2>2. nr2det[d] \in DetectorType BY DEF TypeOK
  <2>3. \A e \in Configured :
          nr2det'[e] = IF e = d THEN [nr2det[d] EXCEPT !.zs = w] ELSE nr2det[e]
    BY <2>1 DEF Configured
  <2>4. /\ Configured' = Configured
        /\ \A e \in Configured : nr2det'[e].au = nr2det[e].au
    BY <2>1, <2>2, <2>3 DEF DetectorType, Configured
  <2>5. UNCHANGED <<main, occupied, stale>> BY <1>8 DEF SetCounter, fwVars
  <2>6. AuCurrent' BY <2>4, <2>5 DEF HandlerInv, AuCurrent
  <2>7. QED BY <2>4, <2>5, <2>6 DEF HandlerInv, Busy
<1>9. ASSUME NEW d \in Det, Insert(d) PROVE HandlerInv'
  <2>1. /\ nr2det' = [e \in Configured \cup {d} |->
                        IF e = d THEN NewDetector ELSE nr2det[e]]
        /\ stale' = [stale EXCEPT ![d] = TRUE] /\ d \notin Configured
        /\ UNCHANGED <<main, occupied>>
    BY <1>9 DEF Insert, fwVars
  <2>2. /\ Configured' = Configured \cup {d}
        /\ \A e \in Configured : e # d /\ nr2det'[e] = nr2det[e]
    BY <2>1 DEF Configured
  <2>3. /\ stale'[d] /\ \A e \in Det : e # d => stale'[e] = stale[e]
    BY <2>1 DEF TypeOK
  <2>4. AuCurrent' BY <2>1, <2>2, <2>3 DEF HandlerInv, AuCurrent, TypeOK
  <2>5. \A e \in Det : main'.left[e] > 0 => Busy(e)' /\ stale'[e]
    BY <2>1, <2>3 DEF HandlerInv, Busy
  <2>6. QED BY <2>1, <2>2, <2>4, <2>5 DEF HandlerInv
<1>10. ASSUME NEW d \in Det, Erase(d) PROVE HandlerInv'
  <2>1. /\ Configured' = Configured \ {d}
        /\ \A e \in Configured' : nr2det'[e] = nr2det[e]
        /\ UNCHANGED <<occupied, stale>>
    BY <1>10 DEF Erase, Configured, fwVars, histVars
  <2>2. AuCurrent' BY <2>1 DEF HandlerInv, AuCurrent
  <2>3. CASE main.det = {d}
    <3>1. main'.pc = "undefined" /\ main'.left = main.left
      BY <1>10, <2>3 DEF Erase, TypeOK
    <3>2. QED BY <2>1, <2>2, <3>1 DEF HandlerInv, Busy
  <2>4. CASE main.det # {d}
    <3>1. main' = main BY <1>10, <2>4 DEF Erase
    <3>2. QED BY <2>1, <2>2, <2>4, <3>1 DEF HandlerInv, Busy
  <2>5. QED BY <2>3, <2>4
<1>11. QED
  BY <1>1, <1>2, <1>4, <1>5, <1>6, <1>7, <1>8, <1>9, <1>10, QuietSteps, LoopingSteps
  DEF Next, Handler, Fill

(* wAU is what the firmware has detected last, unless a change was lost.   *)
THEOREM AuIsCurrent == Spec => []AuCurrent
<1>1. Init => HandlerInv
  BY DEF Init, HandlerInv, AuCurrent, Configured, Waiting
<1>2. TypeOK /\ HandlerInv /\ [Next]_vars => HandlerInv' BY HandlerStep
<1>3. HandlerInv => AuCurrent BY DEF HandlerInv
<1>4. QED BY <1>1, <1>2, <1>3, TypesAreRight, PTL DEF Spec
-----------------------------------------------------------------------------
(* Vehicles are counted once each.                                         *)

Counted(d) ==
  LET zs == nr2det[d].zs  coming == Coming(nr2det[d], d) IN
  /\ zs + coming <= since[d]
  /\ exact[d] => zs + coming = since[d] \/ zs >= ZsMax

\* a detector of which nothing was lost is up to date unless the handler
\* has still to see what the message says of it
ExactInv == \A d \in Configured : exact[d] /\ stale[d] => Busy(d)

CountInv == ExactInv /\ VehiclesCounted

(* What was counted stays right over a step of the handler.                *)
LEMMA CountsOnKeeps ==
  ASSUME TypeOK, TypeOK', NEW d \in Configured, d \in Configured', Counted(d),
         since'[d] = since[d], exact'[d] = exact[d], occupied'[d] = occupied[d],
         CountsOn(nr2det[d], main.left[d], nr2det'[d], main'.left[d], occupied[d])
  PROVE  Counted(d)'
<1>1. /\ nr2det[d].zs \in Nat /\ nr2det'[d].zs \in Nat
      /\ since[d] \in Nat /\ ZsMax \in Nat
  BY DetAssumption DEF TypeOK, DetectorType
<1>2. main.left[d] \in Nat /\ main'.left[d] \in Nat BY DEF TypeOK
<1>3. /\ Coming(nr2det[d], d) = ToCount(nr2det[d], occupied[d], main.left[d])
      /\ Coming(nr2det[d], d)' = ToCount(nr2det'[d], occupied[d], main'.left[d])
  BY DEF Coming, ToCount
<1>4. /\ ToCount(nr2det[d], occupied[d], main.left[d]) \in Nat
      /\ ToCount(nr2det'[d], occupied[d], main'.left[d]) \in Nat
  BY <1>2 DEF ToCount
<1>5. QED BY <1>1, <1>3, <1>4 DEF Counted, CountsOn

(* A detector that does not change counts on.                              *)
LEMMA SameCountsOn ==
  ASSUME NEW det \in DetectorType, NEW new \in DetectorType, NEW j \in Nat,
         NEW occ \in BOOLEAN, new.au = det.au, new.zs = det.zs
  PROVE  CountsOn(det, j, new, j, occ)
BY DetAssumption DEF CountsOn, ToCount, DetectorType

(* A tick adds the vehicles that came; without a message, or for a         *)
(* detector that the message does not list, they are lost.                 *)
LEMMA TickKeeps ==
  ASSUME TypeOK, TypeOK', HandlerInv, CountInv, main.pc = "idle",
         NEW n \in Edges, Tick(n), NEW d \in Configured,
         main'.left[d] \in {0, n[d]},
         exact'[d] => exact[d] /\ main'.left[d] = n[d]
  PROVE  Counted(d)'
<1>1. d \in Det /\ d \in Configured' BY TickType DEF TypeOK
<1>2. main.left[d] = 0 BY <1>1 DEF HandlerInv, Busy, TypeOK
<1>3. /\ nr2det'[d].au = nr2det[d].au /\ nr2det'[d].zs = nr2det[d].zs
      /\ nr2det[d].au \in BOOLEAN /\ nr2det[d].zs \in Nat
  <2>1. nr2det[d] \in DetectorType BY DEF TypeOK
  <2>2. nr2det'[d] = [nr2det[d] EXCEPT !.age = Lesser(@ + 1, BuPeriod)] BY TickType
  <2>3. nr2det'[d].au = nr2det[d].au /\ nr2det'[d].zs = nr2det[d].zs
    BY <2>1, <2>2 DEF DetectorType
  <2>4. nr2det[d].au \in BOOLEAN /\ nr2det[d].zs \in Nat
    BY <2>1, DetAssumption DEF DetectorType
  <2>5. QED BY <2>3, <2>4
<1>4. /\ n[d] \in Nat /\ occupied[d] \in BOOLEAN /\ occupied'[d] \in BOOLEAN
      /\ since[d] \in Nat
  BY <1>1, DetAssumption DEF Edges, TypeOK
<1> DEFINE before == IF ~nr2det[d].au /\ occupied[d] THEN 1 ELSE 0
           after  == (IF ~nr2det[d].au /\ occupied'[d] THEN 1 ELSE 0) + main'.left[d] \div 2
           came   == (n[d] + (IF occupied[d] THEN 0 ELSE 1)) \div 2
<1>5. occupied'[d] = (occupied[d] # Odd(n[d])) /\ since'[d] = since[d] + came
  BY <1>1 DEF Tick
<1>6. /\ after <= before + came
      /\ nr2det[d].au = occupied[d] /\ main'.left[d] = n[d] => after = before + came
  <2>1. PICK au \in BOOLEAN, occ \in BOOLEAN, now \in BOOLEAN :
          au = nr2det[d].au /\ occ = occupied[d] /\ now = occupied'[d]
    BY <1>3, <1>4
  <2>2. now = (occ # Odd(n[d])) BY <1>5, <2>1
  <2>3. PICK left \in {0, n[d]} : left = main'.left[d] OBVIOUS
  <2>4. /\ (IF ~au /\ now THEN 1 ELSE 0) + left \div 2
             <= (IF ~au /\ occ THEN 1 ELSE 0) + (n[d] + (IF occ THEN 0 ELSE 1)) \div 2
        /\ au = occ /\ left = n[d] =>
             (IF ~au /\ now THEN 1 ELSE 0) + left \div 2
               = (IF ~au /\ occ THEN 1 ELSE 0) + (n[d] + (IF occ THEN 0 ELSE 1)) \div 2
    BY ZenonT(60), <1>4, <2>2, TickCounts
  <2>5. QED BY <2>1, <2>3, <2>4
<1>7. Coming(nr2det[d], d) = before /\ Coming(nr2det[d], d)' = after
  BY <1>2, <1>3 DEF Coming
<1>8. exact[d] => nr2det[d].au = occupied[d]
  BY DEF CountInv, ExactInv, Busy, HandlerInv, AuCurrent
<1>9. nr2det[d].zs + before <= since[d]
      /\ (exact[d] => nr2det[d].zs + before = since[d] \/ nr2det[d].zs >= ZsMax)
  BY <1>7 DEF CountInv, VehiclesCounted
<1>10. before \in Nat /\ came \in Nat BY <1>4
<1>11. after \in Nat
  <2>1. main'.left[d] \in Nat BY <1>4
  <2>2. QED BY <2>1
<1> HIDE DEF before, after, came
<1>12. /\ nr2det[d].zs + after <= since[d] + came
       /\ exact'[d] => \/ nr2det[d].zs + after = since[d] + came
                        \/ nr2det[d].zs >= ZsMax
  <2>1. nr2det[d].zs + after <= since[d] + came
    BY <1>3, <1>4, <1>6, <1>9, <1>10, <1>11
  <2>2. ASSUME exact'[d], ~(nr2det[d].zs >= ZsMax)
        PROVE  nr2det[d].zs + after = since[d] + came
    <3>1. after = before + came BY <1>6, <1>8, <2>2
    <3>2. nr2det[d].zs + before = since[d] BY <1>9, <2>2
    <3>3. QED BY <1>3, <1>4, <1>10, <3>1, <3>2
  <2>3. QED BY <2>1, <2>2
<1>13. QED BY <1>3, <1>5, <1>7, <1>12 DEF Counted

(* Every step keeps the counts right.                                      *)
LEMMA CountStep ==
  ASSUME TypeOK, TypeOK', HandlerInv, CountInv, [Next]_vars
  PROVE  CountInv'
<1>1. \A d \in Configured : d \in Det /\ nr2det[d] \in DetectorType
         /\ occupied[d] \in BOOLEAN /\ main.left[d] \in Nat
  BY DEF TypeOK
<1>2. \A d \in Configured' : nr2det'[d] \in DetectorType
  BY DEF TypeOK
<1>3. main.pc # "undefined" => \A d \in Configured : Counted(d)
  BY DEF CountInv, VehiclesCounted, Counted
<1>4. (main'.pc # "undefined" => \A d \in Configured' : Counted(d)') => VehiclesCounted'
  BY DEF VehiclesCounted, Counted
<1>5. CASE Quiet
  <2>1. ExactInv' BY <1>5 DEF CountInv, ExactInv, Busy, Quiet, SameCounts
  <2>2. ASSUME main'.pc # "undefined", NEW d \in Configured' PROVE Counted(d)'
    <3>1. d \in Configured /\ Counted(d) BY <1>3, <1>5, <2>2 DEF Quiet, SameCounts
    <3>2. CountsOn(nr2det[d], main.left[d], nr2det'[d], main'.left[d], occupied[d])
      BY <1>1, <1>2, <1>5, <3>1, SameCountsOn DEF Quiet, SameCounts
    <3>3. QED BY <1>5, <3>1, <3>2, CountsOnKeeps DEF Quiet
  <2>3. QED BY <1>4, <2>1, <2>2 DEF CountInv
<1>6. CASE Looping
  <2>1. \A d \in Det : ~Busy(d) /\ main.left[d] = 0
    BY <1>6 DEF HandlerInv, Looping, Busy, TypeOK
  <2>2. ExactInv' BY <1>1, <1>6, <2>1 DEF CountInv, ExactInv, Looping, SameCounts
  <2>3. ASSUME main'.pc # "undefined", NEW d \in Configured' PROVE Counted(d)'
    <3>1. d \in Configured /\ Counted(d)
      BY <1>3, <1>6, <2>3 DEF Looping, SameCounts
    <3>2. main.left[d] = 0 /\ main'.left[d] = 0 BY <1>1, <1>6, <2>1, <3>1 DEF Looping
    <3>3. CountsOn(nr2det[d], main.left[d], nr2det'[d], main'.left[d], occupied[d])
      BY <1>1, <1>2, <1>6, <3>1, <3>2, SameCountsOn DEF Looping, SameCounts
    <3>4. QED BY <1>6, <3>1, <3>3, CountsOnKeeps DEF Looping
  <2>4. QED BY <1>4, <2>2, <2>3 DEF CountInv
<1>7. CASE NoMessage
  <2>1. PICK n \in Edges : Tick(n) /\ exact' = [d \in Det |-> exact[d] /\ n[d] = 0]
    BY <1>7 DEF NoMessage
  <2>2. main' = main /\ main.pc = "idle" BY <1>7 DEF NoMessage
  <2>3. Configured' = Configured BY <2>1, TickType
  <2>4. \A d \in Configured : main.left[d] = 0
    BY <1>1, <2>2 DEF HandlerInv, Busy
  <2>5. ExactInv'
    <3>1. ASSUME NEW d \in Configured, exact'[d] PROVE ~stale'[d]
      <4>1. exact[d] /\ n[d] = 0 BY <1>1, <2>1, <3>1
      <4>2. ~stale[d] BY <2>2, <4>1 DEF CountInv, ExactInv, Busy
      <4>3. stale'[d] = (stale[d] \/ n[d] > 0) BY <1>1, <2>1 DEF Tick
      <4>4. ~(n[d] > 0) BY <4>1
      <4>5. QED BY <4>2, <4>3, <4>4
    <3>2. QED BY <2>3, <3>1 DEF ExactInv
  <2>6. ASSUME NEW d \in Configured PROVE Counted(d)'
    <3>1. main'.left[d] = 0 BY <2>2, <2>4
    <3>2. exact'[d] => exact[d] /\ main'.left[d] = n[d] BY <1>1, <2>1, <3>1
    <3>3. QED BY <2>1, <2>2, <3>1, <3>2, TickKeeps
  <2>7. QED BY <1>4, <2>3, <2>5, <2>6 DEF CountInv
<1>8. CASE detstates_8_svc
  <2>1. PICK n \in Edges, status \in BOOLEAN :
          LET listed == {d \in config : full \/ n[d] > 0} IN
          /\ Tick(n)
          /\ exact' = [d \in Det |-> exact[d] /\ (d \in config \/ n[d] = 0)]
          /\ main' = [pc |-> "values", todo |-> listed, det |-> {},
                      left |-> [d \in Det |-> IF d \in listed THEN n[d] ELSE 0],
                      status |-> status]
    BY <1>8 DEF detstates_8_svc
  <2>2. main.pc = "idle" BY <1>8 DEF detstates_8_svc
  <2>3. Configured' = Configured BY <2>1, TickType
  <2>4. \A d \in Det : n[d] \in Nat BY DetAssumption DEF Edges
  <2>5. ASSUME NEW d \in Configured
        PROVE  /\ main'.left[d] \in {0, n[d]}
               /\ exact'[d] => exact[d] /\ main'.left[d] = n[d]
               /\ n[d] > 0 /\ exact'[d] => d \in main'.todo
    <3>1. main'.left[d] = IF d \in config /\ (full \/ n[d] > 0) THEN n[d] ELSE 0
      BY <1>1, <2>1
    <3>2. d \in main'.todo <=> d \in config /\ (full \/ n[d] > 0) BY <2>1
    <3>3. exact'[d] => exact[d] /\ (d \in config \/ n[d] = 0) BY <1>1, <2>1
    <3>4. n[d] \in Nat BY <1>1, <2>4
    <3>5. QED BY <3>1, <3>2, <3>3, <3>4
  <2>6. ExactInv'
    <3>1. ASSUME NEW d \in Configured, exact'[d], stale'[d] PROVE Busy(d)'
      <4>1. exact[d] BY <2>5, <3>1
      <4>2. ~stale[d] BY <2>2, <4>1 DEF CountInv, ExactInv, Busy
      <4>3. n[d] > 0 BY <1>1, <2>1, <3>1, <4>2 DEF Tick
      <4>4. main'.pc = "values" BY <2>1
      <4>5. QED BY <2>5, <3>1, <4>3, <4>4 DEF Busy
    <3>2. QED BY <2>3, <3>1 DEF ExactInv
  <2>7. \A d \in Configured : Counted(d)' BY <2>1, <2>2, <2>5, TickKeeps
  <2>8. QED BY <1>4, <2>3, <2>6, <2>7 DEF CountInv
<1>9. ASSUME NEW d \in Det, NewValue(d) PROVE CountInv'
  <2>1. CASE d \in Configured
    <3> DEFINE new == SetAU(nr2det[d], occupied[d])
    <3>1. nr2det' = [nr2det EXCEPT ![d] = new] BY <1>9, <2>1 DEF NewValue
    <3>2. new \in DetectorType BY <1>1, <2>1, SetAUType
    <3>3. CountsOn(nr2det[d], main.left[d], new, main.left[d], occupied[d])
      BY <1>1, <2>1, ValueCounts
    <3> HIDE DEF new
    <3>4. DetectorsType BY DEF TypeOK, DetectorsType
    <3>5. /\ Configured' = Configured /\ nr2det'[d] = new
          /\ \A e \in Configured : e # d => nr2det'[e] = nr2det[e]
      BY <2>1, <3>1, <3>2, <3>4, UpdateType
    <3>6. /\ UNCHANGED <<occupied, since, exact>> /\ main.pc = "values"
          /\ main'.left = main.left
          /\ \/ main'.pc = "edges" /\ main'.det = {d} /\ stale' = stale
             \/ main'.pc = "values" /\ stale' = [stale EXCEPT ![d] = FALSE]
          /\ main'.todo = main.todo \ {d}
      BY <1>9, <2>1 DEF NewValue, fwVars, TypeOK
    <3>7. ExactInv'
      <4>1. ASSUME NEW e \in Configured, exact'[e], stale'[e] PROVE Busy(e)'
        <5>1. CASE e = d BY <1>1, <3>6, <4>1, <5>1 DEF Busy, TypeOK
        <5>2. CASE e # d
          <6>1. exact[e] /\ stale[e] BY <1>1, <3>6, <4>1, <5>2 DEF TypeOK
          <6>2. QED BY <3>6, <5>2, <6>1 DEF CountInv, ExactInv, Busy
        <5>3. QED BY <5>1, <5>2
      <4>2. QED BY <3>5, <4>1 DEF ExactInv
    <3>8. ASSUME NEW e \in Configured PROVE Counted(e)'
      <4>1. CountsOn(nr2det[e], main.left[e], nr2det'[e], main'.left[e], occupied[e])
        <5>1. CASE e = d BY <3>3, <3>5, <3>6, <5>1
        <5>2. CASE e # d BY <1>1, <3>5, <3>6, <5>2, SameCountsOn
        <5>3. QED BY <5>1, <5>2
      <4>2. Counted(e) BY <1>3, <3>6
      <4>3. QED BY <3>5, <3>6, <4>1, <4>2, CountsOnKeeps
    <3>9. QED BY <1>4, <3>5, <3>7, <3>8 DEF CountInv
  <2>2. CASE d \notin Configured
    <3>1. main' = [main EXCEPT !.todo = @ \ {d}, !.left[d] = 0]
      BY <1>9, <2>2 DEF NewValue
    <3>2. /\ main.pc = "values" /\ main'.pc = "values" /\ main'.todo = main.todo \ {d}
          /\ \A e \in Det : e # d => main'.left[e] = main.left[e]
      BY <1>9, <3>1 DEF NewValue, TypeOK
    <3>3. UNCHANGED <<nr2det, occupied, since, stale, exact>>
      BY <1>9, <2>2 DEF NewValue, fwVars
    <3>4. Configured' = Configured BY <3>3 DEF Configured
    <3>5. ExactInv' BY <2>2, <3>2, <3>3, <3>4 DEF CountInv, ExactInv, Busy
    <3>6. ASSUME NEW e \in Configured PROVE Counted(e)'
      <4>1. main'.left[e] = main.left[e] BY <1>1, <2>2, <3>2
      <4>2. Counted(e) BY <1>3, <3>2
      <4>3. QED BY <3>3, <4>1, <4>2 DEF Counted, Coming
    <3>7. QED BY <1>4, <3>4, <3>5, <3>6 DEF CountInv
  <2>3. QED BY <2>1, <2>2
<1>10. ASSUME NEW d \in Det, NewEdge(d) PROVE CountInv'
  <2>1. PICK value \in BOOLEAN :
          /\ value = (IF Odd(main.left[d]) THEN occupied[d] ELSE ~occupied[d])
          /\ nr2det' = [nr2det EXCEPT ![d] = SetAU(nr2det[d], value)]
    BY <1>10 DEF NewEdge, TypeOK
  <2>2. /\ d \in Configured /\ main.left[d] \in Nat \ {0}
        /\ ~Odd(main.left[d]) => nr2det[d].au = occupied[d]
    BY <1>10 DEF NewEdge, HandlerInv, TypeOK
  <2> DEFINE new == SetAU(nr2det[d], value)
  <2>3. new \in DetectorType BY <1>1, <2>2, SetAUType
  <2>4. CountsOn(nr2det[d], main.left[d], new, main.left[d] - 1, occupied[d])
    BY <1>1, <2>1, <2>2, EdgeCounts
  <2>5. nr2det' = [nr2det EXCEPT ![d] = new] BY <2>1
  <2> HIDE DEF new
  <2>6. DetectorsType BY DEF TypeOK, DetectorsType
  <2>7. /\ Configured' = Configured /\ nr2det'[d] = new
        /\ \A e \in Configured : e # d => nr2det'[e] = nr2det[e]
    BY <2>2, <2>3, <2>5, <2>6, UpdateType
  <2>8. UNCHANGED <<occupied, since, exact>> /\ main.pc = "edges" /\ main.det = {d}
    BY <1>10 DEF NewEdge, fwVars
  <2>9. /\ \A e \in Det : main'.left[e] = IF e = d THEN main.left[d] - 1 ELSE main.left[e]
        /\ main'.todo = main.todo
        /\ \/ main'.pc = "edges" /\ main'.det = {d} /\ stale' = stale
           \/ main'.pc = "values" /\ stale' = [stale EXCEPT ![d] = FALSE]
    <3>1. CASE main.left[d] > 1
      <4>1. main' = [main EXCEPT !.left[d] = @ - 1] /\ stale' = stale
        BY <1>10, <3>1 DEF NewEdge
      <4>2. QED BY <2>8, <4>1 DEF TypeOK
    <3>2. CASE ~(main.left[d] > 1)
      <4>1. /\ main' = [main EXCEPT !.left[d] = 0, !.pc = "values", !.det = {}]
            /\ stale' = [stale EXCEPT ![d] = FALSE]
        BY <1>10, <3>2 DEF NewEdge
      <4>2. main.left[d] - 1 = 0 BY <2>2, <3>2
      <4>3. QED BY <4>1, <4>2 DEF TypeOK
    <3>3. QED BY <3>1, <3>2
  <2>10. ExactInv'
    <3>1. ASSUME NEW e \in Configured, exact'[e], stale'[e] PROVE Busy(e)'
      <4>1. CASE e = d BY <1>1, <2>9, <3>1, <4>1 DEF Busy, TypeOK
      <4>2. CASE e # d
        <5>1. exact[e] /\ stale[e] BY <1>1, <2>8, <2>9, <3>1, <4>2 DEF TypeOK
        <5>2. e \in main.todo BY <2>8, <4>2, <5>1 DEF CountInv, ExactInv, Busy
        <5>3. QED BY <2>9, <5>2 DEF Busy
      <4>3. QED BY <4>1, <4>2
    <3>2. QED BY <2>7, <3>1 DEF ExactInv
  <2>11. ASSUME NEW e \in Configured PROVE Counted(e)'
    <3>1. CountsOn(nr2det[e], main.left[e], nr2det'[e], main'.left[e], occupied[e])
      <4>1. CASE e = d BY <1>1, <2>4, <2>7, <2>9, <4>1
      <4>2. CASE e # d
        <5>1. main'.left[e] = main.left[e] BY <1>1, <2>9, <4>2
        <5>2. QED BY <1>1, <2>7, <4>2, <5>1, SameCountsOn
      <4>3. QED BY <4>1, <4>2
    <3>2. Counted(e) BY <1>3, <2>8
    <3>3. QED BY <2>7, <2>8, <3>1, <3>2, CountsOnKeeps
  <2>12. QED BY <1>4, <2>7, <2>10, <2>11 DEF CountInv
<1>11. CASE SetCounter
  <2>1. PICK d \in Configured, w \in SetValues :
          /\ MaySet(w)
          /\ nr2det' = [nr2det EXCEPT ![d].zs = w]
          /\ since' = [since EXCEPT ![d] = w + Coming(nr2det[d], d)]
          /\ exact' = [exact EXCEPT ![d] = ~stale[d]]
    BY <1>11 DEF SetCounter
  <2>2. UNCHANGED <<main, occupied, stale>> BY <1>11 DEF SetCounter, fwVars
  <2>3. \A e \in Configured :
          nr2det'[e] = IF e = d THEN [nr2det[d] EXCEPT !.zs = w] ELSE nr2det[e]
    BY <2>1 DEF Configured
  <2>4. Configured' = Configured /\ d \in Det BY <1>1, <2>1 DEF Configured
  <2>5. nr2det'[d].zs = w /\ nr2det'[d].au = nr2det[d].au
    BY <1>1, <2>1, <2>3 DEF DetectorType
  <2>6. main.pc # "undefined" BY <2>1 DEF MaySet
  <2>7. \A e \in Configured : exact'[e] = IF e = d THEN ~stale[d] ELSE exact[e]
    BY <1>1, <2>1 DEF TypeOK
  <2>8. ExactInv' BY <2>2, <2>4, <2>7 DEF CountInv, ExactInv, Busy
  <2>9. ASSUME NEW e \in Configured PROVE Counted(e)'
    <3>1. CASE e = d
      <4>1. since'[d] = w + Coming(nr2det[d], d) BY <2>1, <2>4 DEF TypeOK
      <4>2. Coming(nr2det[d], d)' = Coming(nr2det[d], d) BY <2>2, <2>5 DEF Coming
      <4>3. w + Coming(nr2det[d], d) \in Nat BY <2>4, <4>1 DEF TypeOK
      <4>4. QED BY <2>5, <3>1, <4>1, <4>2, <4>3 DEF Counted
    <3>2. CASE e # d
      <4>1. /\ nr2det'[e] = nr2det[e] /\ since'[e] = since[e]
            /\ exact'[e] = exact[e]
        BY <1>1, <2>1, <2>3, <2>7, <3>2 DEF TypeOK
      <4>2. Counted(e) BY <1>3, <2>6
      <4>3. QED BY <2>2, <4>1, <4>2 DEF Counted, Coming
    <3>3. QED BY <3>1, <3>2
  <2>10. QED BY <1>4, <2>4, <2>8, <2>9 DEF CountInv
<1>12. ASSUME NEW d \in Det, Insert(d) PROVE CountInv'
  <2>1. /\ nr2det' = [e \in Configured \cup {d} |->
                        IF e = d THEN NewDetector ELSE nr2det[e]]
        /\ d \notin Configured /\ UNCHANGED <<main, occupied>>
        /\ since' = [since EXCEPT ![d] = Coming(NewDetector, d)]
        /\ stale' = [stale EXCEPT ![d] = TRUE]
        /\ exact' = [exact EXCEPT ![d] = FALSE]
    BY <1>12 DEF Insert, fwVars
  <2>2. /\ Configured' = Configured \cup {d} /\ nr2det'[d] = NewDetector
        /\ \A e \in Configured : e # d /\ nr2det'[e] = nr2det[e]
    BY <2>1 DEF Configured
  <2>3. /\ ~exact'[d] /\ since'[d] = Coming(NewDetector, d)
        /\ \A e \in Configured :
             since'[e] = since[e] /\ stale'[e] = stale[e] /\ exact'[e] = exact[e]
    BY <1>1, <2>1 DEF TypeOK
  <2>4. ExactInv' BY <2>1, <2>2, <2>3 DEF CountInv, ExactInv, Busy
  <2>5. ASSUME main'.pc # "undefined", NEW e \in Configured' PROVE Counted(e)'
    <3>1. CASE e = d
      <4>1. Coming(nr2det[d], d)' = since'[d] BY <2>1, <2>2, <2>3 DEF Coming
      <4>2. NewDetector.zs = 0 /\ since'[d] \in Nat BY DEF NewDetector, TypeOK
      <4>3. QED BY <2>2, <2>3, <3>1, <4>1, <4>2 DEF Counted
    <3>2. CASE e # d
      <4>1. e \in Configured BY <2>2, <3>2
      <4>2. Counted(e) BY <1>3, <2>1, <2>5, <4>1
      <4>3. QED BY <2>1, <2>2, <2>3, <4>1, <4>2 DEF Counted, Coming
    <3>3. QED BY <3>1, <3>2
  <2>6. QED BY <1>4, <2>4, <2>5 DEF CountInv
<1>13. ASSUME NEW d \in Det, Erase(d) PROVE CountInv'
  <2>1. /\ Configured' = Configured \ {d}
        /\ \A e \in Configured' : nr2det'[e] = nr2det[e]
        /\ UNCHANGED <<occupied, since, stale, exact>>
    BY <1>13 DEF Erase, Configured, fwVars, histVars
  <2>2. main' = main \/ main'.pc = "undefined" BY <1>13 DEF Erase, TypeOK
  <2>3. ExactInv' BY <2>1, <2>2 DEF CountInv, ExactInv, Busy
  <2>4. ASSUME main'.pc # "undefined", NEW e \in Configured' PROVE Counted(e)'
    <3>1. main' = main /\ Counted(e) BY <1>3, <2>1, <2>2, <2>4
    <3>2. QED BY <2>1, <3>1 DEF Counted, Coming
  <2>5. QED BY <1>4, <2>3, <2>4 DEF CountInv
<1>14. QED
  BY <1>5, <1>6, <1>7, <1>8, <1>9, <1>10, <1>11, <1>12, <1>13, QuietSteps, LoopingSteps
  DEF Next, Handler, Fill

(* wZS counts each vehicle once: none that was not there, whatever is      *)
(* lost, and every one if nothing is lost and the limit is not reached.    *)
THEOREM VehiclesAreCounted == Spec => []VehiclesCounted
<1>1. Init => HandlerInv /\ CountInv
  BY DEF Init, HandlerInv, CountInv, ExactInv, VehiclesCounted, AuCurrent, Configured, Waiting
<1>2. /\ TypeOK /\ TypeOK' /\ HandlerInv /\ CountInv /\ [Next]_vars
         => HandlerInv' /\ CountInv'
  BY HandlerStep, CountStep
<1>3. CountInv => VehiclesCounted BY DEF CountInv
<1>4. QED BY <1>1, <1>2, <1>3, TypesAreRight, PTL DEF Spec
-----------------------------------------------------------------------------
(* The occupancy rate is a rate.                                           *)

\* every100msAfterAU is still to come for d in this tick
ToTick(d) ==
  \/ main.pc \in {"values", "edges"}
  \/ main.pc = "every" /\ \E e \in Det : main.det = {e} /\ e <= d

\* the sum is not ahead of the time it is taken over
Rated(det) ==
  /\ det.age \in 0 .. BuPeriod
  /\ det.bu10ms <= det.age /\ det.bu10ms < BuPeriod
  /\ det.bu <= BuPeriod /\ det.ba <= BuPeriod

RateInv ==
  ~restarted =>
    \A d \in Configured :
      Rated(nr2det[d]) /\ (ToTick(d) => nr2det[d].bu10ms < nr2det[d].age)

(* A tick of which nothing was added yet leaves the sum behind the time.   *)
LEMMA EveryRated ==
  ASSUME NEW det \in DetectorType, Rated(det), det.bu10ms < det.age
  PROVE  Rated(Every100msAfterAU(det))
<1> DEFINE gap == GapOrBusy(det)
<1>1. /\ gap \in DetectorType /\ gap.bu10ms \in det.bu10ms .. (det.bu10ms + 1)
      /\ gap.age = det.age /\ gap.bu = det.bu /\ gap.ba = det.ba
  BY GapOrBusyType
<1>2. /\ det.bu10ms \in Nat /\ gap.bu10ms \in Nat
      /\ det.age \in 0 .. BuPeriod /\ BuPeriod \in Nat \ {0}
  BY <1>1, DetAssumption DEF DetectorType, Rated
<1>3. Every100msAfterAU(det) = IF det.age >= BuPeriod THEN CalcBuBa(gap) ELSE gap
  BY DEF Every100msAfterAU
<1> HIDE DEF gap
<1>4. gap.bu10ms <= det.age BY <1>1, <1>2
<1>5. CASE det.age >= BuPeriod
  <2>1. gap.bu10ms <= BuPeriod /\ gap.ba <= BuPeriod BY <1>1, <1>2, <1>4 DEF Rated
  <2>2. /\ CalcBuBa(gap).bu10ms = 0 /\ CalcBuBa(gap).age = 0
        /\ CalcBuBa(gap).bu <= BuPeriod /\ CalcBuBa(gap).ba <= BuPeriod
    BY <1>1, <2>1, CalcBuBaType
  <2>3. QED BY <1>2, <1>3, <1>5, <2>2 DEF Rated
<1>6. CASE ~(det.age >= BuPeriod)
  BY <1>1, <1>2, <1>3, <1>4, <1>6 DEF Rated
<1>7. QED BY <1>5, <1>6

(* Steps that leave the sum, the time and the rates alone.                 *)
LEMMA RateKeeps ==
  ASSUME RateInv, restarted' = restarted, Configured' \subseteq Configured,
         \A d \in Configured' :
           /\ nr2det'[d].age = nr2det[d].age /\ nr2det'[d].bu10ms = nr2det[d].bu10ms
           /\ nr2det'[d].bu = nr2det[d].bu /\ nr2det'[d].ba = nr2det[d].ba,
         \A d \in Det : ToTick(d)' => ToTick(d), Configured' \subseteq Det
  PROVE  RateInv'
BY DEF RateInv, Rated

(* Every step keeps the rates.                                             *)
LEMMA RateStep ==
  ASSUME TypeOK, RateInv, [Next]_vars PROVE RateInv'
<1>1. DetectorsType BY DEF TypeOK, DetectorsType
<1>2. Configured \subseteq Det /\ \A d \in Configured : nr2det[d] \in DetectorType
  BY DEF TypeOK
<1>3. ASSUME UNCHANGED <<nr2det, main, restarted>> PROVE RateInv'
  BY <1>3 DEF RateInv, Rated, ToTick, Configured
<1>4. ASSUME NEW n \in Edges, Tick(n), main.pc = "idle" PROVE RateInv'
  <2>1. SUFFICES ASSUME ~restarted, NEW d \in Configured
                 PROVE  Rated(nr2det'[d]) /\ nr2det'[d].bu10ms < nr2det'[d].age
    BY <1>4, TickType DEF RateInv, Tick
  <2>2. Rated(nr2det[d]) /\ nr2det[d] \in DetectorType BY <1>2, <2>1 DEF RateInv
  <2>3. nr2det'[d] = [nr2det[d] EXCEPT !.age = Lesser(@ + 1, BuPeriod)]
    BY <1>4, TickType
  <2>4. /\ nr2det'[d].age = Lesser(nr2det[d].age + 1, BuPeriod)
        /\ nr2det'[d].bu10ms = nr2det[d].bu10ms
        /\ nr2det'[d].bu = nr2det[d].bu /\ nr2det'[d].ba = nr2det[d].ba
    BY <2>2, <2>3 DEF DetectorType
  <2>5. nr2det[d].bu10ms \in Nat BY <2>2 DEF DetectorType
  <2>6. QED BY <2>2, <2>4, <2>5, DetAssumption DEF Rated, Lesser
<1>5. CASE NoMessage \/ detstates_8_svc
  BY <1>4, <1>5 DEF NoMessage, detstates_8_svc
<1>6. ASSUME NEW d \in Det, NewValue(d) PROVE RateInv'
  <2>1. CASE d \in Configured
    <3> DEFINE new == SetAU(nr2det[d], occupied[d])
    <3>1. nr2det' = [nr2det EXCEPT ![d] = new] BY <1>6, <2>1 DEF NewValue
    <3>2. /\ new \in DetectorType
          /\ new.bu10ms = nr2det[d].bu10ms /\ new.age = nr2det[d].age
          /\ new.bu = nr2det[d].bu /\ new.ba = nr2det[d].ba
      BY <2>1, SetAUType DEF TypeOK
    <3> HIDE DEF new
    <3>3. /\ Configured' = Configured /\ nr2det'[d] = new
          /\ \A e \in Configured : e # d => nr2det'[e] = nr2det[e]
      BY <1>1, <2>1, <3>1, <3>2, UpdateType
    <3>4. restarted' = restarted /\ \A e \in Det : ToTick(e)
      BY <1>6 DEF NewValue, fwVars, ToTick
    <3>5. QED BY <1>2, <3>2, <3>3, <3>4, RateKeeps
  <2>2. CASE d \notin Configured
    <3>1. UNCHANGED <<nr2det, restarted>> /\ \A e \in Det : ToTick(e)
      BY <1>6, <2>2 DEF NewValue, fwVars, ToTick
    <3>2. QED BY <1>2, <3>1, RateKeeps DEF Configured
  <2>3. QED BY <2>1, <2>2
<1>7. ASSUME NEW d \in Det, NewEdge(d) PROVE RateInv'
  <2>1. PICK value \in BOOLEAN : nr2det' = [nr2det EXCEPT ![d] = SetAU(nr2det[d], value)]
    BY <1>7 DEF NewEdge, TypeOK
  <2>2. restarted' = restarted /\ \A e \in Det : ToTick(e)
    BY <1>7 DEF NewEdge, fwVars, ToTick
  <2>3. CASE d \in Configured
    <3> DEFINE new == SetAU(nr2det[d], value)
    <3>1. nr2det' = [nr2det EXCEPT ![d] = new] BY <2>1
    <3>2. /\ new \in DetectorType
          /\ new.bu10ms = nr2det[d].bu10ms /\ new.age = nr2det[d].age
          /\ new.bu = nr2det[d].bu /\ new.ba = nr2det[d].ba
      BY <1>2, <2>3, SetAUType
    <3> HIDE DEF new
    <3>3. /\ Configured' = Configured /\ nr2det'[d] = new
          /\ \A e \in Configured : e # d => nr2det'[e] = nr2det[e]
      BY <1>1, <2>3, <3>1, <3>2, UpdateType
    <3>4. QED BY <1>2, <2>2, <3>2, <3>3, RateKeeps
  <2>4. CASE d \notin Configured
    <3>1. nr2det' = nr2det BY <1>1, <2>1, <2>4 DEF DetectorsType, Configured
    <3>2. QED BY <1>2, <2>2, <3>1, RateKeeps DEF Configured
  <2>5. QED BY <2>3, <2>4
<1>8. CASE ValuesDone
  <2>1. UNCHANGED <<nr2det, restarted>> /\ \A e \in Det : ToTick(e)
    BY <1>8 DEF ValuesDone, fwVars, ToTick
  <2>2. QED BY <1>2, <2>1, RateKeeps DEF Configured
<1>9. ASSUME NEW d \in Det, Every100ms(d) PROVE RateInv'
  <2>1. /\ nr2det' = [nr2det EXCEPT ![d] = Every100msAfterAU(nr2det[d])]
        /\ main.pc = "every" /\ main.det = {d} /\ restarted' = restarted
        /\ IterateOver({e \in Configured : d < e})
    BY <1>9 DEF Every100ms, fwVars
  <2>2. \A x \in Det : ToTick(x)' => ToTick(x) /\ x # d
    <3>1. SUFFICES ASSUME NEW x \in Det, ToTick(x)' PROVE ToTick(x) /\ x # d
      OBVIOUS
    <3>2. main'.pc \in {"idle", "every"} BY <2>1 DEF IterateOver, Waiting
    <3>3. PICK e \in Det : main'.det = {e} /\ e <= x BY <3>1, <3>2 DEF ToTick
    <3>4. e \in First({y \in Configured : d < y})
      BY <2>1, <3>3 DEF IterateOver, Waiting
    <3>5. d < e BY <3>4 DEF First
    <3>6. d <= x /\ x # d BY <3>3, <3>5, DetAssumption
    <3>7. QED BY <2>1, <3>6 DEF ToTick
  <2>3. CASE d \in Configured
    <3> DEFINE new == Every100msAfterAU(nr2det[d])
    <3>1. new \in DetectorType BY <1>2, <2>3, EveryType
    <3>2. ~restarted => Rated(new)
      <4>1. ToTick(d) BY <2>1, DetAssumption DEF ToTick
      <4>2. QED BY <1>2, <2>3, <4>1, EveryRated DEF RateInv
    <3>3. nr2det' = [nr2det EXCEPT ![d] = new] BY <2>1
    <3> HIDE DEF new
    <3>4. /\ Configured' = Configured /\ nr2det'[d] = new
          /\ \A e \in Configured : e # d => nr2det'[e] = nr2det[e]
      BY <1>1, <2>3, <3>1, <3>3, UpdateType
    <3>5. QED BY <1>2, <2>1, <2>2, <3>2, <3>4 DEF RateInv
  <2>4. CASE d \notin Configured
    <3>1. nr2det' = nr2det BY <1>1, <2>1, <2>4 DEF DetectorsType, Configured
    <3>2. QED BY <1>2, <2>1, <2>2, <3>1, RateKeeps DEF Configured
  <2>5. QED BY <2>3, <2>4
<1>10. CASE SetCounter
  <2>1. PICK d \in Configured, w \in SetValues : nr2det' = [nr2det EXCEPT ![d].zs = w]
    BY <1>10 DEF SetCounter
  <2>2. \A e \in Configured :
          nr2det'[e] = IF e = d THEN [nr2det[d] EXCEPT !.zs = w] ELSE nr2det[e]
    BY <2>1 DEF Configured
  <2>3. Configured' = Configured BY <2>1 DEF Configured
  <2>4. UNCHANGED <<main, restarted>> BY <1>10 DEF SetCounter, fwVars
  <2>5. \A e \in Configured :
          /\ nr2det'[e].age = nr2det[e].age /\ nr2det'[e].bu10ms = nr2det[e].bu10ms
          /\ nr2det'[e].bu = nr2det[e].bu /\ nr2det'[e].ba = nr2det[e].ba
    BY <1>2, <2>2 DEF DetectorType
  <2>6. QED BY <1>2, <2>3, <2>4, <2>5, RateKeeps DEF ToTick
<1>11. CASE SetGap
  <2>1. PICK d \in Configured, w \in SetValues : nr2det' = [nr2det EXCEPT ![d].ls = w]
    BY <1>11 DEF SetGap
  <2>2. \A e \in Configured :
          nr2det'[e] = IF e = d THEN [nr2det[d] EXCEPT !.ls = w] ELSE nr2det[e]
    BY <2>1 DEF Configured
  <2>3. Configured' = Configured BY <2>1 DEF Configured
  <2>4. UNCHANGED <<main, restarted>> BY <1>11 DEF SetGap, fwVars
  <2>5. \A e \in Configured :
          /\ nr2det'[e].age = nr2det[e].age /\ nr2det'[e].bu10ms = nr2det[e].bu10ms
          /\ nr2det'[e].bu = nr2det[e].bu /\ nr2det'[e].ba = nr2det[e].ba
    BY <1>2, <2>2 DEF DetectorType
  <2>6. QED BY <1>2, <2>3, <2>4, <2>5, RateKeeps DEF ToTick
<1>12. ASSUME NEW d \in Det, Insert(d) PROVE RateInv'
  <2>1. /\ nr2det' = [e \in Configured \cup {d} |->
                        IF e = d THEN NewDetector ELSE nr2det[e]]
        /\ d \notin Configured /\ UNCHANGED <<main, restarted>>
    BY <1>12 DEF Insert, fwVars
  <2>2. /\ Configured' = Configured \cup {d} /\ nr2det'[d] = NewDetector
        /\ \A e \in Configured : e # d /\ nr2det'[e] = nr2det[e]
    BY <2>1 DEF Configured
  <2>3. Rated(NewDetector) /\ NewDetector.bu10ms < NewDetector.age
    BY DetAssumption DEF Rated, NewDetector
  <2>4. QED BY <2>1, <2>2, <2>3 DEF RateInv, ToTick
<1>13. ASSUME NEW d \in Det, Erase(d) PROVE RateInv'
  <2>1. /\ Configured' = Configured \ {d}
        /\ \A e \in Configured' : nr2det'[e] = nr2det[e]
        /\ restarted' = restarted
    BY <1>13 DEF Erase, Configured, fwVars
  <2>2. main' = main \/ main'.pc = "undefined" BY <1>13 DEF Erase, TypeOK
  <2>3. \A e \in Det : ToTick(e)' => ToTick(e) BY <2>2 DEF ToTick
  <2>4. QED BY <1>2, <2>1, <2>3, RateKeeps
<1>14. CASE Restart BY <1>14 DEF Restart, RateInv
<1>15. CASE FillStarts \/ FillEnds \/ Subscribe
  BY <1>3, <1>15 DEF FillStarts, FillEnds, Subscribe, fwVars
<1>16. CASE RenewFails \/ LeaseExpires \/ UNCHANGED vars
  BY <1>3, <1>16 DEF RenewFails, LeaseExpires, vars, fwVars
<1>17. QED
  BY <1>5, <1>6, <1>7, <1>8, <1>9, <1>10, <1>11, <1>12, <1>13, <1>14, <1>15, <1>16
  DEF Next, Handler, Fill

(* BU and BA are rates: the sum of a period is not longer than the period, *)
(* whatever is lost and whenever the detectors are filled again.           *)
THEOREM BuIsARate == Spec => []BuBounded
<1>1. Init => RateInv BY DEF Init, RateInv, Configured
<1>2. TypeOK /\ RateInv /\ [Next]_vars => RateInv' BY RateStep
<1>3. RateInv => BuBounded BY DEF RateInv, Rated, BuBounded
<1>4. QED BY <1>1, <1>2, <1>3, TypesAreRight, PTL DEF Spec
=============================================================================
