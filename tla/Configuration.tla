---------------------------- MODULE Configuration ----------------------------
(***************************************************************************)
(* The configuration the TA reads (class Config, cctrl/Config.cpp), which  *)
(* the renew thread fills in place, table by table, each time it           *)
(* subscribes (DataReceiver::subscribing, cctrl/DataReceiver.cpp), while   *)
(* the firmware may check and activate another version                     *)
(* (cctrl/ConfigNotificationImpl.cpp) and the main thread serves its       *)
(* calls.                                                                  *)
(*                                                                         *)
(* A version stands for the contents of what it brings.  The draft that    *)
(* ConfigNotificationImpl could read is never read, and the values of the  *)
(* lamp states never are; both are left out.                               *)
(***************************************************************************)
EXTENDS Integers, Sequences, FiniteSets

CONSTANTS
  Version,             \* versions of the configuration
  Cfg,                 \* what a version contains
  MAX_SIGNALGRUPPEN,
  MAX_ZZ_MATRIZEN,
  None

VARIABLES
  inventory,    \* the version active in the firmware
  consumer,     \* has the firmware a configuration consumer registered?
  transaction,  \* "none", or what the consumer said to the draft
  renew,        \* the renew thread: where it is, and has it a client?
  dets,         \* numbers in the registered Detectors
  igts,         \* inter green time tables
  sgInfo,       \* signal groups
  generalParam, \* version of the general parameters
  lamps,        \* numbers in Archive::youngestLampStates
  eckdaten, mdl, \* derived: counts, and lists of minimum times
  spls,         \* signal plans
  registry,     \* which pointers of InstRegistry are set
  main,         \* the main thread, and the lamp states it has fetched
  calm          \* history: no activation and no error since the fill began

tables == <<dets, igts, sgInfo, generalParam, lamps, eckdaten, mdl, spls>>
config == <<igts, sgInfo, generalParam, eckdaten, mdl, spls>>
fw     == <<inventory, consumer, transaction>>
vars   == <<fw, renew, tables, registry, main, calm>>

Table == 1 .. MAX_ZZ_MATRIZEN

\* groups: number -> [pi, lists]; plans: numbers in order; the partial nodes
\* are bits of an unsigned, and the numbers of the inputs fit a UTINY
Groups(v) == DOMAIN Cfg[v].groups

ASSUME ConfigurationAssumption ==
  /\ MAX_SIGNALGRUPPEN \in Nat /\ MAX_ZZ_MATRIZEN \in Nat
  /\ None \notin Version
  /\ \A v \in Version :
       /\ Cfg[v].tables \subseteq Table /\ Cfg[v].tables # {}
       /\ Groups(v) \subseteq 1 .. MAX_SIGNALGRUPPEN /\ Groups(v) # {}
       /\ \A s \in Groups(v) : /\ Cfg[v].groups[s].pi \in 0 .. 31
                               /\ Cfg[v].groups[s].lists \subseteq Nat
       /\ Cfg[v].plans \in Seq(Nat)
       /\ Cfg[v].dets \subseteq 0 .. 255

\* CONFIG_BUF
Counts == [bAnzSG |-> 0, bMaxSgNo |-> 0, bAnzTK |-> 0, bMaxTkNo |-> 0,
           bInputCnt |-> 0, bMaxInputNo |-> 0, bAnzSipl |-> 0]

Init ==
  /\ inventory \in Version /\ consumer = FALSE /\ transaction = "none"
  /\ renew = [pc |-> "detectors", clnt |-> TRUE]
  /\ dets = {} /\ igts = [t \in Table |-> None] /\ sgInfo = << >>
  /\ generalParam = None /\ lamps = {}
  /\ eckdaten = Counts /\ mdl = {} /\ spls = << >>
  /\ registry = {}
  /\ main = [pc |-> "idle", lamps |-> {}]
  /\ calm = TRUE

-----------------------------------------------------------------------------
(* The renew thread fills the tables: "ok" brings the table, a call that   *)
(* fails costs the client, and after an answer with CS_CfgError, which is  *)
(* followed as if it were a list, nothing is known.                        *)

Goto(pc, clnt) == renew' = [pc |-> pc, clnt |-> clnt]

Crash == Goto("undefined", FALSE)

\* Detectors::fill makes its second call with the client of the first, also
\* if there is none left
FillDetectors ==
  /\ renew.pc = "detectors"
  /\ \/ dets' = Cfg[inventory].dets /\ Goto("infos", TRUE) /\ calm' = TRUE
     \/ Crash /\ UNCHANGED <<dets, calm>>
  /\ UNCHANGED <<fw, config, lamps, registry, main>>

\* fillDataFromDetectorCctrl; Config::fill returns at once without a client
FillInfos ==
  /\ renew.pc = "infos"
  /\ Goto("igts", TRUE) \/ Goto("notify", FALSE) \/ Crash
  /\ UNCHANGED <<fw, tables, registry, main, calm>>

FillIgts ==
  /\ renew.pc = "igts"
  /\ \/ /\ igts' = [t \in Table |-> IF t \in Cfg[inventory].tables
                                    THEN inventory ELSE igts[t]]
        /\ Goto("groups", TRUE)
     \/ (Goto("notify", FALSE) \/ Crash) /\ UNCHANGED igts
  /\ UNCHANGED <<fw, dets, sgInfo, generalParam, lamps, eckdaten, mdl, spls,
                 registry, main, calm>>

\* mutant: a group that is known is not filled again
FillSgInfo_Once ==
  /\ renew.pc = "groups"
  /\ \/ /\ sgInfo' = [s \in DOMAIN sgInfo \cup Groups(inventory) |->
                        IF s \in DOMAIN sgInfo THEN sgInfo[s]
                        ELSE inventory]
        /\ Goto("general", TRUE)
     \/ (Goto("notify", FALSE) \/ Crash) /\ UNCHANGED sgInfo
  /\ UNCHANGED <<fw, dets, igts, generalParam, lamps, eckdaten, mdl, spls,
                 registry, main, calm>>

\* groups the inventory no longer has stay
FillSgInfo ==
  /\ renew.pc = "groups"
  /\ \/ /\ sgInfo' = [s \in DOMAIN sgInfo \cup Groups(inventory) |->
                        IF s \in Groups(inventory) THEN inventory
                        ELSE sgInfo[s]]
        /\ Goto("general", TRUE)
     \/ (Goto("notify", FALSE) \/ Crash) /\ UNCHANGED sgInfo
  /\ UNCHANGED <<fw, dets, igts, generalParam, lamps, eckdaten, mdl, spls,
                 registry, main, calm>>

\* mutant: after a failure the fill returns at once
FillGeneralParam_Returns ==
  /\ renew.pc = "general"
  /\ \/ generalParam' = inventory /\ Goto("lamps", TRUE) /\ UNCHANGED calm
     \/ Goto("lamps", TRUE) /\ calm' = FALSE /\ UNCHANGED generalParam
     \/ Goto("notify", FALSE) /\ UNCHANGED <<generalParam, calm>>
  /\ UNCHANGED <<fw, dets, igts, sgInfo, lamps, eckdaten, mdl, spls,
                 registry, main>>

\* the only list whose selector is looked at
FillGeneralParam ==
  /\ renew.pc = "general"
  /\ \/ generalParam' = inventory /\ Goto("lamps", TRUE) /\ UNCHANGED calm
     \/ Goto("lamps", TRUE) /\ calm' = FALSE /\ UNCHANGED generalParam
     \/ Goto("derive", FALSE) /\ UNCHANGED <<generalParam, calm>>
  /\ UNCHANGED <<fw, dets, igts, sgInfo, lamps, eckdaten, mdl, spls,
                 registry, main>>

\* Archive::fill
FillLampStates ==
  /\ renew.pc = "lamps"
  /\ \/ lamps' = Groups(inventory) /\ Goto("lampStates", TRUE)
     \/ (Goto("derive", FALSE) \/ Crash) /\ UNCHANGED lamps
  /\ UNCHANGED <<fw, dets, config, registry, main, calm>>

UpdateLampStates ==
  /\ renew.pc = "lampStates"
  /\ lamps' \in {lamps, lamps \cup Groups(inventory)}
  /\ Goto("derive", TRUE)
  /\ UNCHANGED <<fw, dets, config, registry, main, calm>>

\* the running maximum, which starts at zero
Highest(S) == CHOOSE n \in S \cup {0} : \A m \in S : n >= m

\* fillEckdaten: the number of plans is not counted
Eckdaten ==
  LET pis == {Cfg[sgInfo[s]].groups[s].pi : s \in DOMAIN sgInfo}
  IN  [bAnzSG      |-> Cardinality(DOMAIN sgInfo),
       bMaxSgNo    |-> Highest(DOMAIN sgInfo),
       bAnzTK      |-> Cardinality(pis),
       bMaxTkNo    |-> Highest(pis),
       bInputCnt   |-> Cardinality(dets) % 256,
       bMaxInputNo |-> Highest(dets),
       bAnzSipl    |-> 0]

\* fillMindauern: the last group gets no times
Mindauern ==
  UNION {{[list |-> l % 100, sgNo |-> s, version |-> sgInfo[s]] :
            l \in Cfg[sgInfo[s]].groups[s].lists} :
         s \in {u \in DOMAIN sgInfo : u < MAX_SIGNALGRUPPEN}}

\* also after a failure; fillSpls does nothing without a client
Derive ==
  /\ renew.pc = "derive"
  /\ eckdaten' = Eckdaten /\ mdl' = Mindauern
  /\ Goto(IF renew.clnt THEN "plans" ELSE "notify", renew.clnt)
  /\ UNCHANGED <<fw, dets, igts, sgInfo, generalParam, lamps, spls,
                 registry, main, calm>>

ClearSpls ==
  /\ renew.pc = "plans"
  /\ spls' = << >>
  /\ Goto("plansAnswer", TRUE)
  /\ UNCHANGED <<fw, dets, igts, sgInfo, generalParam, lamps, eckdaten, mdl,
                 registry, main, calm>>

FillSpls ==
  /\ renew.pc = "plansAnswer"
  /\ \/ LET plans == Cfg[inventory].plans
        IN  /\ spls' = spls \o [i \in DOMAIN plans |->
                                  [no |-> plans[i], version |-> inventory]]
            /\ eckdaten' = [eckdaten EXCEPT !.bAnzSipl = Len(plans)]
            /\ Goto("set", TRUE)
     \/ (Goto("notify", FALSE) \/ Crash) /\ UNCHANGED <<spls, eckdaten>>
  /\ UNCHANGED <<fw, dets, igts, sgInfo, generalParam, lamps, mdl,
                 registry, main, calm>>

-----------------------------------------------------------------------------
(* DataReceiver::subscribing, after the tables.                            *)

SetConfig ==
  /\ renew.pc = "set"
  /\ registry' = registry \cup {"config"}
  /\ Goto("register", TRUE)
  /\ UNCHANGED <<fw, tables, main, calm>>

\* the client that registerAtCctrl destroys is used on
Register ==
  /\ renew.pc = "register"
  /\ \/ consumer' = TRUE /\ Goto("notify", TRUE)
     \/ Crash /\ UNCHANGED consumer
  /\ UNCHANGED <<inventory, transaction, tables, registry, main, calm>>

\* mutant: the configuration is registered whatever became of the client
SetNotification_Config ==
  /\ renew.pc = "notify"
  /\ registry' = registry \cup {"config", "configNotification"}
  /\ Goto(IF renew.clnt THEN "content" ELSE "detectors", TRUE)
  /\ UNCHANGED <<fw, tables, main, calm>>

\* with a client the topics follow, without one a new attempt
SetNotification ==
  /\ renew.pc = "notify"
  /\ registry' = registry \cup {"configNotification"}
  /\ Goto(IF renew.clnt THEN "content" ELSE "detectors", TRUE)
  /\ UNCHANGED <<fw, tables, main, calm>>

\* a topic or a renewal has failed
Resubscribe ==
  /\ renew.pc = "content"
  /\ Goto("detectors", TRUE)
  /\ UNCHANGED <<fw, tables, registry, main, calm>>

-----------------------------------------------------------------------------
(* What the TA reads in the main thread (cctrl/api_Config.cpp).            *)

Found(value) == [ret |-> "SUCCESS", value |-> value]
Fails(ret)   == [ret |-> ret, value |-> None]

\* any number between the first group and the last is taken
ZZWertLesen(bNr, ESig, RSig) ==
  LET InRange(s) == \E u, w \in DOMAIN sgInfo : u <= s /\ s <= w
  IN  IF bNr > MAX_ZZ_MATRIZEN THEN Fails("ERROR_PARAMETER")
      ELSE IF ~InRange(ESig) \/ ~InRange(RSig) THEN Fails("ERROR_SIG_UNBENUTZT")
      ELSE Found(igts[IF bNr = 0 THEN 1 ELSE bNr])

\* Config::getEckdaten, getSiggruppe, getMindauer, getSpl
VsgDatenLesen(bObjID, bIndex) ==
  CASE bObjID = "VD_STAMMDATEN" -> Found(generalParam)
    [] bObjID = "VD_ECKDATEN" ->
         IF bIndex > 1 THEN Fails("ERG2") ELSE Found(eckdaten)
    [] bObjID = "VD_SIG_BESCHREIBUNG" ->
         IF bIndex \in DOMAIN sgInfo THEN Found(sgInfo[bIndex])
         ELSE Fails("ERG2")
    [] bObjID = "VD_MINDESTLISTE" ->
         IF \E m \in mdl : m.list = bIndex
         THEN Found({m \in mdl : m.list = bIndex}) ELSE Fails("ERG2")
    [] bObjID = "VD_SIGNALPLAN" ->
         LET same == {i \in DOMAIN spls : spls[i].no = bIndex}
         IN  IF same = {} THEN Fails("ERG1")
             ELSE Found(spls[CHOOSE i \in same : \A j \in same : i <= j].version)

tacConfigIsSgConfigured(sgNo) == sgNo \in DOMAIN sgInfo

tacCfgGetGeneralParam(isDraft) ==
  IF isDraft THEN Fails("ERROR") ELSE Found(generalParam)

-----------------------------------------------------------------------------
(* The main thread.                                                        *)

\* checkconfig_8_svc; the TA, if it has registered a check, may refuse
CheckConfig ==
  /\ consumer /\ main.pc = "idle" /\ transaction = "none"
  /\ IF "configNotification" \in registry
     THEN transaction' \in {"accepted", "refused"} /\ UNCHANGED main
     ELSE main' = [main EXCEPT !.pc = "undefined"] /\ UNCHANGED transaction
  /\ UNCHANGED <<inventory, consumer, renew, tables, registry, calm>>

\* activate_8_svc: no table is filled
Activate ==
  /\ IF consumer THEN transaction = "accepted" /\ main.pc = "idle"
     ELSE transaction = "none"
  /\ inventory' \in Version \ {inventory}
  /\ transaction' = IF consumer THEN "activated" ELSE "none"
  /\ calm' = FALSE
  /\ UNCHANGED <<consumer, renew, tables, registry, main>>

\* cleanupconfigcheck_8_svc
Cleanup ==
  /\ main.pc = "idle" /\ transaction # "none"
  /\ transaction' = "none"
  /\ UNCHANGED <<inventory, consumer, renew, tables, registry, main, calm>>

\* archiveinsertevent_8_svc: updateLampStates asks the firmware, then stores
ArchiveInsertEvent ==
  /\ main.pc = "idle"
  /\ main' \in {main, [pc |-> "lampStates", lamps |-> Groups(inventory)]}
  /\ UNCHANGED <<fw, renew, tables, registry, calm>>

StoreLampStates ==
  /\ main.pc = "lampStates"
  /\ lamps' = lamps \cup main.lamps
  /\ main' = [pc |-> "idle", lamps |-> {}]
  /\ UNCHANGED <<fw, renew, dets, config, registry, calm>>

\* the firmware restarts and forgets its consumers
Restart ==
  /\ consumer
  /\ consumer' = FALSE /\ transaction' = "none"
  /\ UNCHANGED <<inventory, renew, tables, registry, main, calm>>

-----------------------------------------------------------------------------
Next ==
  \/ FillDetectors \/ FillInfos \/ FillIgts \/ FillSgInfo
  \/ FillGeneralParam \/ FillLampStates \/ UpdateLampStates
  \/ Derive \/ ClearSpls \/ FillSpls
  \/ SetConfig \/ Register \/ SetNotification \/ Resubscribe
  \/ CheckConfig \/ Activate \/ Cleanup
  \/ ArchiveInsertEvent \/ StoreLampStates
  \/ Restart

Spec == Init /\ [][Next]_vars

-----------------------------------------------------------------------------
(* Properties.                                                             *)

RenewPCs == {"detectors", "infos", "igts", "groups", "general", "lamps",
             "lampStates", "derive", "plans", "plansAnswer", "set",
             "register", "notify", "content", "undefined"}

TypeOK ==
  /\ inventory \in Version /\ consumer \in BOOLEAN
  /\ transaction \in {"none", "accepted", "refused", "activated"}
  /\ renew \in [pc : RenewPCs, clnt : BOOLEAN]
  /\ igts \in [Table -> Version \cup {None}]
  /\ DOMAIN sgInfo \subseteq 1 .. MAX_SIGNALGRUPPEN
  /\ \A s \in DOMAIN sgInfo : sgInfo[s] \in Version /\ s \in Groups(sgInfo[s])
  /\ generalParam \in Version \cup {None}
  /\ lamps \subseteq 1 .. MAX_SIGNALGRUPPEN
  /\ registry \subseteq {"config", "configNotification"}
  /\ main.pc \in {"idle", "lampStates", "undefined"}
  /\ calm \in BOOLEAN

(* After a fill the firmware has not disturbed the TA reads the one        *)
(* version that is active, from every table, whatever stood there before   *)
(* from other versions and from attempts that failed half way              *)
(* (Config::fill, Archive::fill, Detectors::fill, api_Config.cpp).  Groups *)
(* and tables of former versions may remain beside it.                     *)
FilledMatches ==
  renew.pc = "content" /\ calm =>
    LET new == Cfg[inventory] IN
    /\ dets = new.dets
    /\ \A e, r \in Groups(inventory) : \A t \in new.tables :
         ZZWertLesen(t, e, r) = Found(inventory)
    /\ \A s \in Groups(inventory) :
         /\ tacConfigIsSgConfigured(s) /\ s \in lamps
         /\ VsgDatenLesen("VD_SIG_BESCHREIBUNG", s) = Found(inventory)
         /\ \A l \in new.groups[s].lists : s < MAX_SIGNALGRUPPEN =>
              [list |-> l % 100, sgNo |-> s, version |-> inventory]
                \in VsgDatenLesen("VD_MINDESTLISTE", l % 100).value
    /\ \A i \in DOMAIN new.plans :
         VsgDatenLesen("VD_SIGNALPLAN", new.plans[i]) = Found(inventory)
    /\ VsgDatenLesen("VD_STAMMDATEN", 1) = tacCfgGetGeneralParam(FALSE)
    /\ tacCfgGetGeneralParam(FALSE) = Found(inventory)
    /\ VsgDatenLesen("VD_ECKDATEN", 1).value.bAnzSipl = Len(new.plans)

\* the groups may be newer than what is derived from them
Deriving == renew.pc \in {"general", "lamps", "lampStates", "derive"}

\* the last fill has come past what is derived, and no other has begun
Derived == \/ renew.pc \in {"plans", "plansAnswer", "set", "register", "content"}
           \/ renew.pc = "notify" /\ renew.clnt

(* The counts and the lists of minimum times belong to the signal groups   *)
(* that are stored, also after a fill that was given up between the two    *)
(* (fillEckdaten, fillMindauern); the plans are counted right or not at    *)
(* all (fillSpls).  The inputs are counted right once a fill has come that *)
(* far; after one that was given up between Detectors::fill and            *)
(* fillEckdaten their counts are those of other detectors than are stored, *)
(* until a later attempt derives them again.                               *)
DerivedAgree ==
  /\ ~Deriving /\ renew.pc # "undefined" =>
       /\ eckdaten.bAnzSG = Cardinality(DOMAIN sgInfo)
       /\ sgInfo # << >> => eckdaten.bMaxSgNo \in DOMAIN sgInfo
       /\ \A s \in DOMAIN sgInfo :
            /\ s <= eckdaten.bMaxSgNo
            /\ Cfg[sgInfo[s]].groups[s].pi <= eckdaten.bMaxTkNo
       /\ \A m \in mdl : m.sgNo \in DOMAIN sgInfo
                         /\ m.version = sgInfo[m.sgNo]
  /\ Derived =>
       /\ eckdaten.bInputCnt = Cardinality(dets) % 256
       /\ dets # {} => eckdaten.bMaxInputNo \in dets
       /\ \A d \in dets : d <= eckdaten.bMaxInputNo
  /\ ~Deriving => eckdaten.bAnzSipl \in {0, Len(spls)}

(* When the TA is started (InstRegistry::isReady4Init), and from then on,  *)
(* the inter green times, the signal groups, the detectors and the lamp    *)
(* states are those of complete answers, however many attempts failed      *)
(* before.  It is not so for the general parameters, which an answer with  *)
(* another selector leaves empty with the client kept (fillGeneralParam),  *)
(* nor for the plans, which every fill clears before it asks for them.     *)
ReadyIsFilled ==
  "config" \in registry =>
    /\ \E v \in Version : \A t \in Cfg[v].tables : igts[t] # None
    /\ \E v \in Version : Groups(v) \subseteq DOMAIN sgInfo
    /\ \E v \in Version : dets = Cfg[v].dets
    /\ \E v \in Version : Groups(v) \subseteq lamps
=============================================================================
