---------------------------- MODULE GnssReports -----------------------------
(***************************************************************************)
(* What the engine reports to GnssAdapter on its way to the clients and to *)
(* the debug report: fixes, satellites, NMEA, measurements, and the        *)
(* deletion of aiding data that makes the debug report forget. Each is a   *)
(* message; the debug report is read from a thread of the framework.       *)
(***************************************************************************)
EXTENDS AdapterTask, SystemStatus

CONSTANTS
  Fixes, SvReports, Sentences, Measurements,   \* what the engine can say
  INTERMEDIATE_POS, ACCURACY_THRES,            \* of gps.conf; 0: do not care
  ProviderAP,                                  \* NMEA_PROVIDER is the AP
  BootTime                                     \* the time of day when CLOCK_MONOTONIC was 0

ASSUME ReportsAssumption == \A svs \in SvReports : \A sv \in svs : sv.id \in Nat

VARIABLES
  mGnssSvIdUsedInPosAvail,   \* the next report of satellites is told which a fix used
  mGnssSvIdUsedInPosition,   \* constellation -> the satellites that the fix used
  delivered,                 \* what the clients were told by the message handled last
  fixUsed, flagsFor          \* satellites of the last fix not yet told with satellites,
                             \* and those that the last report of satellites was to tell,
                             \* for the fix and because the engine says so

reportsVars == <<statusVars, mGnssSvIdUsedInPosAvail, mGnssSvIdUsedInPosition, delivered,
                 fixUsed, flagsFor>>
usedVars == <<mGnssSvIdUsedInPosAvail, mGnssSvIdUsedInPosition, fixUsed, flagsFor>>

NoSvs == [c \in Constellations |-> {}]

ReportsInit ==
  /\ StatusInit
  /\ mGnssSvIdUsedInPosAvail = FALSE /\ mGnssSvIdUsedInPosition = NoSvs
  /\ delivered = {} /\ fixUsed = NoSvs /\ flagsFor = [fix |-> NoSvs, engine |-> {}]

-----------------------------------------------------------------------------
(* Calls of the modem's threads and of clients                             *)
reportPositionEvent(f) ==
  Input([msg |-> "ReportPosition", fix |-> f]) /\ UNCHANGED reportsVars
reportSvEvent(svs) ==
  Input([msg |-> "ReportSv", svs |-> svs]) /\ UNCHANGED reportsVars
reportNmeaEvent(s) ==
  Input([msg |-> "ReportNmea", sentence |-> s]) /\ UNCHANGED reportsVars
gnssDeleteAidingDataCommand(all) ==
  Input([msg |-> "DeleteAidingData", deleteAll |-> all]) /\ UNCHANGED reportsVars

(* getAgcInformation: the gain is read when the message is made, before    *)
(* earlier messages are handled, and only given if the clock's report is   *)
(* less than two seconds away                                              *)
Abs(x) == IF x < 0 THEN -x ELSE x
getAgcInformation(m) ==
  LET rf == getReport["RfAndParams"]  clock == getReport["TimeAndClock"] IN
  IF /\ m.msInWeek # -1 /\ rf # <<>> /\ clock # <<>>
     /\ Abs(m.msInWeek - clock[1].data.tow) < 2000
     /\ m.type \in Constellations
  THEN {rf[1].data.agc} ELSE {}
reportGnssMeasurementDataEvent(m) ==
  /\ Input([msg |-> "ReportMeasurements", type |-> m.type, agc |-> getAgcInformation(m)])
  /\ UNCHANGED reportsVars

-----------------------------------------------------------------------------
(* The handlers of the message task                                        *)

(* A final fix counts if satellites or sensors made it, an intermediate    *)
(* one if the configuration takes it and it is accurate enough             *)
needReport(f) ==
  \/ f.status = "success" /\ f.tech \in {"satellite", "sensors", "hybrid"}
  \/ /\ f.status = "intermediate" /\ INTERMEDIATE_POS = 1
     /\ f.accuracy = 0 \/ ACCURACY_THRES = 0 \/ f.accuracy <= ACCURACY_THRES

(* NMEA that the AP makes itself, for clients that track                   *)
Generated(what, tracking) ==
  IF ProviderAP /\ tracking THEN {[cb |-> "nmea", what |-> what]} ELSE {}

(* What a fix has is told, by the technologies that the API has a name for *)
convertLocation(f) ==
  [pos |-> f.pos, accuracy |-> f.accuracy, tech |-> {f.tech} \intersect {"satellite", "sensors"}]

reportPosition(f, tracking) ==
  LET reportedFix == needReport(f)
      hasUsed == reportedFix /\ f.used # {}
      used == [c \in Constellations |-> {id \in 1..64 : <<c, id>> \in f.used}]
      blank == f.pos = 0 /\ ~f.reliable
  IN
  /\ mGnssSvIdUsedInPosAvail' = (hasUsed \/ mGnssSvIdUsedInPosAvail)
  /\ mGnssSvIdUsedInPosition' = IF hasUsed THEN used ELSE mGnssSvIdUsedInPosition
  /\ fixUsed' = IF hasUsed THEN used ELSE fixUsed
  /\ delivered' = (IF reportedFix THEN {[cb |-> "tracking", location |-> convertLocation(f)]} ELSE {})
       \union Generated(IF reportedFix /\ ~blank THEN "pos" ELSE "blank", tracking)
  /\ UNCHANGED flagsFor

MsgReportPosition ==
  LET f == Head(msgQ).fix IN
  /\ Receive("ReportPosition")
  /\ IF f.status \in {"success", "intermediate"} THEN eventPosition(f) ELSE UNCHANGED statusVars
  /\ \E tracking \in BOOLEAN : reportPosition(f, tracking)

(* 1 << (gnssSvId - 1), an int, against a mask of 64 bits: the bits it has *)
(* in the mask, as satellites. 32 sets the sign, which extends; from 33 on *)
(* the shift is undefined: nothing is left, or it wraps.                   *)
UsedBit(id, wraps) ==
  CASE id <= 31 -> {id}
    [] id = 32 -> 32..64
    [] OTHER -> IF wraps THEN {id - 32} ELSE {}

(* Mutant: what the fix used is told again with every report               *)
ForgetUsedNever == UNCHANGED mGnssSvIdUsedInPosAvail
(* The satellites of a fix are told once                                   *)
ForgetUsed == mGnssSvIdUsedInPosAvail' = FALSE

(* What the HIDL client makes of the satellites (never more than its 64)   *)
convertGnssSvStatus(svs) ==
  {[svid |-> sv.svId, constellation |-> sv.type,
    svFlag |-> IF sv.used THEN {"USED_IN_FIX"} ELSE {}] : sv \in svs}

QzssOffset(type) == IF type = "qzss" THEN 192 ELSE 0
MsgReportSv ==
  LET mask(type) == IF mGnssSvIdUsedInPosAvail /\ type \in Constellations
                    THEN mGnssSvIdUsedInPosition[type] ELSE {}
  IN
  /\ Receive("ReportSv")
  /\ \E wraps, tracking \in BOOLEAN :
       delivered' = {[cb |-> "sv", svs |-> convertGnssSvStatus(
            {[type |-> sv.type, svId |-> sv.id + QzssOffset(sv.type),
              used |-> sv.used \/ UsedBit(sv.id, wraps) \intersect mask(sv.type) # {}]
                : sv \in Head(msgQ).svs})]} \union Generated("sv", tracking)
  /\ ForgetUsed
  /\ flagsFor' = [fix |-> fixUsed,
                   engine |-> {<<sv.type, sv.id>> : sv \in {v \in Head(msgQ).svs : v.used}}]
  /\ fixUsed' = NoSvs
  /\ UNCHANGED <<statusVars, mGnssSvIdUsedInPosition>>

(* A debug sentence is consumed, another one goes to the clients           *)
MsgReportNmea ==
  LET s == Head(msgQ).sentence IN
  /\ Receive("ReportNmea")
  /\ IF IsDebug(s) THEN setNmeaString(s) /\ delivered' = {}
     ELSE delivered' = {[cb |-> "nmea", what |-> s.kind]} /\ UNCHANGED statusVars
  /\ UNCHANGED usedVars

(* The modem's answer does not matter to what is forgotten                 *)
MsgDeleteAidingData ==
  /\ Receive("DeleteAidingData")
  /\ IF Head(msgQ).deleteAll THEN setDefaultGnssEngineStates ELSE UNCHANGED statusVars
  /\ \E err \in {"success", "failure"} : delivered' = {[cb |-> "response", err |-> err]}
  /\ UNCHANGED usedVars

MsgReportGnssMeasurementData ==
  /\ Receive("ReportMeasurements")
  /\ delivered' = {[cb |-> "measurements", agc |-> Head(msgQ).agc]}
  /\ UNCHANGED <<statusVars, usedVars>>

ReportsNext ==
  \/ \E f \in Fixes : reportPositionEvent(f)
  \/ \E svs \in SvReports : reportSvEvent(svs)
  \/ \E s \in Sentences : reportNmeaEvent(s)
  \/ \E m \in Measurements : reportGnssMeasurementDataEvent(m)
  \/ \E all \in BOOLEAN : gnssDeleteAidingDataCommand(all)
  \/ MsgReportPosition \/ MsgReportSv \/ MsgReportNmea
  \/ MsgDeleteAidingData \/ MsgReportGnssMeasurementData

-----------------------------------------------------------------------------
(* The debug report, and what the HIDL service makes of it                 *)

(* The first entry of a constellation in the navigation data               *)
svid_idx(c) ==
  CASE c = "gps" -> 0
    [] c = "glo" -> SvNum["gps"]
    [] c = "bds" -> SvNum["gps"] + SvNum["glo"]
    [] c = "gal" -> SvNum["gps"] + SvNum["glo"] + SvNum["bds"]
    [] c = "qzss" -> SvNum["gps"] + SvNum["glo"] + SvNum["bds"] + SvNum["gal"]
svid_min(c) == IF c = "qzss" THEN 193 ELSE 1

(* Health and prediction masks have a bit for each satellite, from 0 on    *)
convertSatelliteInfo(c) ==
  LET health == getReport["SvHealth"]  xtra == getReport["Xtra"]  nav == getReport["NavData"]
      infoOf(i) ==
        [svid |-> i + svid_min(c),
         ephemeris |-> IF nav # <<>> THEN nav[1].data[svid_idx(c) + i + 1] ELSE 0,
         health |-> CASE health # <<>> /\ i \in health[1].data.good[c] -> "good"
                      [] health # <<>> /\ i \notin health[1].data.good[c]
                           /\ i \in health[1].data.bad[c] -> "bad"
                      [] OTHER -> "unknown",
         predicted |-> xtra # <<>> /\ i \in xtra[1].data.valid[c]]
  IN  [k \in 1..SvNum[c] |-> infoOf(k - 1)]

getDebugReport ==
  LET fix == getReport["Location"]
      best == getReport["BestPosition"]
      clock == getReport["TimeAndClock"]
  IN
  [location |->
     CASE fix # <<>> /\ fix[1].mValid ->
            [valid |-> TRUE, pos |-> fix[1].data.pos, accuracy |-> fix[1].data.accuracy,
             mUtcReported |-> fix[1].mUtcReported]
       [] ~(fix # <<>> /\ fix[1].mValid) /\ best # <<>> /\ best[1].mValid ->
            [valid |-> TRUE, pos |-> best[1].data, accuracy |-> 0,
             mUtcReported |-> best[1].mUtcReported]
       [] OTHER -> [valid |-> FALSE],
   time |-> IF clock # <<>> /\ clock[1].data.timeValid # 0
            THEN [valid |-> TRUE, estimate |-> clock[1].data] ELSE [valid |-> FALSE],
   satellites |-> [c \in Constellations |-> convertSatelliteInfo(c)]]

(* getDebugData: the age subtracts a time since boot from the time of day; *)
(* an accuracy of 0 is the largest. A time is told by the clock it is      *)
(* computed from; that one before 2017 is raised to it is left out.        *)
GNSS_DEBUG_UNKNOWN_HORIZONTAL_ACCURACY_METERS == 20000000
getDebugData ==
  LET r == getDebugReport
      known == r.location.valid /\ r.location.accuracy > 0
  IN
  [position |-> IF r.location.valid
      THEN [valid |-> TRUE, pos |-> r.location.pos,
            ageSeconds |-> (BootTime + now) - r.location.mUtcReported]
      ELSE [valid |-> FALSE],
   accuracy |-> IF known THEN r.location.accuracy
                ELSE GNSS_DEBUG_UNKNOWN_HORIZONTAL_ACCURACY_METERS,
   time |-> r.time,
   satellites |-> r.satellites]

-----------------------------------------------------------------------------
(* The debug report tells what was reported last since all aiding data was *)
(* deleted, and when: a fix before the engine's best position, and nothing *)
(* from before the deletion. Not known are a position that the memory of   *)
(* the default location happened to hold and a best position of zero.      *)
PositionCurrent(told) ==
  LET fix == reported["Location"]
      best == reported["BestPosition"]
      tells(r, pos) == told.valid /\ told.pos = pos /\ told.ageSeconds = (BootTime + now) - r.mUtcReported
      masked == mCache["Location"] # <<>> /\ ~mCache["Location"][Len(mCache["Location"])].mValid
  IN
  /\ told.valid => fix # {} \/ best # {}
  /\ \A r \in fix : tells(r, r.data.pos) \/ masked
  /\ fix = {} => \A r \in best : tells(r, r.data) \/ (~told.valid /\ r.data = 0)

(* Time and satellites as reported last, or unknown: each satellite has    *)
(* the health, the prediction and the entry of the navigation data that    *)
(* are its own.                                                            *)
TimeCurrent(time) ==
  /\ time.valid <=> \E r \in reported["TimeAndClock"] : r.data.timeValid # 0
  /\ time.valid => \E r \in reported["TimeAndClock"] : time.estimate = r.data
SatellitesCurrent(sats) ==
  LET ephemerisOf(c) == [k \in 1..SvNum[c] |-> sats[c][k].ephemeris]
      all == ephemerisOf("gps") \o ephemerisOf("glo") \o ephemerisOf("bds")
               \o ephemerisOf("gal") \o ephemerisOf("qzss")
  IN
  /\ \A i \in 1..SV_ALL_NUM :
       all[i] = IF reported["NavData"] = {} THEN 0
                ELSE (CHOOSE r \in reported["NavData"] : TRUE).data[i]
  /\ \A c \in Constellations : \A k \in 1..SvNum[c] :
       /\ sats[c][k].predicted <=> \E r \in reported["Xtra"] : k - 1 \in r.data.valid[c]
       /\ sats[c][k].health = "good" <=> \E r \in reported["SvHealth"] : k - 1 \in r.data.good[c]
       /\ sats[c][k].health = "bad" <=>
            \E r \in reported["SvHealth"] : k - 1 \in r.data.bad[c] \ r.data.good[c]
DebugReportCurrent ==
  LET data == getDebugData IN
  PositionCurrent(data.position) /\ TimeCurrent(data.time) /\ SatellitesCurrent(data.satellites)

(* A satellite is told as used in the fix if the last fix that clients     *)
(* were told, since the report of satellites before, used it, or the engine*)
(* says so, and not otherwise. For the ids that fit in the shift of an int.*)
UsedInFixMatches ==
  \A d \in delivered : d.cb = "sv" => \A sv \in d.svs :
    LET c == sv.constellation
        id == sv.svid - QzssOffset(c)
        told == "USED_IN_FIX" \in sv.svFlag
    IN  (id <= 31 /\ c \in Constellations) =>
          /\ id \in flagsFor.fix[c] => told
          /\ told => id \in flagsFor.fix[c] \/ <<c, id>> \in flagsFor.engine
=============================================================================
