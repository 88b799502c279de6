---------------------------- MODULE SystemStatus ----------------------------
(***************************************************************************)
(* SystemStatus: the cache of what the engine said last about its clock,   *)
(* its position, its satellites. Debug sentences (NMEA with the talker     *)
(* PQW), fixes and the deletion of aiding data change it, each under one   *)
(* lock; the debug report and the gain of the measurements read it.        *)
(* OsObserver has the part of it that the framework's data items fill.     *)
(***************************************************************************)
EXTENDS Integers, Sequences, FiniteSets

CONSTANTS
  SvNum,       \* constellation -> how many satellites (GPS_NUM, GLO_NUM, ...)
  maxItem,     \* reports kept of an item
  Payloads,    \* kind of sentence -> what its fields can say
  Positions    \* positions a fix, or memory nobody wrote, can hold

Constellations == {"gps", "glo", "bds", "gal", "qzss"}

ASSUME StatusAssumption ==
  /\ maxItem \in Nat \ {0}
  /\ SvNum \in [Constellations -> Nat]

SV_ALL_NUM == SvNum["gps"] + SvNum["glo"] + SvNum["qzss"] + SvNum["bds"] + SvNum["gal"]

GnssItems == {"Location", "TimeAndClock", "XoState", "RfAndParams", "ErrRecovery",
              "InjectedPosition", "BestPosition", "Xtra", "Ephemeris", "SvHealth", "Pdr",
              "NavData", "PositionFailure"}

VARIABLES
  mCache,     \* item -> its last reports, the newest at the end
  now,        \* CLOCK_MONOTONIC: it passes with every report
  reported    \* item -> its last report since the data was deleted, or {}

statusVars == <<mCache, now, reported>>

StatusInit ==
  /\ mCache = [i \in GnssItems |-> <<>>]
  /\ now = 0
  /\ reported = [i \in GnssItems |-> {}]

-----------------------------------------------------------------------------
(* The sentences: how many fields stand before the checksum, and what they *)
(* say. A sentence without a checksum has no field at all.                 *)
NmeaBase(s) == IF s.checksum THEN s.fields ELSE 0

(* A sentence of too few fields leaves the parser's result uninitialised   *)
Parsed(s, eMax) == IF NmeaBase(s) < eMax THEN Payloads[s.kind] ELSE {s.says}

(* Only the parser of M1 clears its result first; the fields of later      *)
(* versions of the sentence may be missing                                 *)
PQWM1parser(s) ==
  LET from(n, v) == IF NmeaBase(s) > n THEN v ELSE 0
      basic == NmeaBase(s) > 22
  IN  {[f \in DOMAIN s.says |->
          CASE ~basic -> 0
            [] basic /\ f = "leap" -> from(24, s.says.leap)
            [] basic /\ f = "bpAmp" -> from(30, s.says.bpAmp)
            [] OTHER -> s.says[f]]}
PQWP1parser(s) == Parsed(s, 9)
PQWP2parser(s) == Parsed(s, 7)
PQWP3parser(s) == Parsed(s, 13)
PQWP4parser(s) == Parsed(s, 7)
PQWP5parser(s) == Parsed(s, 17)
PQWP6parser(s) == Parsed(s, 3)
PQWP7parser(s) == Parsed(s, 2 + 3 * SV_ALL_NUM)
PQWS1parser(s) == Parsed(s, 4)

(* What the constructors of the items take from a parsed sentence or a fix *)
TimeAndClock(m1) == [week |-> m1.week, tow |-> m1.tow, leap |-> m1.leap, timeValid |-> m1.timeValid]
XoState(m1) == m1.xo
RfAndParams(m1) == [agc |-> m1.agc, bpAmp |-> m1.bpAmp]
ErrRecovery(m1) == m1.err
InjectedPosition(p1) == p1.epi
BestPosition(p2) == p2.best
Xtra(p3) == p3
Ephemeris(p4) == p4.epheValid
SvHealth(p5) == p5
Pdr(p6) == p6.fixInfo
NavData(p7) == [i \in 1..SV_ALL_NUM |-> p7.nav[i]]
PositionFailure(s1) == s1.failure
Location(f) == [pos |-> f.pos, accuracy |-> f.accuracy]

(* What they are when nothing is known: zeros everywhere, but the default  *)
(* location leaves its position uninitialised                              *)
NoneOf == [c \in Constellations |-> {}]
Defaults(garbage) ==
  [Location |-> [pos |-> garbage, accuracy |-> 0],
   TimeAndClock |-> [week |-> 0, tow |-> 0, leap |-> 0, timeValid |-> 0],
   XoState |-> 0, RfAndParams |-> [agc |-> 0, bpAmp |-> 0], ErrRecovery |-> 0,
   InjectedPosition |-> 0, BestPosition |-> 0,
   Xtra |-> [age |-> 0, valid |-> NoneOf], Ephemeris |-> 0,
   SvHealth |-> [good |-> NoneOf, bad |-> NoneOf], Pdr |-> 0,
   NavData |-> [i \in 1..SV_ALL_NUM |-> 0], PositionFailure |-> 0]

-----------------------------------------------------------------------------
(* The reports of an item                                                  *)

(* Two locations are the same if their coordinates are; mValid, of which   *)
(* only a location and a best position have one, is never compared         *)
Equals(item, a, b) ==
  IF item = "Location" THEN a.data.pos = b.data.pos ELSE a.data = b.data

setDefaultIteminReport(report, s) ==
  IF Len(report) = maxItem THEN Append(Tail(report), s) ELSE Append(report, s)

(* Mutant: a repeated report leaves everything as it was                   *)
setIteminReportFirst(item, report, s) ==
  IF report # <<>> /\ Equals(item, report[Len(report)], s) THEN report
  ELSE setDefaultIteminReport(report, s)

(* A report like the last one only renews its time                         *)
setIteminReport(item, report, s) ==
  IF report # <<>> /\ Equals(item, report[Len(report)], s)
  THEN [report EXCEPT ![Len(report)].mUtcReported = s.mUtcReported]
  ELSE setDefaultIteminReport(report, s)

getIteminReport(report) == IF report = <<>> THEN <<>> ELSE <<report[Len(report)]>>

(* Reports of some items arrive: one step, under the lock                  *)
Record(news) ==
  LET s(i) == [data |-> news[i], mValid |-> TRUE, mUtcReported |-> now + 1] IN
  /\ now' = now + 1
  /\ mCache' = [i \in GnssItems |->
       IF i \in DOMAIN news THEN setIteminReport(i, mCache[i], s(i)) ELSE mCache[i]]
  /\ reported' = [i \in GnssItems |-> IF i \in DOMAIN news THEN {s(i)} ELSE reported[i]]

eventPosition(f) == Record([Location |-> Location(f)])

(* loc_nmea_is_debug; the items that a debug sentence sets                 *)
IsDebug(s) == s.talker = "PQW"
Sets(s) ==
  CASE s.kind = "M1" -> {[TimeAndClock |-> TimeAndClock(p), XoState |-> XoState(p),
                          RfAndParams |-> RfAndParams(p), ErrRecovery |-> ErrRecovery(p)]
                            : p \in PQWM1parser(s)}
    [] s.kind = "P1" -> {[InjectedPosition |-> InjectedPosition(p)] : p \in PQWP1parser(s)}
    [] s.kind = "P2" -> {[BestPosition |-> BestPosition(p)] : p \in PQWP2parser(s)}
    [] s.kind = "P3" -> {[Xtra |-> Xtra(p)] : p \in PQWP3parser(s)}
    [] s.kind = "P4" -> {[Ephemeris |-> Ephemeris(p)] : p \in PQWP4parser(s)}
    [] s.kind = "P5" -> {[SvHealth |-> SvHealth(p)] : p \in PQWP5parser(s)}
    [] s.kind = "P6" -> {[Pdr |-> Pdr(p)] : p \in PQWP6parser(s)}
    [] s.kind = "P7" -> {[NavData |-> NavData(p)] : p \in PQWP7parser(s)}
    [] s.kind = "S1" -> {[PositionFailure |-> PositionFailure(p)] : p \in PQWS1parser(s)}
    [] OTHER -> {}
setNmeaString(s) ==
  \/ \E news \in Sets(s) : Record(news)
  \/ Sets(s) = {} /\ UNCHANGED statusVars

(* All aiding data was deleted: nothing is known of the engine             *)
setDefaultGnssEngineStates ==
  \E garbage \in Positions :
    /\ now' = now + 1
    /\ mCache' = [i \in GnssItems |->
         setDefaultIteminReport(mCache[i], [data |-> Defaults(garbage)[i],
                                           mValid |-> FALSE, mUtcReported |-> now + 1])]
    /\ reported' = [i \in GnssItems |-> {}]

getReport == [i \in GnssItems |-> getIteminReport(mCache[i])]
=============================================================================
