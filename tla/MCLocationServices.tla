------------------------- MODULE MCLocationServices -------------------------
(* The clients and the callbacks they set; libraries with their events;    *)
(* what an engine says that has few satellites; libraries with data items  *)
(* are alike                                                               *)
EXTENDS LocationServices, TLC

MCOffers == [c \in Clients |->
  CASE c = "gnss" -> {{"ni"}, {"tracking", "sv"}, {"tracking", "sv", "ni"}}
    [] c = "measurement" -> {{"measurements"}}
    [] c = "batching" -> {{"batching"}}
    [] c = "geofence" -> {{"geofence"}}]

MCOthersMask == ("flp" :> {"batching"}) @@ ("geo" :> {"breach"})

\* Two satellites of GPS, so that a bit and an index are not always 0
MCSvNum == [gps |-> 2, glo |-> 1, bds |-> 1, gal |-> 1, qzss |-> 1]

MCSvs(gps, bds) == [c \in Constellations |->
                      CASE c = "gps" -> gps [] c = "bds" -> bds [] OTHER -> {}]
MCPayloads ==
  [M1 |-> {[week |-> 1, tow |-> 1000, leap |-> 18, timeValid |-> v, xo |-> 1, agc |-> 5,
            bpAmp |-> 2, err |-> 1] : v \in {0, 1}},
   P1 |-> {[epi |-> 1]}, P2 |-> {[best |-> b] : b \in {0, 7}}, P4 |-> {[epheValid |-> 1]},
   P6 |-> {[fixInfo |-> 1]}, S1 |-> {[failure |-> 1]},
   P3 |-> {[age |-> 3, valid |-> MCSvs({1}, {0})]},
   P5 |-> {[good |-> MCSvs({0}, {}), bad |-> MCSvs({1}, {0})]},
   P7 |-> {[nav |-> <<1, 2, 3, 4, 5, 6>>]}]

MCSentence(k, n, says) ==
  [talker |-> "PQW", kind |-> k, checksum |-> TRUE, fields |-> n, says |-> says]
MCSentences ==
  {MCSentence("M1", 23 + 8 * p.timeValid, p) : p \in MCPayloads["M1"]}
    \union {MCSentence("M1", 22, p) : p \in {q \in MCPayloads["M1"] : q.timeValid = 1}}
    \union {MCSentence("P2", n, [best |-> 7]) : n \in {6, 7}}
    \union {MCSentence("P3", 13, p) : p \in MCPayloads["P3"]}
    \union {MCSentence("P5", 17, p) : p \in MCPayloads["P5"]}
    \union {MCSentence("P7", 20, p) : p \in MCPayloads["P7"]}
    \union {[talker |-> "GP", kind |-> "GGA", checksum |-> TRUE, fields |-> 14]}
MCPositions == {1, 9}
MCFix(status, tech, pos, accuracy, used) ==
  [status |-> status, tech |-> tech, pos |-> pos, accuracy |-> accuracy, used |-> used,
   reliable |-> FALSE]
MCFixes ==
  {MCFix("success", "satellite", 1, 10, {<<"gps", 1>>, <<"bds", 33>>, <<"qzss", 1>>}),
   MCFix("success", "satellite", 2, 10, {}),
   MCFix("success", "network", 1, 0, {<<"gps", 2>>}),
   MCFix("intermediate", "satellite", 2, 50, {<<"gps", 2>>})}
MCSvReports ==
  {{[type |-> "gps", id |-> 1, used |-> FALSE], [type |-> "gps", id |-> 2, used |-> FALSE],
    [type |-> "bds", id |-> 32, used |-> FALSE], [type |-> "bds", id |-> 33, used |-> FALSE],
    [type |-> "qzss", id |-> 1, used |-> FALSE], [type |-> "sbas", id |-> 40, used |-> FALSE],
    [type |-> "gal", id |-> 3, used |-> TRUE]}}
MCMeasurements == {[type |-> "gps", msInWeek |-> 2000]}

Symmetry == Permutations(Observers)
=============================================================================
