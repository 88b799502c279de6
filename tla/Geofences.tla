----------------------------- MODULE Geofences ------------------------------
(***************************************************************************)
(* The geofences of LocationAPIClientBase. mGeofenceBiDict maps the ids of *)
(* the framework to fences of the engine in two maps, and keeps for each   *)
(* fence the transitions to report. Requests are answered collectively, in *)
(* their order; an answer names fences and is translated back to ids with  *)
(* what the dictionary holds by then.                                      *)
(***************************************************************************)
EXTENDS Integers, Sequences, FiniteSets

CONSTANTS
  FenceIds,        \* ids of the framework; 0 is no id
  MaxFenceCalls    \* bound on the calls of the framework

ASSUME FenceAssumption ==
  FenceIds \subseteq Nat \ {0} /\ IsFiniteSet(FenceIds) /\ MaxFenceCalls \in Nat

BreachMasks == SUBSET {"enter", "exit"}

VARIABLES
  fenceCalls,     \* calls of the framework so far
  forward,        \* mForwardMap: id -> fence, 0 if none
  backward,       \* mBackwardMap: fence -> id, 0 if none
  ext,            \* mExtMap: fence -> the transitions to report
  fenceRequests,  \* mRequestQueues[REQUEST_GEOFENCE]: the kinds of the requests
  lastFence,      \* fences the engine has numbered
  engineCommands, \* what the engine has still to do: [op, fences]
  engineFences,   \* fences the engine watches
  wanted          \* what the framework asked for: id -> a fence and its transitions

geofenceVars == <<forward, backward, ext, fenceRequests, lastFence, engineCommands,
                  engineFences, wanted>>

Fences == 1..(Cardinality(FenceIds) * MaxFenceCalls)
Unwanted == [fence |-> 0, mask |-> {}]

GeofencesInit ==
  /\ forward = [i \in FenceIds |-> 0]
  /\ backward = [f \in Fences |-> 0]
  /\ ext = [f \in Fences |-> {}]
  /\ fenceRequests = <<>> /\ engineCommands = <<>>
  /\ engineFences = {} /\ lastFence = 0
  /\ wanted = [i \in FenceIds |-> Unwanted]

FenceCall == fenceCalls < MaxFenceCalls /\ fenceCalls' = fenceCalls + 1

(* The fences of a set of ids; ids that are not in the dictionary are      *)
(* skipped                                                                 *)
Known(is) == {i \in is : forward[i] # 0}
FencesOf(is) == {forward[i] : i \in Known(is)}

FenceRequest(kind, fs) ==
  /\ fenceRequests' = Append(fenceRequests, kind)
  /\ engineCommands' = Append(engineCommands, [op |-> kind, fences |-> fs])

(* locAPIAddGeofences: the engine numbers the new fences, the dictionary   *)
(* takes them without asking whether the id is in use. The framework adds  *)
(* an id it does not have.                                                 *)
locAPIAddGeofences(is, mask) ==
  LET number == CHOOSE n \in [is -> (lastFence + 1)..(lastFence + Cardinality(is))] :
                  \A i, j \in is : i # j => n[i] # n[j]
      new == {number[i] : i \in is}
  IN
  /\ FenceCall
  /\ \A i \in is : wanted[i] = Unwanted
  /\ lastFence' = lastFence + Cardinality(is)
  /\ forward' = [i \in FenceIds |-> IF i \in is THEN number[i] ELSE forward[i]]
  /\ backward' = [f \in Fences |-> IF f \in new THEN CHOOSE i \in is : number[i] = f
                                                ELSE backward[f]]
  /\ ext' = [f \in Fences |-> IF f \in new THEN mask ELSE ext[f]]
  /\ wanted' = [i \in FenceIds |-> IF i \in is THEN [fence |-> number[i], mask |-> mask]
                                               ELSE wanted[i]]
  /\ FenceRequest("add", new)
  /\ UNCHANGED engineFences

(* The entries of the fences leave the dictionary (rmBySession)            *)
rmBySession(fs) ==
  /\ forward' = [i \in FenceIds |-> IF \E f \in fs : backward[f] = i THEN 0 ELSE forward[i]]
  /\ backward' = [f \in Fences |-> IF f \in fs THEN 0 ELSE backward[f]]
  /\ ext' = [f \in Fences |-> IF f \in fs THEN {} ELSE ext[f]]

(* Mutant: the dictionary forgets the fences the engine then is not asked  *)
(* to remove, since their numbers are read after that                      *)
locAPIRemoveAfterForgetting(is) ==
  /\ FenceCall
  /\ Known(is) # {}
  /\ rmBySession(FencesOf(is))
  /\ wanted' = [i \in FenceIds |-> IF i \in is THEN Unwanted ELSE wanted[i]]
  /\ FenceRequest("remove", {forward'[i] : i \in is} \ {0})
  /\ UNCHANGED <<lastFence, engineFences>>

(* locAPIRemoveGeofences: at once from the dictionary (the request keeps   *)
(* the entries for its answer). Nothing is sent when no id is known.       *)
locAPIRemoveGeofences(is) ==
  /\ FenceCall
  /\ Known(is) # {}
  /\ rmBySession(FencesOf(is))
  /\ wanted' = [i \in FenceIds |-> IF i \in is THEN Unwanted ELSE wanted[i]]
  /\ FenceRequest("remove", FencesOf(is))
  /\ UNCHANGED <<lastFence, engineFences>>

(* locAPIModifyGeofences and locAPIResumeGeofences: new transitions for    *)
(* the ids that are known                                                  *)
Rewatch(kind, is, mask) ==
  /\ FenceCall
  /\ Known(is) # {}
  /\ ext' = [f \in Fences |-> IF f \in FencesOf(is) THEN mask ELSE ext[f]]
  /\ wanted' = [i \in FenceIds |-> IF i \in is /\ wanted[i] # Unwanted
                                     THEN [wanted[i] EXCEPT !.mask = mask] ELSE wanted[i]]
  /\ FenceRequest(kind, FencesOf(is))
  /\ UNCHANGED <<forward, backward, lastFence, engineFences>>
locAPIModifyGeofences(is, mask) == Rewatch("modify", is, mask)
locAPIResumeGeofences(is, mask) == Rewatch("resume", is, mask)

locAPIPauseGeofences(is) ==
  /\ FenceCall
  /\ Known(is) # {}
  /\ FenceRequest("pause", FencesOf(is))
  /\ UNCHANGED <<forward, backward, ext, lastFence, engineFences, wanted>>

(* The engine (external) does the oldest command and answers it: it may    *)
(* refuse fences it is to add. onCollectiveResponseCb pops the oldest      *)
(* request; an error it reports as a failed addition reaches the framework *)
(* under the id the dictionary has for the fence, and the entry stays.     *)
onCollectiveResponseCb ==
  LET c == Head(engineCommands)
      told(refused) == IF Head(fenceRequests) = "add" THEN {backward[f] : f \in refused} ELSE {}
  IN
  /\ engineCommands # <<>>
  /\ engineCommands' = Tail(engineCommands)
  /\ fenceRequests' = Tail(fenceRequests)
  /\ \E refused \in SUBSET c.fences :
       /\ c.op # "add" => refused = {}
       /\ engineFences' = CASE c.op = "add" -> engineFences \union (c.fences \ refused)
                            [] c.op = "remove" -> engineFences \ c.fences
                            [] OTHER -> engineFences
       /\ wanted' = [i \in FenceIds |-> IF i \in told(refused) THEN Unwanted ELSE wanted[i]]
  /\ UNCHANGED <<fenceCalls, forward, backward, ext, lastFence>>

GeofencesNext ==
  \/ \E is \in (SUBSET FenceIds) \ {{}}, mask \in BreachMasks :
       \/ locAPIAddGeofences(is, mask)
       \/ locAPIModifyGeofences(is, mask)
       \/ locAPIResumeGeofences(is, mask)
  \/ \E is \in (SUBSET FenceIds) \ {{}} : locAPIRemoveGeofences(is) \/ locAPIPauseGeofences(is)
  \/ onCollectiveResponseCb

-----------------------------------------------------------------------------
Commanded(op, f) == \E k \in DOMAIN engineCommands :
                      engineCommands[k].op = op /\ f \in engineCommands[k].fences

(* beforeGeofenceBreachCb: the id under which a breach of a fence is       *)
(* reported, 0 if it is not                                                *)
BreachReportedAs(f, transition) == IF transition \in ext[f] THEN backward[f] ELSE 0

(* A fence of the engine is one the framework has, and a breach of it is   *)
(* reported under its id for just the transitions it asked for last, or    *)
(* the fence is about to be removed: no fence is left that nobody can      *)
(* remove, or that reports under the id of another one, whatever additions *)
(* failed and whatever was removed before its addition was answered.       *)
BreachesReachTheirFence ==
  \A f \in engineFences :
     \/ Commanded("remove", f)
     \/ \E i \in FenceIds :
          /\ wanted[i].fence = f
          /\ forward[i] = f
          /\ \A t \in {"enter", "exit"} :
               BreachReportedAs(f, t) = IF t \in wanted[i].mask THEN i ELSE 0
=============================================================================
