------------------------ MODULE MCSubscribeScenarios ------------------------
(***************************************************************************)
(* The safety run of Subscribe: several scenarios, one chosen initially,   *)
(* each with its Mutate frames, how many of them a client sends, and the   *)
(* rows that may be published.                                             *)
(***************************************************************************)
EXTENDS MCSubscribe

VARIABLE scenario

Scenario ==
  [buffer  |-> [frames |-> OneMutate, mutates |-> 1, topics |-> {g1}, rows |-> 3],
   groups  |-> [frames |-> GroupMutates, mutates |-> 2, topics |-> {g1, g2}, rows |-> 2],
   reset   |-> [frames |-> ResetMutates, mutates |-> 3, topics |-> {g1}, rows |-> 2],
   kinds   |-> [frames |-> KindMutates, mutates |-> 2, topics |-> {g1, w1}, rows |-> 2],
   history |-> [frames |-> HistoryMutates, mutates |-> 2, topics |-> {g1, g2}, rows |-> 2]]

AllMutates == UNION {Scenario[s].frames : s \in DOMAIN Scenario}

ScenarioInit == Init /\ scenario \in DOMAIN Scenario

\* Only rows of the scenario are published.
InScenario ==
  /\ Latest("group") + Latest("welcome") <= Scenario[scenario].rows
  /\ \A k \in Kinds : \A i \in 1..Latest(k) : table[k][i].topic \in Scenario[scenario].topics

ScenarioNext ==
  /\ \/ /\ mutates < Scenario[scenario].mutates
        /\ \E m \in Scenario[scenario].frames : RefuseMutate(m) \/ Mutate(m)
     \/ StreamStep
  /\ UNCHANGED scenario
  /\ InScenario'

ScenarioSpec == ScenarioInit /\ [][ScenarioNext]_<<vars, scenario>>
=============================================================================
