-------------------------------- MODULE MCHub --------------------------------
(* TLC instance of the hub components: HubSingletons, AlarmPanels and       *)
(* HubCatalogue side by side.  They share no state, so a behaviour is one   *)
(* of one of them, chosen at the start, and the others keep their initial   *)
(* state.                                                                   *)
EXTENDS HubSingletons, AlarmPanels, HubCatalogue

VARIABLE part

MCMoving == {Hub("inbox"), Hub("alarm"), Hub("update"), Severity, Faults, <<"install", "i1">>} \cup ClassSensors

MCItems == { [kind |-> "sysvar", key |-> "v1", central |-> "here", spawns |-> TRUE, linked |-> TRUE],
             [kind |-> "sysvar", key |-> "v2", central |-> "there", spawns |-> TRUE, linked |-> FALSE],
             [kind |-> "sysvar", key |-> "v2", central |-> "here", spawns |-> TRUE, linked |-> FALSE],
             [kind |-> "program", key |-> "p1", central |-> "here", spawns |-> TRUE, linked |-> TRUE],
             [kind |-> "program", key |-> "p2", central |-> "here", spawns |-> TRUE, linked |-> FALSE] }
MCFirstItems == {it \in MCItems : it.key = "p1" \/ it.central = "there"}

MCInit == /\ part \in {"singletons", "panels", "catalogue"}
          /\ HubInit /\ PanelInit /\ CatInit

MCNext == /\ UNCHANGED part
          /\ \/ part = "singletons" /\ HubNext /\ UNCHANGED <<panelVars, catVars>>
             \/ part = "panels" /\ PanelNext /\ UNCHANGED <<hubVars, catVars>>
             \/ part = "catalogue" /\ CatNext /\ UNCHANGED <<hubVars, panelVars>>

MCSpec == MCInit /\ [][MCNext]_<<part, hubVars, panelVars, catVars>>
=============================================================================
