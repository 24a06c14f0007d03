----------------------------- MODULE MCEntities -----------------------------
(* TLC instance of what Home Assistant sees of a device and does to it: the *)
(* data-point model, the forms of its values, week schedules, commands and  *)
(* the way of an event to the entities.  They share no state, so a          *)
(* behaviour is one of one of them, chosen at the start, and the others     *)
(* keep their initial state.                                                *)
EXTENDS CompatModel, WeekSchedules, CustomCommands, EventRouting, EntityValues

VARIABLE part

MCInit == /\ part \in {"model", "schedules", "commands", "routing", "values"}
          /\ ModelInit /\ SchedInit /\ CmdInit /\ RoutingInit /\ ValuesInit
          /\ part # "schedules" => cache = kept
          /\ part # "commands" => kind = "switch" /\ bounded
          /\ part # "values" => summary = CHOOSE s \in Summaries : TRUE

MCNext ==
    /\ UNCHANGED part
    /\ \/ /\ part = "model" /\ ModelNext
          /\ UNCHANGED <<schedVars, cmdVars, routingVars, valueVars>>
       \/ /\ part = "schedules" /\ SchedNext
          /\ UNCHANGED <<modelVars, cmdVars, routingVars, valueVars>>
       \/ /\ part = "commands" /\ CmdNext
          /\ UNCHANGED <<modelVars, schedVars, routingVars, valueVars>>
       \/ /\ part = "routing" /\ RoutingNext
          /\ UNCHANGED <<modelVars, schedVars, cmdVars, valueVars>>
       \/ /\ part = "values" /\ ValuesNext
          /\ UNCHANGED <<modelVars, schedVars, cmdVars, routingVars>>

MCSpec == MCInit /\ [][MCNext]_<<part, modelVars, schedVars, cmdVars, routingVars, valueVars>>
=============================================================================
