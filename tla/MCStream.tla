------------------------------ MODULE MCStream ------------------------------
(* TLC instance of the two transports and of what the store keeps: the      *)
(* event stream, the REST transport, the device graph, the catalogue of     *)
(* custom data points, the event groups and the central's background reads. *)
(* They share no state, so a behaviour is one of one of them, chosen at the *)
(* start, and the others keep their initial state.                          *)
EXTENDS WsTransport, HttpTransport, StoreGraph, CdpIndex, EventGroups,
        CentralReads

VARIABLE part

MCBackoff == <<1>>

MCDeclarations == { [keypress |-> {"short", "long"}],
                    [keypress |-> {"short"}, device_error |-> {"long", "fault"}],
                    [keypress |-> {"long"}, future |-> {"short"}],
                    [impulse |-> {"fault"}, keypress |-> {"short"}] }

MCInit == /\ part \in {"stream", "rest", "graph", "catalogue", "events", "reads"}
          /\ TransportInit /\ HttpInit /\ GraphInit /\ CdpInit /\ EventInit /\ ReadsInit
          /\ part # "events" => declared = [keypress |-> {"short", "long"}]

MCNext ==
    /\ UNCHANGED part
    /\ \/ part = "stream" /\ TransportNext /\ UNCHANGED <<httpVars, graphVars, cxVars, egVars, readsVars>>
       \/ part = "rest" /\ HttpNext /\ UNCHANGED <<transportVars, graphVars, cxVars, egVars, readsVars>>
       \/ part = "graph" /\ GraphNext /\ UNCHANGED <<transportVars, httpVars, cxVars, egVars, readsVars>>
       \/ part = "catalogue" /\ CdpNext /\ UNCHANGED <<transportVars, httpVars, graphVars, egVars, readsVars>>
       \/ part = "events" /\ EventNext /\ UNCHANGED <<transportVars, httpVars, graphVars, cxVars, readsVars>>
       \/ part = "reads" /\ ReadsNext /\ UNCHANGED <<transportVars, httpVars, graphVars, cxVars, egVars>>

MCSpec == MCInit /\ [][MCNext]_<<part, transportVars, httpVars, graphVars, cxVars, egVars, readsVars>>
=============================================================================
