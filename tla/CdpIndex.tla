------------------------------ MODULE CdpIndex ------------------------------
(***************************************************************************)
(* The two indexes LoomStore keeps over the custom data points (CDPs) of a *)
(* device: by name, and by the number of the channel that carries each.    *)
(* Catalogue reads replace both, in place for a CDP that stays (its twin   *)
(* in Home Assistant must survive); removing the device drops both.  A     *)
(* channel carries at most one CDP, and a CDP's primary channel may change *)
(* between two reads.                                                      *)
(***************************************************************************)
EXTENDS Naturals, FiniteSets, Functions

CONSTANTS Names, ChannelNos

ASSUME CdpAssumption == ChannelNos \subseteq Nat

VARIABLES cdps,      \* _cdps: name |-> its object: the channel its summary names, its live state
          byChannel, \* _cdp_by_channel: channel number |-> name of the object found there
          daemonState   \* the last state the daemon reported of each name

cxVars == <<cdps, byChannel, daemonState>>

Without(f, keys) == Restrict(f, DOMAIN f \ keys)

\* _drop_cdp, for a set of names: each leaves both indexes, the second under
\* the channel its summary names.
DropCdps(c, b, names) ==
    [cdps |-> Without(c, names),
     byChannel |-> Without(b, {c[n].channel : n \in names \cap DOMAIN c})]

\* _register_cdp, and the in-place update of a CDP that stays: both put the
\* object under its summary's channel.  A summary without a state keeps the
\* state the object shows.
PutCdps(c, b, catalogue) ==
    [cdps |-> [n \in DOMAIN c \union DOMAIN catalogue |->
                  IF n \notin DOMAIN catalogue THEN c[n]
                  ELSE [channel |-> catalogue[n].channel,
                        state |-> IF catalogue[n].state # 0 THEN catalogue[n].state
                                  ELSE IF n \in DOMAIN c THEN c[n].state ELSE 0]],
     byChannel |-> [ch \in DOMAIN b \union {catalogue[n].channel : n \in DOMAIN catalogue} |->
                       IF \E n \in DOMAIN catalogue : catalogue[n].channel = ch
                       THEN CHOOSE n \in DOMAIN catalogue : catalogue[n].channel = ch
                       ELSE b[ch]]]

\* attach_custom_data_points: the stale go first, then the catalogue is put.
Attached_DropsLast(catalogue) ==
    LET put == PutCdps(cdps, byChannel, catalogue)
    IN  DropCdps(put.cdps, put.byChannel, DOMAIN put.cdps \ DOMAIN catalogue)

Attached(catalogue) ==
    LET kept == DropCdps(cdps, byChannel, DOMAIN cdps \ DOMAIN catalogue)
    IN  PutCdps(kept.cdps, kept.byChannel, catalogue)

Catalogues ==
    {c \in UNION {[s -> [channel : ChannelNos, state : 0..2]] : s \in SUBSET Names} :
        IsInjective([n \in DOMAIN c |-> c[n].channel])}

AttachCustomDataPoints ==
    \E c \in Catalogues :
        LET new == Attached(c)
        IN  /\ cdps' = new.cdps
            /\ byChannel' = new.byChannel
            /\ daemonState' = [n \in DOMAIN c |->
                                IF c[n].state # 0 THEN c[n].state
                                ELSE IF n \in DOMAIN daemonState THEN daemonState[n] ELSE 0]

\* apply_custom_data_point_state_changed for a known CDP; an unknown one waits
\* for the next catalogue.
StateChanged ==
    \E n \in Names, s \in 1..2 :
        /\ n \in DOMAIN cdps
        /\ cdps' = [cdps EXCEPT ![n].state = s]
        /\ daemonState' = [daemonState EXCEPT ![n] = s]
        /\ UNCHANGED byChannel

\* apply_device_removed, its CDP part.
DeviceRemoved ==
    LET left == DropCdps(cdps, byChannel, DOMAIN cdps)
    IN  /\ cdps' = left.cdps
        /\ byChannel' = left.byChannel
        /\ daemonState' = <<>>

CdpInit == cdps = <<>> /\ byChannel = <<>> /\ daemonState = <<>>

CdpNext == AttachCustomDataPoints \/ StateChanged \/ DeviceRemoved

CdpSpec == CdpInit /\ [][CdpNext]_cxVars

-----------------------------------------------------------------------------
\* Every catalogued CDP is found under its channel and shows the last state
\* reported of it, whatever the order in which catalogues added, dropped and
\* moved CDPs (attach_custom_data_points, _register_cdp, _drop_cdp).
CdpFoundByChannel ==
    /\ DOMAIN cdps = DOMAIN daemonState
    /\ \A n \in DOMAIN cdps :
           /\ cdps[n].state = daemonState[n]
           /\ cdps[n].channel \in DOMAIN byChannel
           /\ byChannel[cdps[n].channel] = n

\* "Keep the channel index in lock-step in case the primary channel moved":
\* no channel leads to a CDP that is elsewhere or gone.
ChannelIndexInStep ==
    \A ch \in DOMAIN byChannel :
        byChannel[ch] \in DOMAIN cdps /\ cdps[byChannel[ch]].channel = ch
=============================================================================
