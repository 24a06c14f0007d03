------------------------------ MODULE WsSession ------------------------------
(***************************************************************************)
(* What one WebSocket connection carries besides the event stream: the     *)
(* subscription set (subscribe, unsubscribe, the initial subscribe of a    *)
(* reconnect) and the in-band token swap (reauth with its ack future).     *)
(* Source: openccu_loom_client/transport/ws.py.                            *)
(*                                                                         *)
(* Each reauth() call presents its own token, so a call names its token.   *)
(* The daemon's handling of the frames is external.                        *)
(***************************************************************************)
EXTENDS Integers, Sequences, FiniteSets

CONSTANTS
    Topics,    \* topic patterns
    Calls,     \* reauth() calls
    Valid,     \* calls whose token the daemon accepts
    NoCall,    \* None: no ack future pending; the configured token
    MaxCuts,   \* bound: connection losses
    MaxFlight  \* bound: frames on the way to the daemon

ASSUME SessionAssumption ==
    /\ Valid \subseteq Calls
    /\ NoCall \notin Calls
    /\ MaxCuts \in Nat
    /\ MaxFlight \in Nat

VARIABLES
    open,      \* _ws is an open socket
    cuts,      \* bound counter
    subs,      \* _subscriptions
    token,     \* call whose token config.auth carries, or NoCall
    ack,       \* _reauth_ack: the call whose future it is, or NoCall
    call,      \* where each reauth() call is
    up,        \* frames on the way to the daemon
    down,      \* control frames on the way to the client
    hubSubs,   \* the daemon's subscription set for this connection
    accepted,  \* calls whose token the daemon has accepted
    alone      \* history: calls with no other reauth of theirs in doubt

sessionVars == <<open, cuts, subs, token, ack, call, up, down, hubSubs, accepted, alone>>

(* A call: idle -> sent -> ok | no (future resolved) -> accepted | rejected  *)
(* | lost.                                                                  *)
SessionInit ==
    /\ open = FALSE
    /\ cuts = 0
    /\ subs = {}
    /\ token = NoCall
    /\ ack = NoCall
    /\ call = [c \in Calls |-> "idle"]
    /\ up = <<>>
    /\ down = <<>>
    /\ hubSubs = {}
    /\ accepted = {}
    /\ alone = Calls

Frame(op, arg) == [op |-> op, arg |-> arg]

(* _send on an open socket; nothing on a closed one.                        *)
SendIfOpen(frame) ==
    /\ Len(up) < MaxFlight
    /\ up' = IF open THEN Append(up, frame) ELSE up

-----------------------------------------------------------------------------
(* subscribe(): only topics that are new are remembered and sent.           *)
Subscribe(topics) ==
    /\ topics \ subs # {}
    /\ subs' = subs \cup topics
    /\ SendIfOpen(Frame("subscribe", topics \ subs))
    /\ UNCHANGED <<open, cuts, token, ack, call, down, hubSubs, accepted, alone>>

(* Mutant: the frame is sent, the set keeps the topics.                     *)
Unsubscribe_Forgetful(topics) ==
    /\ topics \cap subs # {}
    /\ UNCHANGED subs
    /\ SendIfOpen(Frame("unsubscribe", topics \cap subs))
    /\ UNCHANGED <<open, cuts, token, ack, call, down, hubSubs, accepted, alone>>

Unsubscribe(topics) ==
    /\ topics \cap subs # {}
    /\ subs' = subs \ topics
    /\ SendIfOpen(Frame("unsubscribe", topics \cap subs))
    /\ UNCHANGED <<open, cuts, token, ack, call, down, hubSubs, accepted, alone>>

(* A new connection: the whole set is sent first, unless it is empty.       *)
Open ==
    /\ ~open
    /\ open' = TRUE
    /\ hubSubs' = {}
    /\ up' = IF subs = {} THEN <<>> ELSE <<Frame("subscribe", subs)>>
    /\ down' = <<>>
    /\ UNCHANGED <<cuts, subs, token, ack, call, accepted, alone>>

(* The connection is lost with everything in flight.                        *)
Cut ==
    /\ open
    /\ cuts < MaxCuts
    /\ cuts' = cuts + 1
    /\ open' = FALSE
    /\ up' = <<>>
    /\ down' = <<>>
    /\ UNCHANGED <<subs, token, ack, call, hubSubs, accepted, alone>>

-----------------------------------------------------------------------------
(* An earlier reauth on this connection has not been answered yet.          *)
InDoubt ==
    \/ \E i \in 1 .. Len(up) : up[i].op = "reauth"
    \/ \E i \in 1 .. Len(down) : down[i].op \in {"reauth_ok", "reauth_failed"}
    \/ ack # NoCall

(* reauth(): install the future, send the frame.  On a closed socket the    *)
(* send raises, and the finally clause removes whatever future is there.    *)
ReauthSend(c) ==
    /\ call[c] = "idle"
    /\ ack' = IF open THEN c ELSE NoCall
    /\ call' = [call EXCEPT ![c] = IF open THEN "sent" ELSE "lost"]
    /\ SendIfOpen(Frame("reauth", c))
    /\ alone' = IF InDoubt THEN alone \ ({c} \cup {d \in Calls : call[d] = "sent"}) ELSE alone
    /\ UNCHANGED <<open, cuts, subs, token, down, hubSubs, accepted>>

(* The future is resolved: clear it, then mirror the token or raise.        *)
ReauthReturn(c) ==
    /\ call[c] \in {"ok", "no"}
    /\ ack' = NoCall
    /\ call' = [call EXCEPT ![c] = IF call[c] = "ok" THEN "accepted" ELSE "rejected"]
    /\ token' = IF call[c] = "ok" THEN c ELSE token
    /\ UNCHANGED <<open, cuts, subs, up, down, hubSubs, accepted, alone>>

(* _REAUTH_ACK_TIMEOUT_SECONDS pass without an ack for this call.           *)
ReauthTimeout(c) ==
    /\ call[c] = "sent"
    /\ ack' = NoCall
    /\ call' = [call EXCEPT ![c] = "lost"]
    /\ UNCHANGED <<open, cuts, subs, token, up, down, hubSubs, accepted, alone>>

(* _handle_control("reauth_ok" | "reauth_failed"): resolve the pending      *)
(* future, whichever call's it is.                                          *)
RecvAck ==
    /\ open
    /\ down # <<>>
    /\ down' = Tail(down)
    /\ call' = IF ack # NoCall /\ call[ack] = "sent"
                 THEN [call EXCEPT ![ack] = IF Head(down).op = "reauth_ok" THEN "ok" ELSE "no"]
                 ELSE call
    /\ UNCHANGED <<open, cuts, subs, token, ack, up, hubSubs, accepted, alone>>

(* The daemon handles the next frame; a rejected token is answered and the  *)
(* connection is closed by a later Cut.                                     *)
DaemonHandles ==
    /\ open
    /\ up # <<>>
    /\ up' = Tail(up)
    /\ LET f == Head(up)
       IN  /\ hubSubs' = CASE f.op = "subscribe"   -> hubSubs \cup f.arg
                           [] f.op = "unsubscribe" -> hubSubs \ f.arg
                           [] f.op = "reauth"      -> hubSubs
           /\ down' = IF f.op # "reauth" THEN down
                      ELSE Append(down, Frame(IF f.arg \in Valid THEN "reauth_ok"
                                              ELSE "reauth_failed", f.arg))
           /\ accepted' = IF f.op = "reauth" /\ f.arg \in Valid
                            THEN accepted \cup {f.arg} ELSE accepted
    /\ UNCHANGED <<open, cuts, subs, token, ack, call, alone>>

-----------------------------------------------------------------------------
SessionNext ==
    \/ \E T \in SUBSET Topics : Subscribe(T)
    \/ \E T \in SUBSET Topics : Unsubscribe(T)
    \/ Open
    \/ Cut
    \/ \E c \in Calls : ReauthSend(c)
    \/ \E c \in Calls : ReauthReturn(c)
    \/ \E c \in Calls : ReauthTimeout(c)
    \/ RecvAck
    \/ DaemonHandles

SessionSpec == SessionInit /\ [][SessionNext]_sessionVars

-----------------------------------------------------------------------------
(* On an open connection the daemon's subscription set, once it has handled *)
(* what is in flight, is the client's: no order of subscribe, unsubscribe,  *)
(* loss and reconnect leaves the two apart.  And a reauth() that never      *)
(* overlapped another one, in the client or on the wire, returns success    *)
(* only for a token the daemon has accepted.                                *)
SessionAgrees ==
    /\ open /\ up = <<>> => hubSubs = subs
    /\ \A c \in alone : call[c] = "accepted" => c \in accepted
=============================================================================
