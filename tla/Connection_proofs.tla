--------------------------- MODULE Connection_proofs ---------------------------
(***************************************************************************)
(* TLAPS proofs about what talks to the daemon besides the event stream,   *)
(* for every bound on drops, pushes, frames and attempts: the central's    *)
(* lifecycle, subscriptions and tokens, onboarding, held devices, and a    *)
(* REST call from both sides (HttpTransport's sessions, attempts and       *)
(* deadlines, what RestOperations reports of the daemon).                  *)
(***************************************************************************)
EXTENDS CentralLifecycle, WsSession, Onboarding, HeldDevices, HttpTransport, RestOperations,
        FiniteSetTheorems, SequenceTheorems, TLAPS

-----------------------------------------------------------------------------
(***************************************************************************)
(* CentralLifecycle: the state of the central follows the stream.          *)
(***************************************************************************)

(* The values of the lifecycle variables.                                   *)
LifecycleTypeOK ==
    /\ state \in {"Stopped", "Starting", "Running", "Degraded"}
    /\ phase \in {"off", "starting", "subscribed", "done", "stopping", "closing", "stopped"}
    /\ link \in {"down", "up", "refused"}
    /\ grace \in BOOLEAN /\ overwritten \in BOOLEAN /\ muted \in BOOLEAN
    /\ telling \in {"none", "Running", "Degraded"}
    /\ told \in {"none", "Running", "Degraded"}

(* Before the stream is opened nothing has been reported, and the state is  *)
(* Stopped exactly outside start() ... stop().                              *)
QuietBeforeStream ==
    /\ phase \in {"off", "starting"} => ~muted
    /\ phase \in {"off", "starting"} \/ (phase = "subscribed" /\ state = "Starting") =>
         link # "up" /\ ~grace /\ telling = "none" /\ told = "none"
    /\ phase \in {"off", "starting", "subscribed"} => ~overwritten
    /\ phase = "starting" => state = "Starting"
    /\ state = "Starting" => phase # "done"
    /\ state = "Stopped" <=> phase \in {"off", "stopped"}

(* A report in progress agrees with the link: a connect is told while the   *)
(* transport waits, a disconnect is pending only while the link is gone.    *)
ReportsFollowLink ==
    /\ telling = "Running" => link = "up"
    /\ grace \/ telling = "Degraded" => link # "up"
    /\ link = "refused" => muted
    /\ phase \in {"closing", "stopped"} => ~grace /\ telling # "Degraded"
    /\ phase = "stopped" => link = "down" /\ telling = "none"

(* While start() has replaced no Degraded and no credential was rejected:   *)
(* a window runs over a Running central only, a report tells the state it   *)
(* was made for, and what HA was told last is the state or being corrected. *)
HonestReports ==
    ~overwritten /\ ~muted /\ phase \in {"subscribed", "done"} =>
        /\ link = "up" => state = "Running"
        /\ grace => state = "Running" /\ telling = "none"
        /\ telling # "none" => state = telling
        /\ state = "Degraded" => link = "down" /\ (told = "Degraded" \/ telling = "Degraded")
        /\ state = "Running" => told # "Degraded" \/ telling = "Running"

(* The inductive invariant of the central's lifecycle.                      *)
LifecycleInv == LifecycleTypeOK /\ QuietBeforeStream /\ ReportsFollowLink /\ HonestReports

(* A central that was never started has nothing pending.                    *)
LEMMA LifecycleInitInv == LifecycleInit => LifecycleInv
BY DEF LifecycleInit, LifecycleInv, LifecycleTypeOK, QuietBeforeStream, ReportsFollowLink,
       HonestReports

(* start() and stop() keep the invariant.                                   *)
LEMMA StartStopInv ==
    ASSUME LifecycleInv,
           StartBegins \/ StreamOpens \/ StartEnds \/ StopBegins \/ HandlersCancelled \/ StopEnds
    PROVE  LifecycleInv'
<1> USE DEF LifecycleInv, LifecycleTypeOK, QuietBeforeStream, ReportsFollowLink,
            HonestReports, haVars
<1>1. CASE StartBegins
    BY <1>1 DEF StartBegins
<1>2. CASE StreamOpens
    BY <1>2 DEF StreamOpens
<1>3. CASE StartEnds
    BY <1>3 DEF StartEnds
<1>4. CASE StopBegins
    BY <1>4 DEF StopBegins
<1>5. CASE HandlersCancelled
    BY <1>5 DEF HandlersCancelled
<1>6. CASE StopEnds
    BY <1>6 DEF StopEnds
<1> QED
    BY <1>1, <1>2, <1>3, <1>4, <1>5, <1>6

(* _on_connection_event and _apply_connection_state keep the invariant: a   *)
(* connect, a disconnect, the end of a grace window, the event to HA.       *)
LEMMA LinkEventsInv ==
    ASSUME LifecycleInv, LinkUp \/ LinkDown \/ GraceElapses \/ Tell
    PROVE  LifecycleInv'
<1> USE DEF LifecycleInv, LifecycleTypeOK, QuietBeforeStream, ReportsFollowLink,
            HonestReports, startVars, Terminal
<1>1. CASE LinkUp
    BY <1>1 DEF LinkUp, Listening, Apply
<1>2. CASE LinkDown
    BY <1>2 DEF LinkDown, Listening
<1>3. CASE GraceElapses
    <2>1. grace = TRUE /\ grace' = FALSE /\ phase' = phase /\ overwritten' = overwritten
            /\ link' = link /\ told' = told /\ muted' = muted
        BY <1>3 DEF GraceElapses
    <2>2. CASE state \in {"Stopped", "Degraded"}
        <3>1. UNCHANGED state /\ telling' \in {telling, "none"}
            BY <1>3, <2>2 DEF GraceElapses, Apply
        <3> QED
            BY <2>1, <2>2, <3>1
    <2>3. CASE state \in {"Starting", "Running"}
        <3>1. state' = "Degraded" /\ telling' = "Degraded"
            BY <1>3, <2>3 DEF GraceElapses, Apply
        <3>2. LifecycleTypeOK' /\ QuietBeforeStream' /\ ReportsFollowLink'
            BY <2>1, <2>3, <3>1
        <3>3. HonestReports'
            BY <2>1, <2>3, <3>1
        <3> QED
            BY <3>2, <3>3
    <2> QED
        BY <2>2, <2>3
<1>4. CASE Tell
    BY <1>4 DEF Tell
<1> QED
    BY <1>1, <1>2, <1>3, <1>4

(* A rejected credential and the other writers of the daemon-connection     *)
(* data point keep the invariant.                                           *)
LEMMA OtherWritersInv ==
    ASSUME LifecycleInv, CredentialRefused \/ ReauthRefused \/ DaemonStatusPush \/ HubReconcile
    PROVE  LifecycleInv'
<1> USE DEF LifecycleInv, LifecycleTypeOK, QuietBeforeStream, ReportsFollowLink,
            HonestReports, startVars, haVars, Listening
<1>1. CASE CredentialRefused
    BY <1>1 DEF CredentialRefused, Terminal
<1>2. CASE ReauthRefused
    BY <1>2 DEF ReauthRefused, Terminal
<1>3. CASE DaemonStatusPush \/ HubReconcile
    BY <1>3 DEF DaemonStatusPush, HubReconcile
<1> QED
    BY <1>1, <1>2, <1>3

(* Settled, the state of the central follows the stream and HA knows it; a  *)
(* stopped central stays stopped; a flap inside the grace window is never   *)
(* reported (start, stop, _on_connection_event, _apply_connection_state,    *)
(* _degrade_after_grace).                                                   *)
THEOREM LifecycleFollowsStream == LifecycleSpec => []StateFollowsStream
<1>1. LifecycleInit => LifecycleInv
    BY LifecycleInitInv
<1>2. LifecycleInv /\ [LifecycleNext]_lifecycleVars => LifecycleInv'
    <2> SUFFICES ASSUME LifecycleInv, [LifecycleNext]_lifecycleVars
                 PROVE  LifecycleInv'
        OBVIOUS
    <2>1. CASE UNCHANGED lifecycleVars
        BY <2>1 DEF LifecycleInv, LifecycleTypeOK, QuietBeforeStream, ReportsFollowLink,
                    HonestReports, lifecycleVars
    <2> QED
        BY <2>1, StartStopInv, LinkEventsInv, OtherWritersInv DEF LifecycleNext
<1>3. LifecycleInv => StateFollowsStream
    BY DEF LifecycleInv, LifecycleTypeOK, QuietBeforeStream, ReportsFollowLink, HonestReports,
           StateFollowsStream, Settled
<1> QED
    BY <1>1, <1>2, <1>3, PTL DEF LifecycleSpec

-----------------------------------------------------------------------------
(***************************************************************************)
(* WsSession: the subscription set and the in-band token swap.             *)
(***************************************************************************)
TopicFrames  == [op : {"subscribe", "unsubscribe"}, arg : SUBSET Topics]
ReauthFrames == [op : {"reauth"}, arg : Calls]
Acks         == [op : {"reauth_ok", "reauth_failed"}, arg : Calls]

SessionTypeOK ==
    /\ open \in BOOLEAN
    /\ subs \in SUBSET Topics /\ hubSubs \in SUBSET Topics
    /\ ack \in Calls \cup {NoCall}
    /\ call \in [Calls -> {"idle", "sent", "ok", "no", "accepted", "rejected", "lost"}]
    /\ up \in Seq(TopicFrames \cup ReauthFrames)
    /\ down \in Seq(Acks)
    /\ accepted \in SUBSET Calls /\ alone \in SUBSET Calls

(* Frame i on the way to the daemon is about topic t.                       *)
Mentions(frames, i, t) == frames[i].op # "reauth" /\ t \in frames[i].arg

(* What the daemon will hold of topic t once it has handled the frames: the *)
(* last frame about t decides, or what the daemon holds now.                *)
WillHold(frames, held, t) ==
    \/ \E i \in 1 .. Len(frames) :
          /\ Mentions(frames, i, t) /\ frames[i].op = "subscribe"
          /\ \A j \in i + 1 .. Len(frames) : ~Mentions(frames, j, t)
    \/ t \in held /\ \A i \in 1 .. Len(frames) : ~Mentions(frames, i, t)

(* The frames in flight close the gap between the two subscription sets.    *)
FlightCloses == open => \A t \in Topics : WillHold(up, hubSubs, t) <=> t \in subs

(* While a call that overlapped no other waits, every reauth and every ack  *)
(* in flight is its own; an ack of success stands for an accepted token,    *)
(* and so does a success already taken in.                                  *)
AcksAreOwn ==
    /\ \A i \in 1 .. Len(down) : down[i].op = "reauth_ok" => down[i].arg \in accepted
    /\ ack \in alone /\ call[ack] = "sent" =>
         /\ \A i \in 1 .. Len(up) : up[i].op = "reauth" => up[i].arg = ack
         /\ \A i \in 1 .. Len(down) : down[i].arg = ack
    /\ \A c \in alone : call[c] \in {"ok", "accepted"} => c \in accepted

(* The inductive invariant of one connection's session.                     *)
SessionInv == SessionTypeOK /\ FlightCloses /\ AcksAreOwn

(* A further frame decides the topics it is about and no other.             *)
LEMMA AppendedFrame ==
    ASSUME NEW frames \in Seq(TopicFrames \cup ReauthFrames), NEW held,
           NEW f \in TopicFrames \cup ReauthFrames, NEW t \in Topics
    PROVE  WillHold(Append(frames, f), held, t) <=>
             IF f.op # "reauth" /\ t \in f.arg THEN f.op = "subscribe"
             ELSE WillHold(frames, held, t)
<1> DEFINE more == Append(frames, f)
<1>1. /\ Len(more) = Len(frames) + 1 /\ Len(frames) \in Nat
      /\ more[Len(frames) + 1] = f
      /\ \A i \in 1 .. Len(frames) : more[i] = frames[i]
    OBVIOUS
<1>2. /\ \A i \in 1 .. Len(frames) : Mentions(more, i, t) <=> Mentions(frames, i, t)
      /\ Mentions(more, Len(more), t) <=> f.op # "reauth" /\ t \in f.arg
    BY <1>1 DEF Mentions
<1> HIDE DEF more
<1>3. CASE f.op # "reauth" /\ t \in f.arg
    <2>1. f.op = "subscribe" => WillHold(more, held, t)
        BY <1>1, <1>2, <1>3 DEF WillHold
    <2>2. WillHold(more, held, t) => f.op = "subscribe"
        BY <1>1, <1>2, <1>3 DEF WillHold
    <2> QED
        BY <1>3, <2>1, <2>2 DEF more
<1>4. CASE ~(f.op # "reauth" /\ t \in f.arg)
    <2>1. WillHold(more, held, t) => WillHold(frames, held, t)
        BY <1>1, <1>2, <1>4 DEF WillHold
    <2>2. WillHold(frames, held, t) => WillHold(more, held, t)
        BY <1>1, <1>2, <1>4 DEF WillHold
    <2> QED
        BY <1>4, <2>1, <2>2 DEF more
<1> QED
    BY <1>3, <1>4

(* The daemon's handling of the first frame changes nothing about what it   *)
(* will hold in the end.                                                    *)
LEMMA HandledFrame ==
    ASSUME NEW frames \in Seq(TopicFrames \cup ReauthFrames), frames # <<>>,
           NEW held, NEW now, NEW t \in Topics,
           t \in now <=> IF Mentions(frames, 1, t) THEN frames[1].op = "subscribe"
                         ELSE t \in held
    PROVE  WillHold(Tail(frames), now, t) <=> WillHold(frames, held, t)
<1> DEFINE rest == Tail(frames)
<1>1. /\ Len(frames) \in Nat /\ Len(frames) >= 1 /\ Len(rest) = Len(frames) - 1
      /\ \A i \in 1 .. Len(rest) : rest[i] = frames[i + 1]
    OBVIOUS
<1>2. \A i \in 1 .. Len(rest) : Mentions(rest, i, t) <=> Mentions(frames, i + 1, t)
    BY <1>1 DEF Mentions
<1> HIDE DEF rest
<1>3. ASSUME WillHold(rest, now, t) PROVE WillHold(frames, held, t)
    <2>1. CASE \E i \in 1 .. Len(rest) :
                  /\ Mentions(rest, i, t) /\ rest[i].op = "subscribe"
                  /\ \A j \in i + 1 .. Len(rest) : ~Mentions(rest, j, t)
        <3>1. PICK i \in 1 .. Len(rest) :
                  /\ Mentions(rest, i, t) /\ rest[i].op = "subscribe"
                  /\ \A j \in i + 1 .. Len(rest) : ~Mentions(rest, j, t)
            BY <2>1
        <3>2. i + 1 \in 1 .. Len(frames) /\ Mentions(frames, i + 1, t)
                /\ frames[i + 1].op = "subscribe"
            BY <1>1, <1>2, <3>1
        <3>3. ASSUME NEW j \in (i + 1) + 1 .. Len(frames) PROVE ~Mentions(frames, j, t)
            <4>1. j - 1 \in i + 1 .. Len(rest) /\ j - 1 \in 1 .. Len(rest) /\ (j - 1) + 1 = j
                BY <1>1, <3>3
            <4> QED
                BY <1>2, <3>1, <4>1
        <3> QED
            BY <3>2, <3>3 DEF WillHold
    <2>2. CASE t \in now /\ \A i \in 1 .. Len(rest) : ~Mentions(rest, i, t)
        <3>1. ASSUME NEW j \in 2 .. Len(frames) PROVE ~Mentions(frames, j, t)
            <4>1. j - 1 \in 1 .. Len(rest) /\ (j - 1) + 1 = j
                BY <1>1, <3>1
            <4> QED
                BY <1>2, <2>2, <4>1
        <3> QED
            BY <1>1, <2>2, <3>1 DEF WillHold
    <2> QED
        BY <1>3, <2>1, <2>2 DEF WillHold
<1>4. ASSUME WillHold(frames, held, t) PROVE WillHold(rest, now, t)
    <2>1. CASE \E i \in 1 .. Len(frames) :
                  /\ Mentions(frames, i, t) /\ frames[i].op = "subscribe"
                  /\ \A j \in i + 1 .. Len(frames) : ~Mentions(frames, j, t)
        <3>1. PICK i \in 1 .. Len(frames) :
                  /\ Mentions(frames, i, t) /\ frames[i].op = "subscribe"
                  /\ \A j \in i + 1 .. Len(frames) : ~Mentions(frames, j, t)
            BY <2>1
        <3>2. CASE i = 1
            BY <1>1, <1>2, <3>1, <3>2 DEF WillHold
        <3>3. CASE i # 1
            <4>1. i - 1 \in 1 .. Len(rest) /\ (i - 1) + 1 = i
                BY <1>1, <3>3
            <4>2. Mentions(rest, i - 1, t) /\ rest[i - 1].op = "subscribe"
                BY <1>1, <1>2, <3>1, <4>1
            <4>3. \A j \in (i - 1) + 1 .. Len(rest) : ~Mentions(rest, j, t)
                BY <1>1, <1>2, <3>1, <4>1
            <4> QED
                BY <4>1, <4>2, <4>3 DEF WillHold
        <3> QED
            BY <3>2, <3>3
    <2>2. CASE t \in held /\ \A i \in 1 .. Len(frames) : ~Mentions(frames, i, t)
        BY <1>1, <1>2, <2>2 DEF WillHold
    <2> QED
        BY <1>4, <2>1, <2>2 DEF WillHold
<1> QED
    BY <1>3, <1>4 DEF rest

-----------------------------------------------------------------------------
(* A session that was never open has nothing in flight.                     *)
LEMMA SessionInitInv == SessionInit => SessionInv
<1> SUFFICES ASSUME SessionInit PROVE SessionInv
    OBVIOUS
<1>1. SessionTypeOK
    <2>1. up \in Seq(TopicFrames \cup ReauthFrames) /\ down \in Seq(Acks)
        BY DEF SessionInit
    <2> QED
        BY <2>1 DEF SessionInit, SessionTypeOK
<1>2. FlightCloses
    BY DEF SessionInit, FlightCloses
<1>3. AcksAreOwn
    BY SessionAssumption DEF SessionInit, AcksAreOwn
<1> QED
    BY <1>1, <1>2, <1>3 DEF SessionInv

(* subscribe() and unsubscribe(): the frame closes the gap the set opens.   *)
LEMMA TopicsInv ==
    ASSUME SessionInv, NEW T \in SUBSET Topics, Subscribe(T) \/ Unsubscribe(T)
    PROVE  SessionInv'
<1> DEFINE f == IF Subscribe(T) THEN Frame("subscribe", T \ subs)
                ELSE Frame("unsubscribe", T \cap subs)
<1>1. /\ f \in TopicFrames
      /\ up' = IF open THEN Append(up, f) ELSE up
      /\ subs' \in SUBSET Topics
      /\ \A t \in Topics : t \in subs' <=> IF t \in f.arg THEN f.op = "subscribe" ELSE t \in subs
      /\ UNCHANGED <<open, ack, call, down, hubSubs, accepted, alone>>
    BY DEF Subscribe, Unsubscribe, SendIfOpen, Frame, TopicFrames, SessionInv, SessionTypeOK
<1> HIDE DEF f
<1>2. f.op # "reauth"
    BY <1>1 DEF TopicFrames
<1>3. SessionTypeOK'
    BY <1>1 DEF SessionInv, SessionTypeOK
<1>4. FlightCloses'
    <2> SUFFICES ASSUME open', NEW t \in Topics
                 PROVE  (WillHold(up, hubSubs, t) <=> t \in subs)'
        BY DEF FlightCloses
    <2>1. WillHold(up', hubSubs, t) <=>
            IF t \in f.arg THEN f.op = "subscribe" ELSE WillHold(up, hubSubs, t)
        BY <1>1, <1>2, AppendedFrame DEF SessionInv, SessionTypeOK
    <2>2. WillHold(up, hubSubs, t) <=> t \in subs
        BY <1>1 DEF SessionInv, FlightCloses
    <2>3. WillHold(up, hubSubs, t)' <=> WillHold(up', hubSubs, t)
        BY <1>1 DEF WillHold, Mentions
    <2> QED
        BY <1>1, <2>1, <2>2, <2>3
<1>5. \A i \in 1 .. Len(up') : up'[i].op = "reauth" => i \in 1 .. Len(up) /\ up'[i] = up[i]
    BY <1>1, <1>2 DEF SessionInv, SessionTypeOK
<1>6. AcksAreOwn'
    BY <1>1, <1>5 DEF SessionInv, AcksAreOwn
<1> QED
    BY <1>3, <1>4, <1>6 DEF SessionInv

(* A connection opens with the whole set in flight; a lost one takes        *)
(* everything in flight with it.                                            *)
LEMMA OpenCutInv ==
    ASSUME SessionInv, Open \/ Cut
    PROVE  SessionInv'
<1> USE DEF SessionInv
<1>1. /\ down' = <<>> /\ open' \in BOOLEAN /\ hubSubs' \in SUBSET Topics
      /\ up' = <<>> \/ up' = <<Frame("subscribe", subs)>>
      /\ UNCHANGED <<subs, ack, call, accepted, alone>>
    BY DEF Open, Cut, SessionTypeOK
<1>5. Frame("subscribe", subs) \in TopicFrames
    BY DEF Frame, TopicFrames, SessionTypeOK
<1>6. SessionTypeOK'
    <2> DEFINE f == Frame("subscribe", subs)
    <2>1. f \in TopicFrames \cup ReauthFrames
        BY <1>5
    <2> HIDE DEF f
    <2>2. <<f>> \in Seq(TopicFrames \cup ReauthFrames)
          /\ <<>> \in Seq(TopicFrames \cup ReauthFrames) /\ <<>> \in Seq(Acks)
        BY <2>1
    <2>3. up' \in Seq(TopicFrames \cup ReauthFrames) /\ down' \in Seq(Acks)
        BY <1>1, <2>2 DEF f
    <2> QED
        BY <1>1, <2>3 DEF SessionTypeOK
<1>2. \A i \in 1 .. Len(up') : up'[i].op # "reauth"
    BY DEF Open, Cut, Frame
<1>3. AcksAreOwn'
    BY <1>1, <1>2 DEF AcksAreOwn
<1>4. FlightCloses'
    <2>1. CASE Cut
        BY <2>1 DEF Cut, FlightCloses
    <2>2. CASE Open
        BY <2>2 DEF Open, FlightCloses, WillHold, Mentions, Frame, SessionTypeOK
    <2> QED
        BY <2>1, <2>2
<1> QED
    BY <1>3, <1>4, <1>6

(* reauth(): the frame is the only one in doubt, or the call is not alone.  *)
LEMMA ReauthSendInv ==
    ASSUME SessionInv, NEW c \in Calls, ReauthSend(c)
    PROVE  SessionInv'
<1> DEFINE f == Frame("reauth", c)
<1>1. /\ f \in ReauthFrames /\ f.op = "reauth" /\ f.arg = c
      /\ up' = IF open THEN Append(up, f) ELSE up
      /\ ack' = IF open THEN c ELSE NoCall
      /\ call[c] = "idle"
      /\ call' = [call EXCEPT ![c] = IF open THEN "sent" ELSE "lost"]
      /\ alone' = IF InDoubt THEN alone \ ({c} \cup {d \in Calls : call[d] = "sent"}) ELSE alone
      /\ UNCHANGED <<open, subs, down, hubSubs, accepted>>
    BY DEF ReauthSend, SendIfOpen, Frame, ReauthFrames
<1> HIDE DEF f
<1>2. SessionTypeOK'
    BY <1>1 DEF SessionInv, SessionTypeOK
<1>3. FlightCloses'
    <2> SUFFICES ASSUME open', NEW t \in Topics
                 PROVE  (WillHold(up, hubSubs, t) <=> t \in subs)'
        BY DEF FlightCloses
    <2>1. WillHold(up', hubSubs, t) <=> WillHold(up, hubSubs, t)
        BY <1>1, AppendedFrame DEF SessionInv, SessionTypeOK
    <2>2. WillHold(up, hubSubs, t)' <=> WillHold(up', hubSubs, t)
        BY <1>1 DEF WillHold, Mentions
    <2> QED
        BY <1>1, <2>1, <2>2 DEF SessionInv, FlightCloses
<1>4. AcksAreOwn'
    <2>1. \A d \in alone' : d \in alone /\ (call'[d] \in {"ok", "accepted"} => call'[d] = call[d])
        BY <1>1 DEF SessionInv, SessionTypeOK
    <2>2. ASSUME ack' \in alone', call'[ack'] = "sent"
          PROVE  /\ \A i \in 1 .. Len(up') : up'[i].op = "reauth" => up'[i].arg = ack'
                 /\ \A i \in 1 .. Len(down') : down'[i].arg = ack'
        <3>1. open /\ ack' = c /\ ~InDoubt
            BY <1>1, <2>2, SessionAssumption DEF SessionInv, SessionTypeOK
        <3>2. /\ \A i \in 1 .. Len(up) : up[i].op # "reauth"
              /\ \A i \in 1 .. Len(down) : down[i].op \notin {"reauth_ok", "reauth_failed"}
            BY <3>1 DEF InDoubt
        <3>3. ASSUME NEW i \in 1 .. Len(down) PROVE FALSE
            <4>1. down[i] \in Acks
                BY DEF SessionInv, SessionTypeOK
            <4> QED
                BY <3>2, <4>1 DEF Acks
        <3> QED
            BY <1>1, <3>1, <3>2, <3>3 DEF SessionInv, SessionTypeOK
    <2> QED
        BY <1>1, <2>1, <2>2 DEF SessionInv, AcksAreOwn
<1> QED
    BY <1>2, <1>3, <1>4 DEF SessionInv

(* A reauth() that returns or times out leaves what is in flight alone.     *)
LEMMA ReauthEndsInv ==
    ASSUME SessionInv, NEW c \in Calls, ReauthReturn(c) \/ ReauthTimeout(c)
    PROVE  SessionInv'
<1>1. /\ ack' = NoCall
      /\ call' \in [Calls -> {"idle", "sent", "ok", "no", "accepted", "rejected", "lost"}]
      /\ \A d \in Calls : call'[d] \in {"ok", "accepted"} => call[d] \in {"ok", "accepted"}
      /\ UNCHANGED <<open, subs, up, down, hubSubs, accepted, alone>>
    BY DEF ReauthReturn, ReauthTimeout, SessionInv, SessionTypeOK
<1>2. NoCall \notin alone
    BY SessionAssumption DEF SessionInv, SessionTypeOK
<1>3. SessionTypeOK'
    BY <1>1 DEF SessionInv, SessionTypeOK
<1>4. FlightCloses'
    BY <1>1 DEF SessionInv, FlightCloses, WillHold, Mentions
<1>5. AcksAreOwn'
    BY <1>1, <1>2 DEF SessionInv, SessionTypeOK, AcksAreOwn
<1> QED
    BY <1>3, <1>4, <1>5 DEF SessionInv

(* _handle_control: the ack resolves the future that is pending; for a call *)
(* that overlapped no other it is the call's own.                           *)
LEMMA RecvAckInv ==
    ASSUME SessionInv, RecvAck
    PROVE  SessionInv'
<1> DEFINE f == Head(down)
<1>1. /\ down # <<>> /\ down' = Tail(down)
      /\ call' = IF ack # NoCall /\ call[ack] = "sent"
                   THEN [call EXCEPT ![ack] = IF f.op = "reauth_ok" THEN "ok" ELSE "no"]
                   ELSE call
      /\ UNCHANGED <<open, subs, ack, up, hubSubs, accepted, alone>>
    BY DEF RecvAck
<1>2. /\ down \in Seq(Acks) /\ Len(down) \in Nat /\ 1 \in 1 .. Len(down) /\ f = down[1]
      /\ Tail(down) \in Seq(Acks) /\ Len(Tail(down)) = Len(down) - 1
      /\ \A i \in 1 .. Len(Tail(down)) : Tail(down)[i] = down[i + 1] /\ i + 1 \in 1 .. Len(down)
    BY <1>1 DEF SessionInv, SessionTypeOK
<1>3. SessionTypeOK'
    BY <1>1, <1>2 DEF SessionInv, SessionTypeOK
<1>4. FlightCloses'
    BY <1>1 DEF SessionInv, FlightCloses, WillHold, Mentions
<1>5. AcksAreOwn'
    <2>1. \A i \in 1 .. Len(down') : down'[i].op = "reauth_ok" => down'[i].arg \in accepted'
        BY <1>1, <1>2 DEF SessionInv, AcksAreOwn
    <2>2. ~(ack' \in alone' /\ call'[ack'] = "sent")
        BY <1>1, SessionAssumption DEF SessionInv, SessionTypeOK
    <2>3. ASSUME NEW c \in alone', call'[c] \in {"ok", "accepted"} PROVE c \in accepted'
        <3>1. CASE call'[c] = call[c]
            BY <1>1, <2>3, <3>1 DEF SessionInv, AcksAreOwn
        <3>2. CASE call'[c] # call[c]
            <4>1. c = ack /\ call[ack] = "sent" /\ f.op = "reauth_ok"
                BY <1>1, <2>3, <3>2 DEF SessionInv, SessionTypeOK
            <4>2. f.arg = ack
                BY <1>1, <1>2, <2>3, <4>1 DEF SessionInv, AcksAreOwn
            <4>3. f.arg \in accepted
                BY <1>2, <4>1 DEF SessionInv, AcksAreOwn
            <4> QED
                BY <1>1, <4>1, <4>2, <4>3
        <3> QED
            BY <3>1, <3>2
    <2> QED
        BY <2>1, <2>2, <2>3 DEF AcksAreOwn
<1> QED
    BY <1>3, <1>4, <1>5 DEF SessionInv

(* The daemon takes the first frame: it holds no more of it than it will,   *)
(* and answers a reauth under the name of the call.                         *)
LEMMA DaemonHandlesInv ==
    ASSUME SessionInv, DaemonHandles
    PROVE  SessionInv'
<1> DEFINE f == Head(up)
           answer == Frame(IF f.arg \in Valid THEN "reauth_ok" ELSE "reauth_failed", f.arg)
<1>1. /\ up # <<>> /\ up' = Tail(up)
      /\ hubSubs' = CASE f.op = "subscribe"   -> hubSubs \cup f.arg
                      [] f.op = "unsubscribe" -> hubSubs \ f.arg
                      [] f.op = "reauth"      -> hubSubs
      /\ down' = IF f.op # "reauth" THEN down ELSE Append(down, answer)
      /\ accepted' = IF f.op = "reauth" /\ f.arg \in Valid THEN accepted \cup {f.arg}
                     ELSE accepted
      /\ UNCHANGED <<open, subs, ack, call, alone>>
    BY DEF DaemonHandles
<1>2. /\ up \in Seq(TopicFrames \cup ReauthFrames) /\ Len(up) \in Nat
      /\ 1 \in 1 .. Len(up) /\ f = up[1] /\ f \in TopicFrames \cup ReauthFrames
      /\ Tail(up) \in Seq(TopicFrames \cup ReauthFrames) /\ Len(Tail(up)) = Len(up) - 1
      /\ \A i \in 1 .. Len(Tail(up)) : Tail(up)[i] = up[i + 1] /\ i + 1 \in 1 .. Len(up)
    BY <1>1 DEF SessionInv, SessionTypeOK
<1> HIDE DEF f, answer
<1>3. CASE f \in TopicFrames
    <2>1. f.op \in {"subscribe", "unsubscribe"} /\ f.arg \in SUBSET Topics
        BY <1>3 DEF TopicFrames
    <2>2. /\ hubSubs' \in SUBSET Topics
          /\ \A t \in Topics : t \in hubSubs' <=>
               IF t \in f.arg THEN f.op = "subscribe" ELSE t \in hubSubs
          /\ down' = down /\ accepted' = accepted
        BY <1>1, <2>1 DEF SessionInv, SessionTypeOK
    <2>3. SessionTypeOK'
        BY <1>1, <1>2, <2>2 DEF SessionInv, SessionTypeOK
    <2>4. FlightCloses'
        <3> SUFFICES ASSUME open', NEW t \in Topics
                     PROVE  (WillHold(up, hubSubs, t) <=> t \in subs)'
            BY DEF FlightCloses
        <3>1. WillHold(Tail(up), hubSubs', t) <=> WillHold(up, hubSubs, t)
            BY <1>1, <1>2, <2>1, <2>2, HandledFrame DEF Mentions
        <3>2. WillHold(up, hubSubs, t)' <=> WillHold(Tail(up), hubSubs', t)
            BY <1>1 DEF WillHold, Mentions
        <3> QED
            BY <1>1, <3>1, <3>2 DEF SessionInv, FlightCloses
    <2>5. AcksAreOwn'
        BY <1>1, <1>2, <2>2 DEF SessionInv, AcksAreOwn
    <2> QED
        BY <2>3, <2>4, <2>5 DEF SessionInv
<1>4. CASE f \in ReauthFrames
    <2>1. f.op = "reauth" /\ f.arg \in Calls
        BY <1>4 DEF ReauthFrames
    <2>2. /\ answer \in Acks /\ answer.arg = f.arg
          /\ answer.op = "reauth_ok" <=> f.arg \in Valid
        BY <2>1 DEF answer, Frame, Acks
    <2>3. /\ hubSubs' = hubSubs /\ down' = Append(down, answer)
          /\ accepted' = IF f.arg \in Valid THEN accepted \cup {f.arg} ELSE accepted
        BY <1>1, <2>1
    <2>4. /\ down' \in Seq(Acks) /\ Len(down) \in Nat /\ Len(down') = Len(down) + 1
          /\ down'[Len(down) + 1] = answer
          /\ \A i \in 1 .. Len(down) : down'[i] = down[i]
        BY <2>2, <2>3 DEF SessionInv, SessionTypeOK
    <2>5. SessionTypeOK'
        BY <1>1, <1>2, <2>1, <2>3, <2>4 DEF SessionInv, SessionTypeOK
    <2>6. FlightCloses'
        <3> SUFFICES ASSUME open', NEW t \in Topics
                     PROVE  (WillHold(up, hubSubs, t) <=> t \in subs)'
            BY DEF FlightCloses
        <3>1. WillHold(Tail(up), hubSubs', t) <=> WillHold(up, hubSubs, t)
            BY <1>1, <1>2, <2>1, <2>3, HandledFrame DEF Mentions
        <3>2. WillHold(up, hubSubs, t)' <=> WillHold(Tail(up), hubSubs', t)
            BY <1>1 DEF WillHold, Mentions
        <3> QED
            BY <1>1, <3>1, <3>2 DEF SessionInv, FlightCloses
    <2>7. AcksAreOwn'
        <3>1. ASSUME NEW i \in 1 .. Len(down') PROVE i \in 1 .. Len(down) \/ down'[i] = answer
            BY <2>4, <3>1
        <3>2. \A i \in 1 .. Len(down') : down'[i].op = "reauth_ok" => down'[i].arg \in accepted'
            BY <2>2, <2>3, <2>4, <3>1 DEF SessionInv, AcksAreOwn
        <3>3. ASSUME ack' \in alone', call'[ack'] = "sent"
              PROVE  /\ \A i \in 1 .. Len(up') : up'[i].op = "reauth" => up'[i].arg = ack'
                     /\ \A i \in 1 .. Len(down') : down'[i].arg = ack'
            BY <1>1, <1>2, <2>1, <2>2, <2>4, <3>1, <3>3 DEF SessionInv, AcksAreOwn
        <3>4. \A c \in alone' : call'[c] \in {"ok", "accepted"} => c \in accepted'
            BY <1>1, <2>3 DEF SessionInv, AcksAreOwn
        <3> QED
            BY <3>2, <3>3, <3>4 DEF AcksAreOwn
    <2> QED
        BY <2>5, <2>6, <2>7 DEF SessionInv
<1> QED
    BY <1>2, <1>3, <1>4

(* Every step of the session keeps the invariant.                           *)
LEMMA SessionStepInv == SessionInv /\ [SessionNext]_sessionVars => SessionInv'
<1> SUFFICES ASSUME SessionInv, [SessionNext]_sessionVars PROVE SessionInv'
    OBVIOUS
<1>1. CASE UNCHANGED sessionVars
    <2>1. UNCHANGED <<open, subs, ack, call, up, down, hubSubs, accepted, alone>>
        BY <1>1 DEF sessionVars
    <2> QED
        BY <2>1 DEF SessionInv, SessionTypeOK, FlightCloses, AcksAreOwn, WillHold, Mentions
<1> QED
    BY <1>1, TopicsInv, OpenCutInv, ReauthSendInv, ReauthEndsInv, RecvAckInv, DaemonHandlesInv
    DEF SessionNext

(* With nothing in flight the daemon's subscription set is the client's,    *)
(* and a reauth() that overlapped no other returns success only for a token *)
(* the daemon accepted (subscribe, unsubscribe, _connect_once, reauth,      *)
(* _handle_control).                                                        *)
THEOREM SessionSetsAgree == SessionSpec => []SessionAgrees
<1>1. SessionInit => SessionInv
    BY SessionInitInv
<1>2. SessionInv => SessionAgrees
    <2> SUFFICES ASSUME SessionInv PROVE SessionAgrees
        OBVIOUS
    <2>1. ASSUME open, up = <<>> PROVE hubSubs = subs
        <3>1. \A t \in Topics : t \in hubSubs <=> t \in subs
            BY <2>1 DEF SessionInv, FlightCloses, WillHold
        <3> QED
            BY <3>1 DEF SessionInv, SessionTypeOK
    <2>2. \A c \in alone : call[c] = "accepted" => c \in accepted
        BY DEF SessionInv, AcksAreOwn
    <2> QED
        BY <2>1, <2>2 DEF SessionAgrees
<1> QED
    BY <1>1, <1>2, SessionStepInv, PTL DEF SessionSpec

-----------------------------------------------------------------------------
(***************************************************************************)
(* Onboarding: whom a token is issued to, and who an error names.          *)
(***************************************************************************)
OnboardingTypeOK ==
    /\ setup \in [flavour : {"daemon", "box"}, tls : BOOLEAN, given : BOOLEAN]
    /\ path \in DOMAIN Paths
    /\ result \in [state : {"none", "approved", "rejected", "expired"}, token : BOOLEAN]
    /\ issued \in {"none", "hidden", "shown", "approved", "delivered", "rejected", "expired",
                   "withdrawn"}

(* Two independent checks stand before a token: the administrator approves  *)
(* only codes that agree, and a session is handed out only when the         *)
(* fingerprint of the answer is the certificate's.                          *)
ChecksPassed ==
    /\ issued \in {"approved", "delivered"} => CodesAgree
    /\ stage \in {"open", "polling"} => ~FingerprintMismatch(Paths[path])
    /\ result.token => path \in SafePaths
    /\ result.state = "approved" /\ setup.flavour = "box" => result.token

(* The request sent carries the credential of its flavour to its issuer.    *)
SentToIssuer ==
    /\ sent.credential \in {"token", "box_token"} =>
        /\ sent.port = IssuerPort
        /\ (sent.credential = "box_token") <=> (setup.flavour = "box")
        /\ (sent.prefix # Nothing) <=> (setup.flavour = "box")
    /\ stage = "sent" => ((sent.credential = "box_token") <=> (setup.flavour = "box"))

(* The inductive invariant of an onboarding.                                *)
OnboardingInv == OnboardingTypeOK /\ ChecksPassed /\ SentToIssuer /\ AnswererIsNamed

(* Codes that agree over a certificate the answer names: only the issuer's  *)
(* own certificate, or none where the issuer binds to none, passes both.    *)
LEMMA BothChecksMeanSafe ==
    ASSUME path \in DOMAIN Paths, CodesAgree, ~FingerprintMismatch(Paths[path])
    PROVE  path \in SafePaths
<1>1. path \in {"direct", "plain", "proxied", "relayed", "renamed"}
    BY DEF Paths
<1>2. ASSUME path = "relayed" PROVE FALSE
    BY <1>2 DEF Paths, FingerprintMismatch, Nothing
<1>3. ASSUME path = "renamed" PROVE FALSE
    BY <1>3 DEF Paths, CodesAgree, DerivePairingCode
<1> QED
    BY <1>1, <1>2, <1>3 DEF SafePaths

(* A problem document never becomes one of the box's errors.                *)
LEMMA ProblemsAreTheDaemons ==
    ASSUME NEW problem
    PROVE  HttpErrorFromProblem(problem) \notin {"LoomBoxGateError", "LoomBoxTokenError", "box_gate"}
BY DEF HttpErrorFromProblem, CodeToException

(* gate_refusal: the gate's redirects and pages are the gate's, whatever    *)
(* the daemon answers is not.                                               *)
LEMMA GateAnswersAreRefusals ==
    ASSUME NEW a \in GateAnswers
    PROVE  a.by = "gate" /\ GateRefusal(a) \in {"LoomBoxGateError", "LoomBoxTokenError"}
BY DEF GateAnswers, Answer, GateRefusal, NoError

LEMMA DaemonAnswersAreNone ==
    ASSUME NEW a \in DaemonAnswers
    PROVE  a.by = "daemon" /\ GateRefusal(a) = NoError
<1>1. /\ a.by = "daemon" /\ a.status # 302
      /\ a.type = "problem" \/ (a.type = "json" /\ a.status = 200)
    BY DEF DaemonAnswers, ErrorAnswers, Answer
<1>2. GateRefusal(a) = NoError
    BY <1>1 DEF GateRefusal
<1> QED
    BY <1>1, <1>2

(* A client that has no credential yet.                                     *)
LEMMA OnboardingInitInv == OnboardingInit => OnboardingInv
<1> SUFFICES ASSUME OnboardingInit PROVE OnboardingInv
    OBVIOUS
<1>1. OnboardingTypeOK
    BY OnboardingAssumption DEF OnboardingInit, OnboardingTypeOK, NoResult
<1>2. ChecksPassed
    BY DEF OnboardingInit, ChecksPassed, NoResult
<1>3. SentToIssuer
    BY DEF OnboardingInit, SentToIssuer, NotSent
<1>4. AnswererIsNamed
    BY DEF OnboardingInit, AnswererIsNamed, NoVerdict
<1> QED
    BY <1>1, <1>2, <1>3, <1>4 DEF OnboardingInv

(* probe_daemon names the gate for the gate's answers only.                 *)
LEMMA ProbeInv ==
    ASSUME OnboardingInv, Probe
    PROVE  OnboardingInv'
<1>1. UNCHANGED <<setup, path, stage, failure, issued, revealed, result, waits, slowDowns,
                  sent, verdict>>
    BY DEF Probe
<1>2. (probed'.by = "gate") <=> (probed'.class = "box_gate")
    <2>1. CASE probed' = [by |-> "none", class |-> "LoomTransportError"]
        BY <2>1
    <2>2. ASSUME NEW a \in GateAnswers \union DaemonAnswers, NEW v \in BOOLEAN,
                 probed' = [by |-> a.by, class |-> ProbeDaemon(a, v)]
          PROVE  (probed'.by = "gate") <=> (probed'.class = "box_gate")
        <3>1. CASE a \in GateAnswers
            <4>1. a.by = "gate" /\ GateRefusal(a) # NoError
                BY <3>1, GateAnswersAreRefusals DEF NoError
            <4> QED
                BY <2>2, <4>1 DEF ProbeDaemon
        <3>2. CASE a \in DaemonAnswers
            <4>1. a.by = "daemon" /\ GateRefusal(a) = NoError
                BY <3>2, DaemonAnswersAreNone
            <4>2. HttpErrorFromProblem(a.problem) # "box_gate"
                BY ProblemsAreTheDaemons
            <4>3. ProbeDaemon(a, v) # "box_gate"
                BY <4>1, <4>2 DEF ProbeDaemon
            <4> QED
                BY <2>2, <4>1, <4>3
        <3> QED
            BY <3>1, <3>2
    <2> QED
        BY <2>1, <2>2 DEF Probe
<1> QED
    BY <1>1, <1>2 DEF OnboardingInv, OnboardingTypeOK, ChecksPassed, SentToIssuer,
                      AnswererIsNamed, CodesAgree, IssuerPort

(* The pairing request, its answer, the fingerprint check and a withdrawal. *)
LEMMA AskingInv ==
    ASSUME OnboardingInv, Ask \/ Accepted \/ Refused \/ Check \/ AbortWithdraws \/ Withdraw
    PROVE  OnboardingInv'
<1>1. /\ UNCHANGED <<setup, path, probed, result, sent, verdict>>
      /\ issued' \in {issued, "hidden", "withdrawn"}
      /\ stage' # "sent" /\ stage' # "polling"
      /\ stage' = "open" => ~FingerprintMismatch(Paths[path])
    BY DEF Ask, Accepted, Refused, Check, AbortWithdraws, Withdraw, Ends
<1> QED
    BY <1>1 DEF OnboardingInv, OnboardingTypeOK, ChecksPassed, SentToIssuer, AnswererIsNamed,
                CodesAgree, IssuerPort

(* wait(): an answered poll hands a token out only when both checks passed. *)
LEMMA WaitingInv ==
    ASSUME OnboardingInv, Wait \/ PollAnswered \/ SlowDown \/ PollFails
    PROVE  OnboardingInv'
<1>1. /\ UNCHANGED <<setup, path, probed, sent, verdict>>
      /\ stage' # "sent"
      /\ stage' \in {"open", "polling"} => stage \in {"open", "polling"}
    BY DEF Wait, PollAnswered, SlowDown, PollFails, Ends
<1>2. /\ issued' \in {"none", "hidden", "shown", "approved", "delivered", "rejected", "expired",
                      "withdrawn"}
      /\ issued' \in {"approved", "delivered"} => issued \in {"approved", "delivered"}
    BY DEF Wait, PollAnswered, SlowDown, PollFails, Delivered, Seen, OnboardingInv,
           OnboardingTypeOK
<1>3. \/ UNCHANGED result
      \/ /\ stage = "polling"
         /\ result' = [state |-> StateOf(Seen), token |-> Seen = "approved"]
         /\ ~(setup.flavour = "box" /\ StateOf(Seen) = "approved" /\ Seen # "approved")
         /\ Concluded(StateOf(Seen)) /\ issued # "withdrawn"
    BY DEF Wait, PollAnswered, SlowDown, PollFails
<1>4. ChecksPassed' /\ OnboardingTypeOK'
    <2>1. CASE UNCHANGED result
        BY <1>1, <1>2, <2>1 DEF OnboardingInv, OnboardingTypeOK, ChecksPassed, CodesAgree
    <2>2. CASE ~UNCHANGED result
        <3>1. Seen = "approved" => path \in SafePaths
            BY <1>3, <2>2, BothChecksMeanSafe DEF OnboardingInv, OnboardingTypeOK, ChecksPassed,
               Seen
        <3>2. Seen \in {"shown", "hidden", "none", "approved", "delivered", "rejected", "expired"}
            BY <1>3, <2>2 DEF OnboardingInv, OnboardingTypeOK, Seen
        <3>5. /\ Seen \in {"hidden", "shown"} => StateOf(Seen) = "pending"
              /\ Seen \in {"approved", "delivered"} => StateOf(Seen) = "approved"
              /\ Seen \in {"none", "rejected", "expired"} => StateOf(Seen) = Seen
            BY DEF StateOf
        <3>6. result' = [state |-> StateOf(Seen), token |-> Seen = "approved"]
              /\ StateOf(Seen) \in {"none", "approved", "rejected", "expired"}
            BY <1>3, <2>2, <3>2, <3>5 DEF Concluded
        <3>3. OnboardingTypeOK'
            BY <1>1, <1>2, <3>6 DEF OnboardingInv, OnboardingTypeOK
        <3>4. ChecksPassed'
            BY <1>1, <1>2, <1>3, <2>2, <3>1, <3>6
            DEF OnboardingInv, ChecksPassed, CodesAgree
        <3> QED
            BY <3>3, <3>4
    <2> QED
        BY <2>1, <2>2
<1>5. SentToIssuer' /\ AnswererIsNamed'
    BY <1>1 DEF OnboardingInv, SentToIssuer, AnswererIsNamed, IssuerPort
<1> QED
    BY <1>4, <1>5 DEF OnboardingInv

(* The administrator and the issuer's clock.                                *)
LEMMA IssuerInv ==
    ASSUME OnboardingInv, AdministratorDecides \/ RequestExpires
    PROVE  OnboardingInv'
<1>1. /\ UNCHANGED <<setup, path, probed, stage, result, sent, verdict>>
      /\ issued' \in {"approved", "rejected", "expired"}
      /\ issued' = "approved" => CodesAgree
    BY DEF AdministratorDecides, RequestExpires
<1> QED
    BY <1>1 DEF OnboardingInv, OnboardingTypeOK, ChecksPassed, SentToIssuer, AnswererIsNamed,
                CodesAgree, IssuerPort

(* CentralConfig, list_ccus and the headers: the token goes back to its     *)
(* issuer in the form of its flavour.                                       *)
LEMMA ConfigureInv ==
    ASSUME OnboardingInv, Configure
    PROVE  OnboardingInv'
<1>1. /\ UNCHANGED <<setup, path, probed, issued, result, verdict>>
      /\ result.state = "approved"
      /\ stage' \in {"ended", "sent"}
    BY DEF Configure, Ends
<1>2. SentToIssuer'
    <2>1. PICK login \in BOOLEAN, auth \in {"central", "list"} :
            LET kw == Keywords(login)
                resolved == IF auth = "central" THEN ResolveAuth(kw) ELSE ListAuth(kw)
            IN  IF resolved = "ValueError"
                THEN Ends("ValueError") /\ UNCHANGED sent
                ELSE /\ sent' = [port |-> Authority(kw), prefix |-> IngressPrefix(kw),
                                 credential |-> BuildHeaders(kw, resolved)]
                     /\ stage' = "sent"
                     /\ UNCHANGED failure
        BY DEF Configure
    <2> DEFINE kw == Keywords(login)
               resolved == IF auth = "central" THEN ResolveAuth(kw) ELSE ListAuth(kw)
    <2>2. CASE resolved = "ValueError"
        BY <1>1, <2>1, <2>2 DEF Ends, OnboardingInv, SentToIssuer, IssuerPort
    <2>3. CASE resolved # "ValueError"
        <3>1. /\ sent' = [port |-> Authority(kw), prefix |-> IngressPrefix(kw),
                          credential |-> BuildHeaders(kw, resolved)]
              /\ UNCHANGED setup
            BY <1>1, <2>1, <2>3
        <3>2. CASE setup.flavour = "box"
            <4>1. /\ kw.boxToken = TRUE
                  /\ kw.boxPort = IF setup.given THEN GivenPort ELSE 0
                BY <1>1, <3>2 DEF OnboardingInv, ChecksPassed, OnboardingTypeOK, Keywords
            <4>2. /\ BuildHeaders(kw, resolved) = "box_token"
                  /\ IngressPrefix(kw) # Nothing /\ Authority(kw) = IssuerPort
                BY <3>2, <4>1 DEF BuildHeaders, IngressPrefix, Authority, IssuerPort, GivenPort,
                   Nothing
            <4> QED
                BY <3>1, <3>2, <4>2 DEF SentToIssuer, IssuerPort
        <3>3. CASE setup.flavour # "box"
            <4>1. /\ kw.boxToken = FALSE
                  /\ kw.port = IF setup.given THEN GivenPort ELSE 0
                BY <3>3 DEF OnboardingInv, OnboardingTypeOK, Keywords
            <4>2. resolved \in {"BearerAuth", "BasicAuth"}
                BY <2>3, <4>1 DEF ResolveAuth, ListAuth
            <4>3. /\ BuildHeaders(kw, resolved) # "box_token"
                  /\ IngressPrefix(kw) = Nothing /\ Authority(kw) = IssuerPort
                BY <3>3, <4>1, <4>2 DEF BuildHeaders, AuthHeader, IngressPrefix, Authority,
                   IssuerPort, GivenPort
            <4> QED
                BY <3>1, <3>3, <4>3 DEF SentToIssuer, IssuerPort
        <3> QED
            BY <3>2, <3>3
    <2> QED
        BY <2>2, <2>3
<1> QED
    BY <1>1, <1>2 DEF OnboardingInv, OnboardingTypeOK, ChecksPassed, AnswererIsNamed, CodesAgree

(* The answer to the first request: the gate's is told from the daemon's.   *)
LEMMA RequestAnsweredInv ==
    ASSUME OnboardingInv, RequestAnswered
    PROVE  OnboardingInv'
<1>1. UNCHANGED <<setup, path, probed, issued, result, sent>> /\ stage = "sent" /\ stage' = "ended"
    BY DEF RequestAnswered
<1>2. PICK a \in (IF setup.flavour = "box" THEN GateAnswers ELSE {}) \union DaemonAnswers :
          verdict' = [by |-> a.by, class |-> Classify(a)]
    BY DEF RequestAnswered
<1>3. (verdict'.by = "gate") <=> (verdict'.class \in {"LoomBoxGateError", "LoomBoxTokenError"})
    <2>1. CASE a \in DaemonAnswers
        BY <1>2, <2>1, DaemonAnswersAreNone, ProblemsAreTheDaemons DEF Classify
    <2>2. CASE a \notin DaemonAnswers
        <3>1. a \in GateAnswers /\ sent.credential = "box_token"
            BY <1>1, <1>2, <2>2 DEF OnboardingInv, SentToIssuer
        <3> QED
            BY <1>2, <3>1, GateAnswersAreRefusals DEF Classify, NoError
    <2> QED
        BY <2>1, <2>2
<1> QED
    BY <1>1, <1>3 DEF OnboardingInv, OnboardingTypeOK, ChecksPassed, SentToIssuer,
                      AnswererIsNamed, CodesAgree, IssuerPort

LEMMA OnboardingStepInv == OnboardingInv /\ [OnboardingNext]_obVars => OnboardingInv'
<1> SUFFICES ASSUME OnboardingInv, [OnboardingNext]_obVars PROVE OnboardingInv'
    OBVIOUS
<1>1. CASE UNCHANGED obVars
    BY <1>1 DEF obVars, OnboardingInv, OnboardingTypeOK, ChecksPassed, SentToIssuer,
                AnswererIsNamed, CodesAgree, IssuerPort
<1> QED
    BY <1>1, ProbeInv, AskingInv, WaitingInv, IssuerInv, ConfigureInv, RequestAnsweredInv
    DEF OnboardingNext

(* A token reaches the client only over a safe path, and is sent back only  *)
(* to its issuer, in the form of its flavour (start_pairing,                *)
(* start_box_pairing, derive_pairing_code, CentralConfig,                   *)
(* LoomConfig._authority).                                                  *)
THEOREM OnboardingTokenIsBound == OnboardingSpec => []TokenIsBound
<1>1. OnboardingInit => OnboardingInv
    BY OnboardingInitInv
<1>2. OnboardingInv => TokenIsBound
    BY DEF OnboardingInv, ChecksPassed, SentToIssuer, TokenIsBound
<1> QED
    BY <1>1, <1>2, OnboardingStepInv, PTL DEF OnboardingSpec

(* The exception class names who refused (gate_refusal,                     *)
(* _raise_on_gate_bounce, http_error_from_problem, probe_daemon).           *)
THEOREM OnboardingAnswererIsNamed == OnboardingSpec => []AnswererIsNamed
<1>1. OnboardingInit => OnboardingInv
    BY OnboardingInitInv
<1>2. OnboardingInv => AnswererIsNamed
    BY DEF OnboardingInv
<1> QED
    BY <1>1, <1>2, OnboardingStepInv, PTL DEF OnboardingSpec

-----------------------------------------------------------------------------
(***************************************************************************)
(* HeldDevices: no held device is stranded.                                *)
(***************************************************************************)
HeldPushes == {Inbox} \cup [op : {"device"}, addr : Addresses]
SyncStates ==
    {Idle} \cup [pc : {"waiting", "reading"}] \cup [pc : {"read"}, seen : SUBSET Addresses]
           \cup [pc : {"publishing"}, todo : SUBSET Addresses]

HeldTypeOK ==
    /\ inbox \in SUBSET Addresses
    /\ heldPushes \in Seq(HeldPushes)
    /\ sync \in [Callers -> SyncStates]
    /\ timer \in BOOLEAN /\ closed \in BOOLEAN

(* The daemon pushes the inbox last, after every change of it.              *)
InboxComesLast == heldPushes # <<>> => heldPushes[Len(heldPushes)] = Inbox

(* sync() holds its lock from its read to the end.                          *)
Past(c) == sync[c].pc \notin {"idle", "waiting"}
OneHolder == \A c, d \in Callers : Past(c) /\ Past(d) => c = d

(* A plain sync will still read the inbox as it is now.                     *)
Owed ==
    \/ heldPushes # <<>>
    \/ \E c \in {"push", "hook"} : sync[c].pc \in {"waiting", "reading"}

(* With no read owed, the sync that runs knows the inbox as it is, and a is *)
(* in the right set or is about to be put there.                            *)
UpToDate(a) ==
    /\ \A c \in Callers : sync[c].pc = "read" => (a \in sync[c].seen <=> a \in inbox)
    /\ \A c \in Callers : sync[c].pc = "publishing" /\ a \in sync[c].todo => a \in inbox
    /\ a \in inbox => \/ a \in announced \cup declined
                      \/ \E c \in Callers : \/ sync[c].pc = "read"
                                            \/ sync[c].pc = "publishing" /\ a \in sync[c].todo
    /\ a \in announced /\ a \notin inbox => \E c \in Callers : sync[c].pc = "read"

(* A declined address has its re-sync, and is not announced.                *)
HasResync(a) ==
    a \in declined => timer \/ sync["timer"].pc \in {"waiting", "reading", "read"}

Tracked(a) ==
    /\ ~(a \in announced /\ a \in declined)
    /\ HasResync(a)
    /\ Owed \/ UpToDate(a)

(* The inductive invariant of the announcer.                                *)
HeldInv ==
    /\ HeldTypeOK /\ InboxComesLast /\ OneHolder
    /\ ~closed => \A a \in Addresses \ excused : Tracked(a)

(* What a step that writes one caller's sync() leaves of the others.        *)
LEMMA OneSyncMoves ==
    ASSUME HeldTypeOK, NEW c \in Callers, NEW s \in SyncStates,
           sync' = [sync EXCEPT ![c] = s]
    PROVE  /\ sync' \in [Callers -> SyncStates]
           /\ sync'[c] = s
           /\ \A d \in Callers : d # c => sync'[d] = sync[d]
BY DEF HeldTypeOK

(* The queue of pushes grows by an inbox push and shrinks from the front.   *)
LEMMA PushesEndInbox ==
    ASSUME HeldTypeOK, InboxComesLast,
           \/ \E p \in HeldPushes : heldPushes' = heldPushes \o <<p, Inbox>>
           \/ heldPushes' = Append(heldPushes, Inbox)
           \/ heldPushes # <<>> /\ heldPushes' = Tail(heldPushes)
           \/ heldPushes' = <<>>
           \/ heldPushes' = heldPushes
    PROVE  heldPushes' \in Seq(HeldPushes) /\ InboxComesLast'
<1>1. Inbox \in HeldPushes /\ heldPushes \in Seq(HeldPushes) /\ Len(heldPushes) \in Nat
    BY DEF HeldPushes, HeldTypeOK
<1>2. CASE \E p \in HeldPushes : heldPushes' = heldPushes \o <<p, Inbox>>
    <2>1. PICK p \in HeldPushes : heldPushes' = heldPushes \o <<p, Inbox>>
        BY <1>2
    <2> DEFINE two == <<p, Inbox>>
    <2>2. two \in Seq(HeldPushes) /\ Len(two) = 2 /\ two[2] = Inbox
        BY <1>1
    <2> HIDE DEF two
    <2>5. /\ heldPushes \o two \in Seq(HeldPushes)
          /\ Len(heldPushes \o two) = Len(heldPushes) + Len(two)
          /\ \A i \in 1 .. Len(heldPushes) + Len(two) : (heldPushes \o two)[i] =
                 IF i <= Len(heldPushes) THEN heldPushes[i] ELSE two[i - Len(heldPushes)]
        BY <1>1, <2>2, ConcatProperties, Zenon
    <2>3. /\ Len(heldPushes \o two) = Len(heldPushes) + 2
          /\ (heldPushes \o two)[Len(heldPushes) + 2] = two[2]
        BY <1>1, <2>2, <2>5
    <2>4. heldPushes' = heldPushes \o two
        BY <2>1 DEF two
    <2> QED
        BY <2>2, <2>3, <2>4, <2>5 DEF InboxComesLast
<1>3. CASE heldPushes' = Append(heldPushes, Inbox)
    BY <1>1, <1>3 DEF InboxComesLast
<1>4. CASE heldPushes # <<>> /\ heldPushes' = Tail(heldPushes)
    <2>1. /\ Tail(heldPushes) \in Seq(HeldPushes) /\ Len(heldPushes) >= 1
          /\ Len(Tail(heldPushes)) = Len(heldPushes) - 1
          /\ Tail(heldPushes) # <<>> => Len(heldPushes) - 1 \in 1 .. Len(Tail(heldPushes))
          /\ \A i \in 1 .. Len(Tail(heldPushes)) : Tail(heldPushes)[i] = heldPushes[i + 1]
        BY <1>1, <1>4
    <2>2. ASSUME Tail(heldPushes) # <<>>
          PROVE  Tail(heldPushes)[Len(Tail(heldPushes))] = Inbox
        <3>1. Tail(heldPushes)[Len(heldPushes) - 1] = heldPushes[(Len(heldPushes) - 1) + 1]
            BY <2>1, <2>2
        <3>2. (Len(heldPushes) - 1) + 1 = Len(heldPushes)
            BY <1>1
        <3> QED
            BY <1>4, <2>1, <3>1, <3>2 DEF InboxComesLast
    <2> QED
        BY <1>4, <2>1, <2>2 DEF InboxComesLast
<1>5. CASE heldPushes' = <<>>
    <2>1. <<>> \in Seq(HeldPushes)
        OBVIOUS
    <2> QED
        BY <1>5, <2>1 DEF InboxComesLast
<1>6. CASE heldPushes' = heldPushes
    BY <1>1, <1>6 DEF InboxComesLast
<1> QED
    BY <1>2, <1>3, <1>4, <1>5, <1>6

(* An announcer that has not synced yet.                                    *)
LEMMA HeldInitInv == HeldInit => HeldInv
<1> SUFFICES ASSUME HeldInit PROVE HeldInv
    OBVIOUS
<1>1. heldPushes = <<>> /\ inbox = {} /\ announced = {} /\ declined = {}
      /\ timer = FALSE /\ closed = FALSE /\ \A c \in Callers : sync[c] = Idle
    BY DEF HeldInit
<1>2. HeldTypeOK
    <2>1. heldPushes \in Seq(HeldPushes)
        BY <1>1
    <2> QED
        BY <1>1, <2>1 DEF HeldInit, HeldTypeOK, SyncStates
<1>3. OneHolder
    BY <1>1 DEF OneHolder, Past, Idle
<1>4. \A a \in Addresses : Tracked(a)
    BY <1>1 DEF Tracked, HasResync, UpToDate, Idle
<1> QED
    BY <1>1, <1>2, <1>3, <1>4 DEF HeldInv, InboxComesLast

(* The daemon changes its inbox and pushes it: a read is owed.              *)
LEMMA DaemonInv ==
    ASSUME HeldInv, NEW a \in Addresses, DaemonHolds(a) \/ DaemonFrees(a)
    PROVE  HeldInv'
<1> DEFINE p == [op |-> "device", addr |-> a]
<1>1. /\ \/ heldPushes' = heldPushes \o <<p, Inbox>>
         \/ heldPushes' = Append(heldPushes, Inbox)
      /\ inbox' \in SUBSET Addresses
      /\ UNCHANGED <<announced, declined, timer, sync, closed, excused>>
    BY DEF DaemonHolds, DaemonFrees, HeldInv, HeldTypeOK, setVars
<1>2. p \in HeldPushes
    BY DEF HeldPushes
<1>3. heldPushes' \in Seq(HeldPushes) /\ InboxComesLast'
    BY <1>1, <1>2, PushesEndInbox DEF HeldInv
<1>4. heldPushes' # <<>>
    BY <1>1 DEF HeldInv, HeldTypeOK
<1> QED
    BY <1>1, <1>3, <1>4 DEF HeldInv, HeldTypeOK, OneHolder, Past, Tracked, HasResync, Owed

(* Home Assistant confirms without a name; decline() schedules a re-sync.   *)
LEMMA AnswersInv ==
    ASSUME HeldInv, NEW a \in Addresses, HaConfirms(a) \/ AnswerReads(a) \/ Decline(a)
    PROVE  HeldInv'
<1>1. UNCHANGED <<inbox, heldPushes, sync, closed, excused>>
    BY DEF HaConfirms, AnswerReads, Decline, daemonVars
<1>2. CASE UNCHANGED <<announced, declined, timer>>
    BY <1>1, <1>2 DEF HeldInv, HeldTypeOK, InboxComesLast, OneHolder, Past, Tracked, HasResync,
                      Owed, UpToDate
<1>3. CASE Decline(a)
    <2>1. announced' = announced \ {a} /\ declined' = declined \cup {a} /\ timer' = TRUE
        BY <1>3 DEF Decline
    <2>2. ASSUME ~closed, NEW b \in Addresses \ excused PROVE Tracked(b)'
        <3>1. Tracked(b)
            BY <2>2 DEF HeldInv
        <3> QED
            BY <1>1, <2>1, <3>1 DEF Tracked, HasResync, Owed, UpToDate
    <2> QED
        BY <1>1, <2>1, <2>2 DEF HeldInv, HeldTypeOK, InboxComesLast, OneHolder, Past
<1> QED
    BY <1>2, <1>3 DEF HaConfirms, AnswerReads, setVars

(* An inbox push is turned into a sync, a device event takes its address    *)
(* out of the announced set with an inbox push behind it, lost pushes are   *)
(* made good by the hook, and the timer becomes the re-sync.                *)
LEMMA PushesInv ==
    ASSUME HeldInv, OnInboxChanged \/ OnDeviceArrivedOrLeft \/ Rebootstrap \/ TimerFires
    PROVE  HeldInv'
<1> DEFINE waiting == [pc |-> "waiting"]
<1>1. waiting \in SyncStates /\ waiting.pc = "waiting" /\ Idle.pc = "idle"
      /\ {"push", "hook", "timer"} = Callers
    BY DEF SyncStates, Callers, Idle
<1>2. HeldTypeOK /\ InboxComesLast /\ OneHolder
    BY DEF HeldInv
<1>3. heldPushes' \in Seq(HeldPushes) /\ InboxComesLast'
    BY <1>2, PushesEndInbox DEF OnInboxChanged, OnDeviceArrivedOrLeft, Rebootstrap, TimerFires,
       daemonVars
<1>4. CASE OnInboxChanged \/ Rebootstrap
    <2>1. PICK c \in {"push", "hook"} : sync[c] = Idle /\ sync' = [sync EXCEPT ![c] = waiting]
        BY <1>4 DEF OnInboxChanged, Rebootstrap
    <2>2. UNCHANGED <<inbox, announced, declined, timer, closed, excused>>
        BY <1>4 DEF OnInboxChanged, Rebootstrap, setVars
    <2>3. /\ sync' \in [Callers -> SyncStates] /\ sync'[c] = waiting
          /\ \A d \in Callers : d # c => sync'[d] = sync[d]
        BY <1>1, <1>2, <2>1, OneSyncMoves
    <2>4. OneHolder'
        BY <1>1, <1>2, <2>1, <2>3 DEF OneHolder, Past
    <2>5. Owed' /\ sync'["timer"] = sync["timer"]
        BY <1>1, <2>1, <2>3 DEF Owed
    <2> QED
        BY <1>2, <1>3, <2>2, <2>3, <2>4, <2>5 DEF HeldInv, HeldTypeOK, Tracked, HasResync
<1>5. CASE OnDeviceArrivedOrLeft
    <2>1. /\ heldPushes # <<>> /\ Head(heldPushes).op = "device"
          /\ heldPushes' = Tail(heldPushes)
          /\ announced' \in SUBSET announced
          /\ UNCHANGED <<inbox, declined, timer, sync, closed, excused>>
        BY <1>5 DEF OnDeviceArrivedOrLeft
    <2>2. heldPushes' # <<>>
        <3>1. heldPushes[1].op = "device" /\ heldPushes[Len(heldPushes)].op = "inbox"
            BY <1>2, <2>1 DEF HeldTypeOK, InboxComesLast, Inbox
        <3>2. Len(heldPushes) \in Nat /\ Len(heldPushes) # 0 /\ Len(heldPushes) # 1
            BY <1>2, <2>1, <3>1 DEF HeldTypeOK
        <3>3. Len(Tail(heldPushes)) = Len(heldPushes) - 1
            BY <1>2, <2>1 DEF HeldTypeOK
        <3>4. Len(heldPushes') # 0
            BY <2>1, <3>2, <3>3
        <3> QED
            BY <3>4
    <2> QED
        BY <1>2, <1>3, <2>1, <2>2 DEF HeldInv, HeldTypeOK, OneHolder, Past, Tracked, HasResync, Owed
<1>6. CASE TimerFires
    <2>1. /\ sync["timer"] = Idle /\ sync' = [sync EXCEPT !["timer"] = waiting]
          /\ timer' = FALSE
          /\ UNCHANGED <<inbox, heldPushes, announced, declined, closed, excused>>
        BY <1>6 DEF TimerFires, daemonVars, setVars
    <2>2. /\ sync' \in [Callers -> SyncStates] /\ sync'["timer"] = waiting
          /\ \A d \in Callers : d # "timer" => sync'[d] = sync[d]
        BY <1>1, <1>2, <2>1, OneSyncMoves
    <2>3. OneHolder'
        BY <1>1, <1>2, <2>1, <2>2 DEF OneHolder, Past
    <2>4. ASSUME ~closed, NEW a \in Addresses \ excused PROVE Tracked(a)'
        <3>1. Tracked(a)
            BY <2>4 DEF HeldInv
        <3>2. HasResync(a)'
            BY <1>1, <2>2 DEF HasResync
        <3>3. Owed => Owed'
            BY <1>1, <2>1, <2>2 DEF Owed
        <3>4. UpToDate(a) => UpToDate(a)'
            BY <1>1, <2>1, <2>2 DEF UpToDate
        <3> QED
            BY <2>1, <3>1, <3>2, <3>3, <3>4 DEF Tracked
    <2> QED
        BY <1>2, <1>3, <2>1, <2>2, <2>3, <2>4 DEF HeldInv, HeldTypeOK
<1> QED
    BY <1>4, <1>5, <1>6

(* The lock is taken only when nobody holds it.                             *)
LEMMA TakesLockInv ==
    ASSUME HeldInv, NEW c \in Callers, TakesLock(c)
    PROVE  HeldInv'
<1> DEFINE reading == [pc |-> "reading"]
<1>1. reading \in SyncStates /\ reading.pc = "reading"
    BY DEF SyncStates
<1>2. /\ sync[c].pc = "waiting" /\ \A d \in Callers : sync[d].pc \in {"idle", "waiting"}
      /\ sync' = [sync EXCEPT ![c] = reading]
      /\ UNCHANGED <<inbox, heldPushes, announced, declined, timer, closed, excused>>
    BY DEF TakesLock, daemonVars, setVars
<1>3. /\ sync' \in [Callers -> SyncStates] /\ sync'[c] = reading
      /\ \A d \in Callers : d # c => sync'[d] = sync[d]
    BY <1>1, <1>2, OneSyncMoves DEF HeldInv
<1> HIDE DEF reading
<1>4. OneHolder'
    BY <1>1, <1>2, <1>3 DEF OneHolder, Past
<1>5. ASSUME ~closed, NEW a \in Addresses \ excused PROVE Tracked(a)'
    <2>1. Tracked(a)
        BY <1>5 DEF HeldInv
    <2>2. HasResync(a)'
        BY <1>1, <1>2, <1>3, <2>1 DEF Tracked, HasResync, Callers
    <2>3. Owed => Owed'
        BY <1>1, <1>2, <1>3 DEF Owed, Callers
    <2>4. UpToDate(a) => UpToDate(a)'
        BY <1>1, <1>2, <1>3 DEF UpToDate
    <2> QED
        BY <1>2, <2>1, <2>2, <2>3, <2>4 DEF Tracked
<1> QED
    BY <1>2, <1>3, <1>4, <1>5 DEF HeldInv, HeldTypeOK, InboxComesLast

(* A read sees the inbox as it is; one that fails leaves the re-sync        *)
(* scheduled, or is the excuse.                                             *)
LEMMA InboxReadInv ==
    ASSUME HeldInv, NEW c \in Callers, InboxRead(c)
    PROVE  HeldInv'
<1> DEFINE read == [pc |-> "read", seen |-> inbox]
<1>1. /\ sync[c].pc = "reading" /\ sync' = [sync EXCEPT ![c] = read]
      /\ UNCHANGED <<inbox, heldPushes, announced, declined, timer, closed, excused>>
    BY DEF InboxRead, daemonVars, setVars
<1>2. read \in SyncStates /\ read.pc = "read" /\ read.seen = inbox
    BY DEF SyncStates, HeldInv, HeldTypeOK
<1>3. /\ sync' \in [Callers -> SyncStates] /\ sync'[c] = read
      /\ \A d \in Callers : d # c => sync'[d] = sync[d]
    BY <1>1, <1>2, OneSyncMoves DEF HeldInv
<1> HIDE DEF read
<1>4. \A d \in Callers : d # c => sync[d].pc \in {"idle", "waiting"}
    BY <1>1 DEF HeldInv, OneHolder, Past
<1>5. OneHolder'
    BY <1>1, <1>3, <1>4 DEF OneHolder, Past
<1>6. ASSUME ~closed, NEW a \in Addresses \ excused PROVE Tracked(a)'
    <2>1. Tracked(a)
        BY <1>6 DEF HeldInv
    <2>2. HasResync(a)'
        BY <1>1, <1>2, <1>3, <2>1 DEF Tracked, HasResync, Callers
    <2>3. UpToDate(a)'
        BY <1>1, <1>2, <1>3, <1>4 DEF UpToDate
    <2> QED
        BY <1>1, <2>1, <2>2, <2>3 DEF Tracked
<1> QED
    BY <1>1, <1>3, <1>5, <1>6 DEF HeldInv, HeldTypeOK, InboxComesLast

LEMMA InboxFailsInv ==
    ASSUME HeldInv, NEW c \in Callers, InboxFails(c)
    PROVE  HeldInv'
<1>1. /\ sync[c].pc = "reading" /\ sync' = [sync EXCEPT ![c] = Idle]
      /\ timer' \in BOOLEAN
      /\ timer => timer'
      /\ c = "timer" /\ declined # {} => timer'
      /\ excused' = IF c = "timer" THEN excused ELSE Addresses
      /\ UNCHANGED <<inbox, heldPushes, announced, declined, closed>>
    BY DEF InboxFails, daemonVars, setVars, HeldInv, HeldTypeOK
<1>2. Idle \in SyncStates /\ Idle.pc = "idle"
    BY DEF SyncStates, Idle
<1>3. /\ sync' \in [Callers -> SyncStates] /\ sync'[c] = Idle
      /\ \A d \in Callers : d # c => sync'[d] = sync[d]
    BY <1>1, <1>2, OneSyncMoves DEF HeldInv
<1>4. OneHolder'
    BY <1>2, <1>3 DEF HeldInv, OneHolder, Past
<1>5. ASSUME ~closed, NEW a \in Addresses \ excused' PROVE Tracked(a)'
    <2>1. c = "timer" /\ Tracked(a)
        BY <1>1, <1>5 DEF HeldInv
    <2>2. HasResync(a)'
        BY <1>1, <1>3, <2>1 DEF HasResync
    <2>3. Owed => Owed'
        BY <1>1, <1>3, <2>1 DEF Owed, Callers
    <2>4. UpToDate(a) => UpToDate(a)'
        BY <1>1, <1>2, <1>3 DEF UpToDate
    <2> QED
        BY <1>1, <2>1, <2>2, <2>3, <2>4 DEF Tracked
<1> QED
    BY <1>1, <1>3, <1>4, <1>5 DEF HeldInv, HeldTypeOK, InboxComesLast

(* One step of the publishing loop: what is announced, declined and left to *)
(* publish covers the inbox before it, and does after it.                   *)
LEMMA DeliverInv ==
    ASSUME HeldInv, NEW c \in Callers, sync[c].pc \in {"read", "publishing"},
           NEW ann, NEW dec, NEW todo \in SUBSET Addresses,
           Deliver(c, ann, dec, todo), UNCHANGED <<inbox, heldPushes, closed>>,
           ~closed => \A a \in Addresses \ excused :
               /\ ~(a \in ann /\ a \in dec)
               /\ a \in dec => timer \/ (c # "timer" /\ sync["timer"].pc = "waiting")
               /\ \/ Owed
                  \/ /\ a \in ann \cup todo => a \in inbox
                     /\ a \in inbox => a \in ann \cup dec \cup todo
    PROVE  HeldInv'
<1>1. \A d \in Callers : d # c => sync[d].pc \in {"idle", "waiting"}
    BY DEF HeldInv, OneHolder, Past
<1>2. PICK s \in SyncStates :
        /\ sync' = [sync EXCEPT ![c] = s]
        /\ announced' \in {ann} \cup {ann \cup {x} : x \in todo} /\ declined' = dec
        /\ timer' \in BOOLEAN
        /\ dec # {} /\ timer => timer'
        /\ \/ s = Idle /\ todo = {} /\ announced' = ann /\ excused' = excused
           \/ \E x \in todo : /\ s = [pc |-> "publishing", todo |-> todo \ {x}]
                              /\ announced' = ann \cup {x}
                              /\ excused' = excused \cup ({x} \cap dec)
    <2>1. CASE todo = {}
        <3>1. Idle \in SyncStates
            BY DEF SyncStates
        <3> QED
            BY <2>1, <3>1 DEF Deliver
    <2>2. CASE todo # {}
        <3>1. PICK x \in todo :
                /\ announced' = ann \cup {x} /\ declined' = dec
                /\ sync' = [sync EXCEPT ![c] = [pc |-> "publishing", todo |-> todo \ {x}]]
                /\ excused' = excused \cup ({x} \cap dec)
                /\ timer' = timer
            BY <2>2 DEF Deliver
        <3>2. [pc |-> "publishing", todo |-> todo \ {x}] \in SyncStates
            BY DEF SyncStates
        <3> QED
            BY <3>1, <3>2 DEF HeldInv, HeldTypeOK
    <2> QED
        BY <2>1, <2>2
<1>3. /\ sync' \in [Callers -> SyncStates] /\ sync'[c] = s
      /\ \A d \in Callers : d # c => sync'[d] = sync[d]
    BY <1>2, OneSyncMoves DEF HeldInv
<1>4. OneHolder'
    BY <1>1, <1>3 DEF OneHolder, Past
<1>5. Owed => Owed'
    BY <1>3 DEF Owed, Callers
<1>6. ASSUME ~closed, NEW a \in Addresses \ excused' PROVE Tracked(a)'
    <2>1. /\ a \notin excused
          /\ ~(a \in ann /\ a \in dec)
          /\ a \in dec => timer \/ (c # "timer" /\ sync["timer"].pc = "waiting")
          /\ \/ Owed
             \/ /\ a \in ann \cup todo => a \in inbox
                /\ a \in inbox => a \in ann \cup dec \cup todo
        BY <1>2, <1>6
    <2>2. ~(a \in announced' /\ a \in declined')
        BY <1>2, <1>6, <2>1
    <2>3. HasResync(a)'
        BY <1>2, <1>3, <2>1 DEF HasResync, Callers
    <2>4. ASSUME ~Owed PROVE UpToDate(a)'
        <3>1. /\ a \in ann \cup todo => a \in inbox
              /\ a \in inbox => a \in ann \cup dec \cup todo
            BY <2>1, <2>4
        <3>2. CASE s = Idle
            <4>1. \A d \in Callers : sync'[d].pc \in {"idle", "waiting"}
                BY <1>1, <1>3, <3>2 DEF Idle
            <4>2. todo = {} /\ announced' = ann
                BY <1>2, <3>2 DEF Idle
            <4> QED
                BY <1>2, <3>1, <4>1, <4>2 DEF UpToDate
        <3>3. ASSUME NEW x \in todo, s = [pc |-> "publishing", todo |-> todo \ {x}],
                     announced' = ann \cup {x}
              PROVE  UpToDate(a)'
            <4>1. s.pc = "publishing" /\ s.todo = todo \ {x}
                BY <3>3
            <4> QED
                BY <1>1, <1>2, <1>3, <3>1, <3>3, <4>1 DEF UpToDate
        <3> QED
            BY <1>2, <3>2, <3>3
    <2> QED
        BY <1>5, <2>2, <2>3, <2>4 DEF Tracked
<1> QED
    BY <1>2, <1>3, <1>4, <1>6 DEF HeldInv, HeldTypeOK, InboxComesLast

(* sync() after its read, and after each publish.                           *)
LEMMA SyncInv ==
    ASSUME HeldInv, NEW c \in Callers, SyncApplies(c) \/ PublishReturns(c)
    PROVE  HeldInv'
<1>1. UNCHANGED <<inbox, heldPushes, closed>>
    BY DEF SyncApplies, PublishReturns, daemonVars
<1>2. sync[c].pc \in {"read", "publishing"}
    BY DEF SyncApplies, PublishReturns
<1>3. \A d \in Callers : d # c => sync[d].pc \in {"idle", "waiting"}
    BY <1>2 DEF HeldInv, OneHolder, Past
<1>4. sync[c] \in SyncStates
    BY DEF HeldInv, HeldTypeOK
<1>5. CASE SyncApplies(c)
    <2> DEFINE seen == sync[c].seen
               ann  == announced \cap seen
               todo == seen \ (ann \cup IF c = "timer" THEN {} ELSE declined \cap seen)
               dec  == (declined \cap seen) \ todo
    <2>1. Deliver(c, ann, dec, todo) /\ sync[c].pc = "read"
        BY <1>5 DEF SyncApplies
    <2>2. todo \in SUBSET Addresses
        BY <1>4, <2>1 DEF SyncStates, Idle
    <2>3. ASSUME ~closed, NEW a \in Addresses \ excused
          PROVE  /\ ~(a \in ann /\ a \in dec)
                 /\ a \in dec => timer \/ (c # "timer" /\ sync["timer"].pc = "waiting")
                 /\ \/ Owed
                    \/ /\ a \in ann \cup todo => a \in inbox
                       /\ a \in inbox => a \in ann \cup dec \cup todo
        <3>1. Tracked(a)
            BY <2>3 DEF HeldInv
        <3>2. a \in dec => timer \/ (c # "timer" /\ sync["timer"].pc = "waiting")
            BY <1>3, <3>1 DEF Tracked, HasResync, Callers
        <3>3. UpToDate(a) => (a \in seen <=> a \in inbox)
            BY <2>1 DEF UpToDate
        <3> QED
            BY <3>1, <3>2, <3>3 DEF Tracked
    <2> HIDE DEF ann, dec, todo
    <2> QED
        BY <1>1, <1>2, <2>1, <2>2, <2>3, DeliverInv
<1>6. CASE PublishReturns(c)
    <2> DEFINE todo == sync[c].todo
    <2>1. Deliver(c, announced, declined, todo) /\ sync[c].pc = "publishing"
        BY <1>6 DEF PublishReturns
    <2>2. todo \in SUBSET Addresses
        BY <1>4, <2>1 DEF SyncStates, Idle
    <2>3. ASSUME ~closed, NEW a \in Addresses \ excused
          PROVE  /\ ~(a \in announced /\ a \in declined)
                 /\ a \in declined => timer \/ (c # "timer" /\ sync["timer"].pc = "waiting")
                 /\ \/ Owed
                    \/ /\ a \in announced \cup todo => a \in inbox
                       /\ a \in inbox => a \in announced \cup declined \cup todo
        <3>1. Tracked(a)
            BY <2>3 DEF HeldInv
        <3>2. \A d \in Callers : sync[d].pc # "read" /\ (sync[d].pc = "publishing" => d = c)
            BY <1>3, <2>1
        <3>3. a \in declined => timer \/ (c # "timer" /\ sync["timer"].pc = "waiting")
            BY <1>3, <2>1, <3>1 DEF Tracked, HasResync, Callers
        <3>4. UpToDate(a) => /\ a \in announced \cup todo => a \in inbox
                             /\ a \in inbox => a \in announced \cup declined \cup todo
            BY <2>1, <3>2 DEF UpToDate
        <3> QED
            BY <3>1, <3>3, <3>4 DEF Tracked
    <2> HIDE DEF todo
    <2> QED
        BY <1>1, <1>2, <2>1, <2>2, <2>3, DeliverInv
<1> QED
    BY <1>5, <1>6

(* stop() ends the announcer; nothing is claimed of a closed one but its    *)
(* lock.                                                                    *)
LEMMA CloseInv ==
    ASSUME HeldInv, Close
    PROVE  HeldInv'
<1>1. /\ closed' = TRUE /\ timer' = FALSE /\ UNCHANGED <<inbox, heldPushes>>
      /\ sync' = [sync EXCEPT !["push"] = Idle, !["hook"] = Idle]
    BY DEF Close, daemonVars
<1>2. Idle \in SyncStates /\ Idle.pc = "idle"
    BY DEF SyncStates, Idle
<1>3. /\ sync' \in [Callers -> SyncStates]
      /\ \A d \in Callers : sync'[d] = Idle \/ sync'[d] = sync[d]
    BY <1>1, <1>2 DEF HeldInv, HeldTypeOK, Callers
<1>4. OneHolder'
    BY <1>2, <1>3 DEF HeldInv, OneHolder, Past
<1> QED
    BY <1>1, <1>3, <1>4 DEF HeldInv, HeldTypeOK, InboxComesLast

LEMMA HeldStepInv == HeldInv /\ [HeldNext]_heldVars => HeldInv'
<1> SUFFICES ASSUME HeldInv, [HeldNext]_heldVars PROVE HeldInv'
    OBVIOUS
<1>1. CASE UNCHANGED heldVars
    <2>1. UNCHANGED <<inbox, heldPushes, announced, declined, timer, sync, closed, excused>>
        BY <1>1 DEF heldVars, daemonVars, setVars
    <2> QED
        BY <2>1 DEF HeldInv, HeldTypeOK, InboxComesLast, OneHolder, Past, Tracked, HasResync,
                    Owed, UpToDate
<1> QED
    BY <1>1, DaemonInv, AnswersInv, PushesInv, TakesLockInv, InboxReadInv, InboxFailsInv, SyncInv,
       CloseInv
    DEF HeldNext

(* At rest no held device is stranded and no freed one is taken for held,   *)
(* but for the two excuses; and one sync() at a time is past its lock       *)
(* (HeldDeviceAnnouncer.sync, decline, forget, _resync_after_delay).        *)
THEOREM HeldNoneStranded == HeldSpec => []NoneStranded
<1>1. HeldInit => HeldInv
    BY HeldInitInv
<1>2. HeldInv => NoneStranded
    <2> SUFFICES ASSUME HeldInv PROVE NoneStranded
        OBVIOUS
    <2> DEFINE holders == {c \in Callers : sync[c].pc \notin {"idle", "waiting"}}
    <2>1. Cardinality(holders) <= 1
        <3>1. CASE holders = {}
            <4>1. Cardinality({}) = 0
                BY FS_EmptySet
            <4> HIDE DEF holders
            <4> QED
                BY <3>1, <4>1
        <3>2. CASE holders # {}
            <4>1. PICK c \in holders : holders = {c}
                BY <3>2 DEF HeldInv, OneHolder, Past
            <4>2. Cardinality({c}) = 1
                BY FS_Singleton
            <4> HIDE DEF holders
            <4>3. Cardinality(holders) = 1
                BY <4>1, <4>2
            <4> QED
                BY <4>3
        <3> QED
            BY <3>1, <3>2
    <2>2. ASSUME AtRest, NEW a \in Addresses \ excused
          PROVE  (a \in announced <=> a \in inbox \ declined) /\ (a \in declined => timer)
        <3>1. Tracked(a) /\ heldPushes = <<>>
            BY <2>2 DEF AtRest, HeldInv
        <3>2. \A c \in Callers : sync[c].pc = "idle"
            BY <2>2 DEF AtRest, Idle
        <3>3. ~Owed /\ UpToDate(a) /\ HasResync(a)
            BY <3>1, <3>2 DEF Tracked, Owed, Callers
        <3> QED
            BY <3>1, <3>2, <3>3 DEF UpToDate, HasResync, Tracked, Callers
    <2> QED
        BY <2>1, <2>2 DEF NoneStranded
<1> QED
    BY <1>1, <1>2, HeldStepInv, PTL DEF HeldSpec

-----------------------------------------------------------------------------
(***************************************************************************)
(* HttpTransport: sessions                                                 *)
(*                                                                         *)
(* close() takes the open session first and clears the attribute later.    *)
(* While no connect() has come between, nothing is open in that gap, so    *)
(* what the attribute then forgets is closed.                              *)
(***************************************************************************)
OpenSessionTypeOK ==
    /\ session \in Nat /\ sessions \in Nat /\ unclosed \subseteq Nat \ {0}
    /\ sessionClosing \in BOOLEAN /\ overlapped \in BOOLEAN /\ info \in BOOLEAN

OneSession ==
    overlapped = FALSE =>
        /\ unclosed \subseteq {session}
        /\ info = TRUE => session # 0
        /\ sessionClosing = TRUE => unclosed = {}

SessionsInv == OpenSessionTypeOK /\ OneSession

LEMMA SessionsStepInv == SessionsInv /\ [HttpNext]_httpVars => SessionsInv'
<1> SUFFICES ASSUME SessionsInv, [HttpNext]_httpVars PROVE SessionsInv'
    OBVIOUS
<1> USE DEF SessionsInv, OpenSessionTypeOK, OneSession
<1>1. ASSUME UNCHANGED lifeVars PROVE SessionsInv'
    BY <1>1 DEF lifeVars
<1>2. CASE ConnectBegins
    <2>1. CASE UNCHANGED <<session, unclosed, overlapped, sessions>>
        BY <1>2, <2>1 DEF ConnectBegins
    <2>2. CASE /\ session \notin unclosed
               /\ session' = sessions + 1 /\ sessions' = sessions + 1
               /\ unclosed' = unclosed \cup {sessions + 1}
               /\ overlapped' = (overlapped \/ sessionClosing)
        <3>1. sessionClosing' = sessionClosing /\ info' = info
            BY <1>2 DEF ConnectBegins
        <3>2. overlapped' \in BOOLEAN
              /\ (overlapped' = FALSE => overlapped = FALSE /\ sessionClosing = FALSE)
            BY <2>2
        <3>3. OpenSessionTypeOK'
            BY <2>2, <3>1, <3>2
        <3>4. OneSession'
            BY <2>2, <3>1, <3>2
        <3> QED
            BY <3>3, <3>4
    <2> QED
        BY <1>2, <2>1, <2>2 DEF ConnectBegins, IsConnected
<1>3. CASE ConnectSucceeds
    BY <1>3 DEF ConnectSucceeds
<1>4. CASE ConnectFails
    <2>1. /\ \/ unclosed' = unclosed \ {session} /\ session' = 0
             \/ unclosed' = unclosed /\ session' = session
          /\ sessions' = sessions /\ sessionClosing' = sessionClosing
          /\ overlapped' = overlapped /\ info' = FALSE
        BY <1>4 DEF ConnectFails
    <2>2. OpenSessionTypeOK'
        <3>1. session' \in Nat /\ sessions' \in Nat
            BY <2>1
        <3>3. unclosed' \subseteq unclosed
            BY <2>1
        <3>2. sessionClosing' \in BOOLEAN /\ overlapped' \in BOOLEAN /\ info' \in BOOLEAN
            BY <2>1
        <3> QED
            BY <3>1, <3>2, <3>3
    <2>3. OneSession'
        BY <2>1
    <2> QED
        BY <2>2, <2>3
<1>5. CASE CloseBegins
    BY <1>5 DEF CloseBegins, IsConnected
<1>6. CASE CloseEnds
    BY <1>6 DEF CloseEnds
<1>7. CASE \E r \in Requests :
          \/ \E kind \in RequestKinds : RequestBegins(r, kind)
          \/ Wakes(r)
          \/ Answers(r) \/ Refuses(r) \/ FailsTransiently(r)
          \/ LosesSession(r) \/ TimesOut(r)
          \/ \E size \in ChunkSizes : ReadsChunk(r, size)
    <2>1. UNCHANGED lifeVars
        BY <1>7 DEF RequestBegins, Wakes, Answers, Refuses, FailsTransiently, LosesSession,
                    TimesOut, ReadsChunk
    <2> QED
        BY <2>1, <1>1
<1>8. CASE Tick
    BY <1>1, <1>8 DEF Tick
<1>9. CASE UNCHANGED httpVars
    BY <1>1, <1>9 DEF httpVars
<1> QED
    BY <1>2, <1>3, <1>4, <1>5, <1>6, <1>7, <1>8, <1>9 DEF HttpNext

(* The only open session is the one in use, whatever fails in whatever      *)
(* order, unless connect() ran inside a close() (connect, close).           *)
THEOREM SessionsDoNotLeak == HttpSpec => []NoSessionLeaks
<1>1. HttpInit => SessionsInv
    <2> SUFFICES ASSUME HttpInit PROVE SessionsInv
        OBVIOUS
    <2>1. OpenSessionTypeOK
        BY DEF HttpInit, OpenSessionTypeOK
    <2>2. OneSession
        BY DEF HttpInit, OneSession
    <2> QED
        BY <2>1, <2>2 DEF SessionsInv
<1>2. SessionsInv => NoSessionLeaks
    BY DEF SessionsInv, OpenSessionTypeOK, OneSession, NoSessionLeaks
<1> QED
    BY <1>1, <1>2, SessionsStepInv, PTL DEF HttpSpec

-----------------------------------------------------------------------------
(***************************************************************************)
(* HttpTransport: attempts and deadlines                                   *)
(*                                                                         *)
(* A sleeping request has more budget than sleep left, because it only     *)
(* went to sleep if the next attempt would still begin in time; so the     *)
(* loop's lag bounds both.  A request that may change something is never   *)
(* asleep, since it has no delay to sleep for: it is in its first attempt, *)
(* which has not been carried out, or it is done.                          *)
(***************************************************************************)
RequestStates ==
    {NoRequest}
    \union [pc : {"sleeping"}, kind : RequestKinds, attempt : Nat \ {0}, left : Int, wait : Int]
    \union [pc : {"sending"}, kind : RequestKinds, attempt : Nat \ {0}, left : Int, on : Nat,
            timed : BOOLEAN, got : Nat]
    \union [pc : {"done"}, kind : {"none"},
            outcome : {"ok", "refused", "transport", "untyped"}]

(* A sleep and a timer are at most MaxLag behind; what runs with no timer   *)
(* woke without budget.                                                     *)
OnTime(r) ==
    /\ req[r].pc = "sleeping" => -MaxLag <= req[r].wait /\ req[r].wait < req[r].left
    /\ req[r].pc = "sending" =>
          IF req[r].timed = TRUE THEN -MaxLag <= req[r].left ELSE r \in overdue

(* A request that may change something is in its only attempt or done.      *)
AtMostOnce(r) ==
    /\ req[r].pc = "new" => reached[r] = 0 /\ r \notin changing
    /\ r \in changing =>
          /\ req[r].pc # "sleeping" /\ reached[r] <= 1
          /\ req[r].pc = "sending" =>
                req[r].kind # "retried" /\ req[r].attempt = 1 /\ reached[r] = 0

AttemptsTypeOK ==
    /\ req \in [Requests -> RequestStates] /\ reached \in [Requests -> Nat]
    /\ session \in Nat /\ changing \subseteq Requests

AttemptsInv == AttemptsTypeOK /\ \A r \in Requests : OnTime(r) /\ AtMostOnce(r)

(* Most steps move one request and leave the others alone.                  *)
LEMMA OneRequestMoves ==
    ASSUME AttemptsInv, NEW r \in Requests, NEW q \in RequestStates,
           req' = [req EXCEPT ![r] = q],
           reached' \in [Requests -> Nat], \A s \in Requests \ {r} : reached'[s] = reached[s],
           session' \in Nat,
           changing \subseteq changing', changing' \subseteq changing \cup {r},
           overdue \subseteq overdue',
           OnTime(r)', AtMostOnce(r)'
    PROVE  AttemptsInv'
<1>1. /\ AttemptsTypeOK'
      /\ \A s \in Requests \ {r} : req'[s] = req[s] /\ (s \in changing' <=> s \in changing)
    BY DEF AttemptsInv, AttemptsTypeOK
<1>2. ASSUME NEW s \in Requests \ {r} PROVE OnTime(s)' /\ AtMostOnce(s)'
    BY <1>1, <1>2 DEF AttemptsInv, OnTime, AtMostOnce
<1> QED
    BY <1>1, <1>2 DEF AttemptsInv

(* Of a request's record, by where it is.                                   *)
LEMMA RequestShapes ==
    ASSUME AttemptsInv, NEW r \in Requests
    PROVE  /\ req[r].pc = "sleeping" =>
                /\ req[r].kind \in RequestKinds /\ req[r].attempt \in Nat \ {0}
                /\ req[r].left \in Int /\ req[r].wait \in Int
           /\ req[r].pc = "sending" =>
                /\ req[r].kind \in RequestKinds /\ req[r].attempt \in Nat \ {0}
                /\ req[r].left \in Int /\ req[r].timed \in BOOLEAN /\ req[r].got \in Nat
                /\ req[r] \in [pc : {"sending"}, kind : RequestKinds, attempt : Nat \ {0}, left : Int,
                               on : Nat, timed : BOOLEAN, got : Nat]
           /\ req[r].pc \in {"new", "sleeping", "sending", "done"}
<1>1. req[r] \in RequestStates
    BY DEF AttemptsInv, AttemptsTypeOK
<1> QED
    BY <1>1 DEF RequestStates, NoRequest

(* Ending a request is always sound.                                        *)
LEMMA EndsInv ==
    ASSUME AttemptsInv, NEW r \in Requests, NEW how \in {"ok", "refused", "transport", "untyped"},
           End(r, how),
           reached' \in [Requests -> Nat], \A s \in Requests \ {r} : reached'[s] = reached[s],
           r \in changing' => reached'[r] <= 1,
           UNCHANGED session,
           changing \subseteq changing', changing' \subseteq changing \cup {r},
           overdue \subseteq overdue'
    PROVE  AttemptsInv'
<1> DEFINE q == [pc |-> "done", kind |-> "none", outcome |-> how]
<1>1. q \in RequestStates
    BY DEF RequestStates
<1>2. req' = [req EXCEPT ![r] = q]
    BY DEF End
<1>3. req'[r].pc = "done" /\ session' \in Nat
    BY <1>2 DEF AttemptsInv, AttemptsTypeOK
<1>4. OnTime(r)' /\ AtMostOnce(r)'
    BY <1>3 DEF OnTime, AtMostOnce
<1> QED
    BY <1>1, <1>2, <1>3, <1>4, OneRequestMoves

(* After a retryable failure a request sleeps only if it may be repeated    *)
(* and the next attempt begins within the budget; of a request that may     *)
(* change something the first failure is the last.                          *)
LEMMA RetryableInv ==
    ASSUME AttemptsInv, HttpAssumption, NEW r \in Requests, req[r].pc = "sending", Retryable(r),
           reached' \in [Requests -> Nat], \A s \in Requests \ {r} : reached'[s] = reached[s],
           reached'[r] <= reached[r] + 1,
           UNCHANGED <<session, changing, overdue>>
    PROVE  AttemptsInv'
<1> DEFINE n == req[r].attempt
           delays == Delays(req[r].kind)
           q == [pc |-> "sleeping", kind |-> req[r].kind, attempt |-> n + 1,
                 left |-> req[r].left, wait |-> delays[n]]
<1>1. /\ req[r].kind \in RequestKinds /\ n \in Nat \ {0} /\ req[r].left \in Int
      /\ session' \in Nat /\ reached \in [Requests -> Nat]
    BY RequestShapes DEF AttemptsInv, AttemptsTypeOK
<1>2. r \in changing => delays = <<>> /\ n = 1 /\ reached[r] = 0
    BY DEF AttemptsInv, AtMostOnce, Delays
<1>3. CASE n <= Len(delays) /\ CanSleep(r, delays[n])
    <2>1. delays \in Seq(Nat \ {0})
        BY DEF Delays, HttpAssumption
    <2>2. delays[n] \in Nat \ {0} /\ delays[n] < req[r].left
        BY <1>1, <1>3, <2>1 DEF CanSleep
    <2>3. r \notin changing
        BY <1>2, <1>3
    <2>4. q \in RequestStates
        BY <1>1, <2>2 DEF RequestStates
    <2>5. req' = [req EXCEPT ![r] = q]
        BY <1>3 DEF Retryable
    <2>6. req'[r] = q
        BY <2>5 DEF AttemptsInv, AttemptsTypeOK
    <2>7. /\ req'[r].pc = "sleeping" /\ req'[r].wait = delays[n]
          /\ req'[r].left = req[r].left
        BY <2>6
    <2> HIDE DEF q, n, delays
    <2>8. OnTime(r)'
        BY <2>2, <2>7, <1>1 DEF OnTime, HttpAssumption
    <2>9. AtMostOnce(r)'
        BY <2>3, <2>7 DEF AtMostOnce
    <2> QED
        BY <2>4, <2>5, <2>8, <2>9, <1>1, OneRequestMoves
<1>4. CASE ~(n <= Len(delays) /\ CanSleep(r, delays[n]))
    <2>1. End(r, "transport")
        BY <1>4 DEF Retryable
    <2>2. r \in changing' => reached'[r] <= 1
        BY <1>1, <1>2
    <2> QED
        BY <2>1, <2>2, EndsInv
<1> QED
    BY <1>3, <1>4

(* An attempt begins with budget, or the request is overdue.                *)
LEMMA SendingInv ==
    ASSUME AttemptsInv, HttpAssumption, NEW r \in Requests, NEW kind \in RequestKinds,
           NEW n \in Nat \ {0}, NEW left \in Int,
           req' = [req EXCEPT ![r] = Sending(kind, n, left)],
           -MaxLag <= left, left > 0 \/ kind \in Streams \/ r \in overdue',
           r \in changing' => kind # "retried" /\ n = 1 /\ reached[r] = 0,
           UNCHANGED <<session, reached>>,
           changing \subseteq changing', changing' \subseteq changing \cup {r},
           overdue \subseteq overdue'
    PROVE  AttemptsInv'
<1> DEFINE q == Sending(kind, n, left)
<1>1. /\ q.pc = "sending" /\ q.kind = kind /\ q.attempt = n /\ q.left = left
      /\ q.timed = (kind \in Streams \/ left > 0)
    BY DEF Sending
<1>2. q \in RequestStates
    BY DEF Sending, RequestStates, AttemptsInv, AttemptsTypeOK
<1> HIDE DEF q
<1>3. req'[r] = q
    BY <1>2 DEF AttemptsInv, AttemptsTypeOK, q
<1>4. OnTime(r)'
    BY <1>1, <1>3 DEF OnTime
<1>5. reached' = reached /\ reached \in [Requests -> Nat] /\ session' \in Nat
    BY DEF AttemptsInv, AttemptsTypeOK
<1>6. AtMostOnce(r)'
    BY <1>1, <1>3, <1>5 DEF AtMostOnce
<1> QED
    BY <1>2, <1>4, <1>5, <1>6, OneRequestMoves DEF q

LEMMA BeginsInv ==
    ASSUME AttemptsInv, HttpAssumption, NEW r \in Requests, NEW kind \in RequestKinds,
           RequestBegins(r, kind)
    PROVE  AttemptsInv'
<1>1. /\ req[r].pc = "new" /\ reached[r] = 0 /\ r \notin changing
      /\ reached' = reached /\ session' = session /\ overdue' = overdue
      /\ reached \in [Requests -> Nat]
    BY DEF RequestBegins, NoRequest, lifeVars, AttemptsInv, AttemptsTypeOK, AtMostOnce
<1>2. /\ changing \subseteq changing' /\ changing' \subseteq changing \cup {r}
      /\ r \in changing' => kind # "retried"
    BY <1>1 DEF RequestBegins
<1>3. CASE IsConnected
    <2>1. req' = [req EXCEPT ![r] = Sending(kind, 1, Timeout)]
        BY <1>3 DEF RequestBegins
    <2>2. Timeout \in Int /\ Timeout > 0 /\ -MaxLag <= Timeout
        BY DEF HttpAssumption
    <2>3. 1 \in Nat \ {0} /\ overdue \subseteq overdue'
        BY <1>1
    <2> QED
        BY <1>1, <1>2, <2>1, <2>2, <2>3, SendingInv
<1>4. CASE ~IsConnected
    <2>1. End(r, "transport")
        BY <1>4 DEF RequestBegins
    <2> QED
        BY <1>1, <1>2, <2>1, EndsInv
<1> QED
    BY <1>3, <1>4

LEMMA WakesInv ==
    ASSUME AttemptsInv, HttpAssumption, NEW r \in Requests, Wakes(r)
    PROVE  AttemptsInv'
<1> DEFINE n == req[r].attempt
           left == req[r].left
           kind == req[r].kind
<1>1. /\ req[r].pc = "sleeping" /\ reached' = reached /\ session' = session
      /\ changing' = changing /\ overdue \subseteq overdue'
    BY DEF Wakes, lifeVars
<1>2. /\ n \in Nat \ {0} /\ left \in Int /\ kind \in RequestKinds
      /\ -MaxLag <= left /\ reached \in [Requests -> Nat]
    <2>1. n \in Nat \ {0} /\ left \in Int /\ kind \in RequestKinds /\ req[r].wait \in Int
        BY <1>1, RequestShapes
    <2>2. -MaxLag <= req[r].wait /\ req[r].wait < left
        BY <1>1 DEF AttemptsInv, OnTime
    <2> HIDE DEF n, left, kind
    <2> QED
        BY <2>1, <2>2 DEF AttemptsInv, AttemptsTypeOK, HttpAssumption
<1>3. r \notin changing
    BY <1>1 DEF AttemptsInv, AtMostOnce
<1>4. CASE IsConnected
    <2>1. req' = [req EXCEPT ![r] = Sending(kind, n, left)]
        BY <1>4 DEF Wakes
    <2>2. left > 0 \/ r \in overdue'
        BY <1>2, <1>4 DEF Wakes
    <2> HIDE DEF n, left, kind
    <2> QED
        BY <1>1, <1>2, <1>3, <2>1, <2>2, SendingInv
<1>5. CASE ~IsConnected
    <2>1. End(r, "untyped")
        BY <1>5 DEF Wakes
    <2> QED
        BY <1>1, <1>2, <1>3, <2>1, EndsInv
<1> QED
    BY <1>4, <1>5

(* The ways an attempt ends.                                                *)
LEMMA AttemptEndsInv ==
    ASSUME AttemptsInv, HttpAssumption, NEW r \in Requests,
           \/ Answers(r) \/ Refuses(r) \/ FailsTransiently(r)
           \/ LosesSession(r) \/ TimesOut(r)
    PROVE  AttemptsInv'
<1>1. /\ req[r].pc = "sending" /\ session' = session
      /\ changing' = changing /\ overdue' = overdue
    BY DEF Answers, Refuses, FailsTransiently, LosesSession, TimesOut, OnLiveSession, lifeVars
<1>2. reached \in [Requests -> Nat] /\ (r \in changing => reached[r] = 0)
    BY <1>1 DEF AttemptsInv, AttemptsTypeOK, AtMostOnce
<1>3. reached' = reached \/ Reaches(r)
    BY DEF Answers, Refuses, FailsTransiently, LosesSession, TimesOut
<1>4. /\ reached' \in [Requests -> Nat] /\ \A s \in Requests \ {r} : reached'[s] = reached[s]
      /\ reached'[r] <= reached[r] + 1
    BY <1>2, <1>3 DEF Reaches
<1>5. r \in changing' => reached'[r] <= 1
    BY <1>1, <1>2, <1>4
<1>6. End(r, "ok") \/ End(r, "refused") \/ Retryable(r)
    BY DEF Answers, Refuses, FailsTransiently, LosesSession, TimesOut
<1> QED
    BY <1>1, <1>4, <1>5, <1>6, EndsInv, RetryableInv

LEMMA ReadsChunkInv ==
    ASSUME AttemptsInv, HttpAssumption, NEW r \in Requests, NEW size \in ChunkSizes,
           ReadsChunk(r, size)
    PROVE  AttemptsInv'
<1>1. /\ req[r].pc = "sending" /\ session' = session /\ reached' = reached
      /\ changing' = changing /\ overdue' = overdue /\ size \in Nat
    BY DEF ReadsChunk, OnLiveSession, lifeVars, HttpAssumption
<1>2. reached \in [Requests -> Nat] /\ (r \in changing => reached[r] = 0)
    BY <1>1 DEF AttemptsInv, AttemptsTypeOK, AtMostOnce
<1>3. CASE OverCap(r, size)
    <2>1. End(r, "transport")
        BY <1>3 DEF ReadsChunk
    <2> QED
        BY <1>1, <1>2, <2>1, EndsInv
<1>4. CASE ~OverCap(r, size)
    <2> DEFINE sum == req[r].got + size
               q == [req[r] EXCEPT !.got = sum, !.left = Timeout]
    <2>1. req' = [req EXCEPT ![r] = q]
        BY <1>4 DEF ReadsChunk
    <2>2. /\ req[r] \in [pc : {"sending"}, kind : RequestKinds, attempt : Nat \ {0}, left : Int,
                          on : Nat, timed : BOOLEAN, got : Nat]
          /\ Timeout \in Int /\ -MaxLag <= Timeout
        BY <1>1, RequestShapes DEF HttpAssumption
    <2>3. /\ q \in RequestStates /\ q.pc = "sending" /\ q.left = Timeout
          /\ q.timed = req[r].timed /\ q.kind = req[r].kind /\ q.attempt = req[r].attempt
        <3>1. q \in [pc : {"sending"}, kind : RequestKinds, attempt : Nat \ {0}, left : Int,
                     on : Nat, timed : BOOLEAN, got : Nat]
            <4>1. sum \in Nat
                BY <1>1, <2>2
            <4> HIDE DEF sum
            <4> QED
                BY <4>1, <2>2
        <3>2. /\ q.pc = "sending" /\ q.left = Timeout
              /\ q.timed = req[r].timed /\ q.kind = req[r].kind /\ q.attempt = req[r].attempt
            BY <2>2
        <3> QED
            BY <3>1, <3>2 DEF RequestStates
    <2> HIDE DEF q
    <2>4. req'[r] = q
        BY <2>1 DEF AttemptsInv, AttemptsTypeOK
    <2>5. OnTime(r)' /\ AtMostOnce(r)'
        BY <1>1, <1>2, <2>2, <2>3, <2>4 DEF AttemptsInv, OnTime, AtMostOnce
    <2>6. session' \in Nat
        BY <1>1 DEF AttemptsInv, AttemptsTypeOK
    <2> QED
        BY <1>1, <1>2, <2>1, <2>3, <2>5, <2>6, OneRequestMoves
<1> QED
    BY <1>3, <1>4

(* Time passes for every request alike; what is due holds it back.          *)
LEMMA TickInv ==
    ASSUME AttemptsInv, HttpAssumption, Tick
    PROVE  AttemptsInv'
<1>1. /\ reached' = reached /\ session' = session /\ changing' = changing /\ overdue' = overdue
      /\ req' = [r \in Requests |-> Elapsed(req[r])]
      /\ \A r \in Requests : ~Due(r)
    BY DEF Tick, lifeVars
<1>2. ASSUME NEW r \in Requests
      PROVE  req'[r] \in RequestStates /\ OnTime(r)' /\ AtMostOnce(r)'
    <2>1. req'[r] = Elapsed(req[r]) /\ req[r] \in RequestStates
        BY <1>1 DEF AttemptsInv, AttemptsTypeOK
    <2>2. ~Due(r) /\ OnTime(r) /\ AtMostOnce(r) /\ MaxLag \in Nat
        BY <1>1 DEF AttemptsInv, HttpAssumption
    <2>3. CASE req[r].pc = "sleeping"
        <3> DEFINE l == req[r].left - 1
                   w == req[r].wait - 1
        <3>1. /\ req[r] \in [pc : {"sleeping"}, kind : RequestKinds, attempt : Nat \ {0},
                             left : Int, wait : Int]
              /\ req[r].left \in Int /\ req[r].wait \in Int
            BY <2>1, <2>3 DEF RequestStates, NoRequest
        <3>2. req'[r] = [req[r] EXCEPT !.left = l, !.wait = w]
            BY <2>1, <2>3 DEF Elapsed
        <3>3. l \in Int /\ w \in Int /\ -MaxLag <= w /\ w < l
            BY <2>2, <2>3, <3>1 DEF Due, OnTime
        <3> HIDE DEF l, w
        <3>4. /\ req'[r] \in [pc : {"sleeping"}, kind : RequestKinds, attempt : Nat \ {0},
                             left : Int, wait : Int]
              /\ req'[r].pc = "sleeping" /\ req'[r].left = l /\ req'[r].wait = w
            BY <3>1, <3>2, <3>3
        <3>5. r \notin changing'
            BY <1>1, <2>2, <2>3 DEF AtMostOnce
        <3> QED
            BY <3>3, <3>4, <3>5 DEF RequestStates, OnTime, AtMostOnce
    <2>4. CASE req[r].pc = "sending" /\ req[r].timed = TRUE
        <3> DEFINE l == req[r].left - 1
        <3>1. /\ req[r] \in [pc : {"sending"}, kind : RequestKinds, attempt : Nat \ {0},
                             left : Int, on : Nat, timed : BOOLEAN, got : Nat]
              /\ req[r].left \in Int
            BY <2>1, <2>4 DEF RequestStates, NoRequest
        <3>2. req'[r] = [req[r] EXCEPT !.left = l]
            BY <2>1, <2>4 DEF Elapsed
        <3>3. l \in Int /\ -MaxLag <= l
            BY <2>2, <2>4, <3>1 DEF Due
        <3> HIDE DEF l
        <3>4. /\ req'[r] \in [pc : {"sending"}, kind : RequestKinds, attempt : Nat \ {0},
                             left : Int, on : Nat, timed : BOOLEAN, got : Nat]
              /\ req'[r].pc = "sending" /\ req'[r].left = l /\ req'[r].timed = TRUE
              /\ req'[r].kind = req[r].kind /\ req'[r].attempt = req[r].attempt
            BY <2>4, <3>1, <3>2, <3>3
        <3> QED
            BY <1>1, <2>2, <2>4, <3>3, <3>4 DEF RequestStates, OnTime, AtMostOnce
    <2>5. CASE ~(req[r].pc = "sleeping") /\ ~(req[r].pc = "sending" /\ req[r].timed = TRUE)
        <3>1. req'[r] = req[r]
            <4>1. CASE req[r].pc = "sending"
                <5>1. req[r].timed = FALSE
                    BY <2>5, <4>1, RequestShapes
                <5> QED
                    BY <2>1, <4>1, <5>1 DEF Elapsed
            <4>2. CASE req[r].pc # "sending"
                BY <2>1, <2>5, <4>2 DEF Elapsed
            <4> QED
                BY <4>1, <4>2
        <3> QED
            BY <1>1, <2>1, <2>2, <3>1 DEF OnTime, AtMostOnce
    <2> QED
        BY <2>3, <2>4, <2>5
<1>3. AttemptsTypeOK'
    BY <1>1, <1>2 DEF AttemptsInv, AttemptsTypeOK
<1> QED
    BY <1>2, <1>3 DEF AttemptsInv

LEMMA AttemptsStepInv == SessionsInv' /\ AttemptsInv /\ [HttpNext]_httpVars => AttemptsInv'
<1> SUFFICES ASSUME SessionsInv', AttemptsInv, [HttpNext]_httpVars PROVE AttemptsInv'
    OBVIOUS
<1>1. CASE UNCHANGED reqVars
    <2>1. req' = req /\ reached' = reached /\ changing' = changing /\ overdue' = overdue
        BY <1>1 DEF reqVars
    <2>2. session' \in Nat
        BY DEF SessionsInv, OpenSessionTypeOK
    <2> QED
        BY <2>1, <2>2 DEF AttemptsInv, AttemptsTypeOK, OnTime, AtMostOnce
<1>2. CASE ConnectBegins \/ ConnectSucceeds \/ ConnectFails \/ CloseBegins \/ CloseEnds
           \/ UNCHANGED httpVars
    BY <1>1, <1>2 DEF ConnectBegins, ConnectSucceeds, ConnectFails, CloseBegins, CloseEnds,
                      httpVars
<1> QED
    BY <1>2, HttpAssumption, BeginsInv, WakesInv, AttemptEndsInv, ReadsChunkInv, TickInv
    DEF HttpNext

(* What changes something reaches the daemon at most once, and all attempts *)
(* and sleeps of a request stay within its budget up to the loop's lag, for *)
(* every timeout, backoff sequence and number of requests (request,         *)
(* request_upload).                                                         *)
THEOREM AttemptsStayBounded == HttpSpec => []AttemptsBounded
<1>1. HttpInit => SessionsInv /\ AttemptsInv
    <2> SUFFICES ASSUME HttpInit PROVE SessionsInv /\ AttemptsInv
        OBVIOUS
    <2>1. SessionsInv
        <3>1. OpenSessionTypeOK
            BY DEF HttpInit, OpenSessionTypeOK
        <3>2. OneSession
            BY DEF HttpInit, OneSession
        <3> QED
            BY <3>1, <3>2 DEF SessionsInv
    <2>2. AttemptsTypeOK
        BY DEF HttpInit, AttemptsTypeOK, RequestStates
    <2>3. \A r \in Requests : OnTime(r) /\ AtMostOnce(r)
        BY DEF HttpInit, NoRequest, OnTime, AtMostOnce
    <2> QED
        BY <2>1, <2>2, <2>3 DEF AttemptsInv
<1>2. AttemptsInv => AttemptsBounded
    <2> SUFFICES ASSUME AttemptsInv PROVE AttemptsBounded
        OBVIOUS
    <2>1. ASSUME NEW r \in changing PROVE reached[r] <= 1
        BY DEF AttemptsInv, AttemptsTypeOK, AtMostOnce
    <2>2. ASSUME NEW r \in Requests \ overdue, Active(r) PROVE req[r].left >= -MaxLag
        <3>1. OnTime(r) /\ MaxLag \in Nat
            BY <2>2, HttpAssumption DEF AttemptsInv, HttpAssumption
        <3>2. CASE req[r].pc = "sleeping"
            <4>1. req[r].left \in Int /\ req[r].wait \in Int
                BY <2>2, <3>2, RequestShapes
            <4> QED
                BY <3>1, <3>2, <4>1 DEF OnTime
        <3>3. CASE req[r].pc = "sending"
            <4>1. req[r].left \in Int /\ req[r].timed \in BOOLEAN
                BY <2>2, <3>3, RequestShapes
            <4> QED
                BY <2>2, <3>1, <3>3, <4>1 DEF OnTime
        <3> QED
            BY <2>2, <3>2, <3>3 DEF Active
    <2> QED
        BY <2>1, <2>2 DEF AttemptsBounded
<1>3. (SessionsInv /\ AttemptsInv) /\ [HttpNext]_httpVars => (SessionsInv /\ AttemptsInv)'
    BY SessionsStepInv, AttemptsStepInv
<1> QED
    BY <1>1, <1>2, <1>3, PTL DEF HttpSpec

-----------------------------------------------------------------------------
(***************************************************************************)
(* RestOperations                                                          *)
(*                                                                         *)
(* Which operations may be repeated is spread over the tables; the first   *)
(* lemmas gather it: nothing that creates, commands or releases is.  So a  *)
(* call of that kind is one attempt, and its answer is about the resource  *)
(* as it was before the call.                                              *)
(***************************************************************************)
Unrepeatable == {"create", "command", "release"}
Effects == {"read", "replace", "remove"} \union Unrepeatable

Sound(op) == op.effect \in Effects /\ (op.effect \in Unrepeatable => ~Retried(op))

LEMMA OperationShape ==
    ASSUME NEW verb, NEW retry, NEW effect, NEW names, NEW op \in Operation(verb, retry, effect, names)
    PROVE  op.verb = verb /\ op.retry = retry /\ op.effect = effect
BY DEF Operation

(* Each kind of operation the tables use, whatever it is called.            *)
LEMMA KindsAreSound ==
    ASSUME NEW names
    PROVE  /\ \A op \in Reads(names) : Sound(op)
           /\ \A op \in Downloads(names) : Sound(op)
           /\ \A op \in Replaces(names) : Sound(op)
           /\ \A op \in Patches(names) : Sound(op)
           /\ \A op \in Confirms(names) : Sound(op)
           /\ \A op \in Removes(names) : Sound(op)
           /\ \A op \in RemovesAgain(names) : Sound(op)
           /\ \A op \in Creates(names) : Sound(op)
           /\ \A op \in Commands(names) : Sound(op)
           /\ \A op \in DefaultCommands(names) : Sound(op)
           /\ \A op \in Operation("POST", "yes", "read", names) : Sound(op)
           /\ \A op \in Operation("PATCH", "no", "replace", names) : Sound(op)
           /\ \A op \in Operation("POST", "no", "release", names) : Sound(op)
BY DEF Operation, Reads, Downloads, Replaces, Patches, Confirms, Removes, RemovesAgain, Creates,
       Commands, DefaultCommands, Sound, Effects, Unrepeatable, Retried

LEMMA OperationsAreSound == \A op \in Operations : Sound(op)
<1>1. \A op \in AlarmZones \union AlarmCandidates \union AlarmRuntime \union AlarmTests : Sound(op)
    BY KindsAreSound, Zenon DEF AlarmZones, AlarmCandidates, AlarmRuntime, AlarmTests
<1>2. \A op \in Backups \union DataPointOps \union CustomDataPointOps \union DeviceReads : Sound(op)
    BY KindsAreSound, Zenon DEF Backups, DataPointOps, CustomDataPointOps, DeviceReads
<1>3. \A op \in DeviceCommands \union Diagnostics \union Recordings \union Programs : Sound(op)
    BY KindsAreSound, Zenon DEF DeviceCommands, Diagnostics, Recordings, Programs
<1>4. \A op \in Sysvars \union HubLists \union LinkOps \union ScheduleOps : Sound(op)
    BY KindsAreSound, Zenon DEF Sysvars, HubLists, LinkOps, ScheduleOps
<1>5. \A op \in Security \union EditSessions \union SystemReads \union SystemHub : Sound(op)
    BY KindsAreSound, Zenon DEF Security, EditSessions, SystemReads, SystemHub
<1>6. \A op \in SystemCommands \union Visibility \union Warnings : Sound(op)
    BY KindsAreSound, Zenon DEF SystemCommands, Visibility, Warnings
<1> QED
    BY <1>1, <1>2, <1>3, <1>4, <1>5, <1>6, Zenon DEF Operations

(* A call that cannot be repeated has made at most one attempt, and the     *)
(* resource is as the call found it until it has.                           *)
CallInv ==
    /\ Sound(running)
    /\ attempts \in Nat /\ applied \in Nat /\ there \in BOOLEAN /\ found \in BOOLEAN
    /\ applied <= attempts
    /\ outcome = "none" /\ attempts = 0 => there = found
    /\ running.effect \in Unrepeatable => attempts <= 1
    /\ AnswersAreTrue

(* One request: what it does to the resource and what is answered.          *)
LEMMA CarriedTruth ==
    ASSUME CallInv, CanAttempt
    PROVE  LET c == Carried(running)
               counted == IF c.counts THEN 1 ELSE 0
           IN  /\ c.there \in BOOLEAN /\ counted \in {0, 1}
               /\ running.effect \in Unrepeatable => attempts = 0 /\ applied = 0 /\ there = found
               /\ c.answer = "ok" /\ running.effect \notin {"read", "remove"} => counted = 1
               /\ c.answer = "conflict" => running.effect = "create" /\ there = TRUE
               /\ c.answer = "not_found" /\ running.effect = "release" => there = FALSE
<1>1. running.effect \in Unrepeatable => attempts = 0 /\ applied = 0 /\ there = found
    BY DEF CallInv, CanAttempt, Sound
<1>2. CASE running.effect = "read"
    BY <1>1, <1>2 DEF Carried, CallInv
<1>3. CASE running.effect \in {"replace", "command"}
    BY <1>1, <1>3 DEF Carried, CallInv
<1>4. CASE running.effect = "create"
    BY <1>1, <1>4 DEF Carried, CallInv
<1>5. CASE running.effect = "remove"
    BY <1>1, <1>5 DEF Carried, CallInv, RemovalAnswer
<1>6. CASE running.effect = "release"
    BY <1>1, <1>6 DEF Carried, CallInv
<1> QED
    BY <1>2, <1>3, <1>4, <1>5, <1>6 DEF CallInv, Sound, Effects, Unrepeatable

LEMMA CallStepInv == CallInv /\ [OperationsNext]_roVars => CallInv'
<1> SUFFICES ASSUME CallInv, [OperationsNext]_roVars PROVE CallInv'
    OBVIOUS
<1>1. CASE Call
    <2>1. PICK op \in Operations : running' = op /\ found' = there
        BY <1>1 DEF Call
    <2> QED
        BY <1>1, <2>1, OperationsAreSound DEF Call, CallInv, AnswersAreTrue
<1> DEFINE c == Carried(running)
           counted == IF c.counts THEN 1 ELSE 0
<1>2. CASE Answered
    <2>1. /\ there' = c.there /\ applied' = applied + counted /\ outcome' = c.answer
          /\ attempts' = attempts + 1 /\ running' = running /\ found' = found /\ CanAttempt
        BY <1>2 DEF Answered
    <2>2. /\ c.there \in BOOLEAN /\ counted \in {0, 1}
          /\ running.effect \in Unrepeatable => attempts = 0 /\ applied = 0 /\ there = found
          /\ c.answer = "ok" /\ running.effect \notin {"read", "remove"} => counted = 1
          /\ c.answer = "conflict" => running.effect = "create" /\ there = TRUE
          /\ c.answer = "not_found" /\ running.effect = "release" => there = FALSE
        BY <2>1, CarriedTruth
    <2> HIDE DEF c, counted
    <2> QED
        BY <2>1, <2>2 DEF CallInv, AnswersAreTrue, Unrepeatable, Sound
<1>3. CASE AnswerLost
    <2>1. /\ there' = c.there /\ applied' = applied + counted /\ outcome' = outcome
          /\ attempts' = attempts + 1 /\ running' = running /\ found' = found /\ CanAttempt
        BY <1>3 DEF AnswerLost
    <2>2. /\ c.there \in BOOLEAN /\ counted \in {0, 1}
          /\ running.effect \in Unrepeatable => attempts = 0 /\ applied = 0
        BY <2>1, CarriedTruth
    <2> HIDE DEF c, counted
    <2> QED
        BY <2>1, <2>2 DEF CallInv, AnswersAreTrue, Unrepeatable, Sound, CanAttempt
<1>4. CASE RequestLost
    <2>1. running.effect \in Unrepeatable => attempts = 0
        BY <1>4 DEF RequestLost, CallInv, CanAttempt, Sound
    <2> QED
        BY <1>4, <2>1 DEF RequestLost, CallInv, AnswersAreTrue, CanAttempt, Sound
<1>5. CASE Raises
    BY <1>5 DEF Raises, CallInv, AnswersAreTrue, Sound
<1>6. CASE ResourceChanges
    BY <1>6 DEF ResourceChanges, CallInv, AnswersAreTrue, Sound
<1>7. CASE UNCHANGED roVars
    BY <1>7 DEF roVars, CallInv, AnswersAreTrue, Sound
<1> QED
    BY <1>1, <1>2, <1>3, <1>4, <1>5, <1>6, <1>7 DEF OperationsNext

(* What an operation reports is what happened, for every operation of the   *)
(* client and every number of attempts (allow_retry of each operation,      *)
(* HttpTransport.request).                                                  *)
THEOREM OperationsTellTheTruth == OperationsSpec => []AnswersAreTrue
<1>1. OperationsInit => CallInv
    <2> SUFFICES ASSUME OperationsInit PROVE CallInv
        OBVIOUS
    <2>1. \E op \in Operations : op.name = "get_info"
        <3> DEFINE op == [name |-> "get_info", verb |-> "GET", retry |-> "default", effect |-> "read"]
        <3>1. op \in SystemReads
            BY DEF SystemReads, Reads, Operation
        <3>2. op \in Operations
            BY <3>1, Zenon DEF Operations
        <3> QED
            BY <3>2
    <2>2. running \in Operations
        BY <2>1 DEF OperationsInit
    <2>3. /\ there = FALSE /\ found = FALSE /\ applied = 0 /\ attempts = 0 /\ outcome = "idle"
        BY DEF OperationsInit
    <2>4. Sound(running)
        BY <2>2, OperationsAreSound
    <2>5. AnswersAreTrue
        BY <2>3 DEF AnswersAreTrue
    <2>6. there \in BOOLEAN /\ found \in BOOLEAN /\ (outcome = "none" => there = found)
        BY <2>3
    <2>7. attempts \in Nat /\ applied \in Nat /\ applied <= attempts /\ attempts <= 1
        BY <2>3
    <2> QED
        BY <2>4, <2>5, <2>6, <2>7 DEF CallInv
<1>2. CallInv => AnswersAreTrue
    BY DEF CallInv
<1> QED
    BY <1>1, <1>2, CallStepInv, PTL DEF OperationsSpec
=============================================================================
