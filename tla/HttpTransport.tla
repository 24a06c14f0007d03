---------------------------- MODULE HttpTransport ----------------------------
(***************************************************************************)
(* The REST transport: concurrent requests over one session, with retries  *)
(* that share one deadline, size-capped downloads, single-attempt uploads, *)
(* the handshake of connect() and close() at any moment.                   *)
(*                                                                         *)
(* Time is relative: each request carries the budget it has left and the   *)
(* time it still has to sleep; Tick counts both down.  The event loop may  *)
(* resume a task up to MaxLag ticks late.                                  *)
(***************************************************************************)
EXTENDS Integers, Sequences, FiniteSets

CONSTANTS
    Requests,    \* the callers' requests
    Timeout,     \* request_timeout_seconds, in ticks
    Backoff,     \* _backoff_sequence, in ticks
    MaxDownload,    \* max_bytes of a download
    ChunkSizes,  \* sizes of the chunks of a body
    MaxLag,      \* bound: how late the loop resumes a task
    MaxSessions  \* bound: sessions opened

ASSUME HttpAssumption ==
    /\ Timeout \in Nat \ {0} /\ MaxDownload \in Nat /\ MaxLag \in Nat /\ MaxSessions \in Nat
    /\ ChunkSizes \subseteq Nat \ {0}
    /\ Backoff \in Seq(Nat \ {0})

(* An idempotent verb, POST or PATCH, request_bytes(), request_upload().    *)
RequestKinds == {"retried", "once", "download", "upload"}
Streams == {"download", "upload"}

VARIABLES
    session,    \* the session in use, 0: None
    sessions,   \* sessions created so far
    unclosed,   \* sessions that have not been closed
    sessionClosing,    \* close() awaits session.close()
    handshake,  \* connect() awaiting /info: where, and whether it opened the session
    info,       \* _info is set
    req,        \* the requests
    reached,    \* how often the daemon has carried out each request
    changing,   \* history: requests that are not of an idempotent verb
    overdue,       \* history: requests that woke with no budget left
    overlapped  \* history: connect() opened a session during close()

lifeVars == <<session, sessions, unclosed, sessionClosing, handshake, info, overlapped>>
reqVars == <<req, reached, changing, overdue>>
httpVars == <<lifeVars, reqVars>>

NoRequest == [pc |-> "new", kind |-> "none"]
NoHandshake == [on |-> 0, created |-> FALSE]

HttpInit ==
    /\ session = 0 /\ sessions = 0 /\ unclosed = {}
    /\ sessionClosing = FALSE /\ overlapped = FALSE
    /\ handshake = NoHandshake
    /\ info = FALSE
    /\ req = [r \in Requests |-> NoRequest]
    /\ reached = [r \in Requests |-> 0]
    /\ changing = {} /\ overdue = {}

(* is_connected: there is a session and it is not closed.                   *)
IsConnected == session \in unclosed
Active(r) == req[r].pc \in {"sleeping", "sending"}
Done(r) == req[r].pc = "done"
End(r, how) == req' = [req EXCEPT ![r] = [pc |-> "done", kind |-> "none", outcome |-> how]]

-----------------------------------------------------------------------------
(* connect() and close()                                                    *)

ConnectBegins ==
    /\ handshake = NoHandshake
    /\ \/ /\ IsConnected
          /\ handshake' = [on |-> session, created |-> FALSE]
          /\ UNCHANGED <<session, sessions, unclosed, overlapped>>
       \/ /\ ~IsConnected /\ sessions < MaxSessions
          /\ sessions' = sessions + 1
          /\ session' = sessions + 1
          /\ unclosed' = unclosed \cup {sessions + 1}
          /\ handshake' = [on |-> sessions + 1, created |-> TRUE]
          /\ overlapped' = (overlapped \/ sessionClosing)
    /\ UNCHANGED <<sessionClosing, info, reqVars>>

ConnectSucceeds ==
    /\ handshake.on \in unclosed
    /\ handshake' = NoHandshake
    /\ info' = TRUE
    /\ UNCHANGED <<session, sessions, unclosed, sessionClosing, overlapped, reqVars>>

(* Mutant: a failed handshake leaves the session it opened.                 *)
ConnectFails_Leaks ==
    /\ handshake # NoHandshake
    /\ session' = IF handshake.created THEN 0 ELSE session
    /\ handshake' = NoHandshake
    /\ info' = FALSE
    /\ UNCHANGED <<sessions, unclosed, sessionClosing, overlapped, reqVars>>

(* /info cannot be read, or a required capability is missing: only a        *)
(* session this call has opened is closed.                                  *)
ConnectFails ==
    /\ handshake # NoHandshake
    /\ IF handshake.created
         THEN unclosed' = unclosed \ {session} /\ session' = 0
         ELSE UNCHANGED <<session, unclosed>>
    /\ handshake' = NoHandshake
    /\ info' = FALSE
    /\ UNCHANGED <<sessions, sessionClosing, overlapped, reqVars>>

(* The session counts as closed before close() is resumed.                  *)
CloseBegins ==
    /\ IsConnected /\ ~sessionClosing
    /\ unclosed' = unclosed \ {session}
    /\ sessionClosing' = TRUE
    /\ UNCHANGED <<session, sessions, handshake, info, overlapped, reqVars>>

CloseEnds ==
    /\ sessionClosing
    /\ sessionClosing' = FALSE
    /\ session' = 0
    /\ info' = FALSE
    /\ UNCHANGED <<sessions, unclosed, handshake, overlapped, reqVars>>

-----------------------------------------------------------------------------
(* request(): the guard, then the attempts.                                 *)

(* Mutant: every verb is retried.                                           *)
Delays_AllRetried(kind) == Backoff

(* attempt_delays, without the 0.0 of the first attempt.                    *)
Delays(kind) == IF kind = "retried" THEN Backoff ELSE <<>>

(* Mutant: the attempt is made with no timeout.                             *)
Sending_NoTimer(kind, n, left) ==
    [pc |-> "sending", kind |-> kind, attempt |-> n, left |-> left, on |-> session,
     timed |-> FALSE, got |-> 0]

(* ClientTimeout(total=remaining): a total that is not positive sets no     *)
(* timer.  Streams have no total, but a limit between two chunks.           *)
Sending(kind, n, left) ==
    [pc |-> "sending", kind |-> kind, attempt |-> n, left |-> left, on |-> session,
     timed |-> kind \in Streams \/ left > 0, got |-> 0]

RequestBegins(r, kind) ==
    /\ req[r] = NoRequest
    /\ IF IsConnected THEN req' = [req EXCEPT ![r] = Sending(kind, 1, Timeout)]
                    ELSE End(r, "transport")
    /\ changing' = IF kind = "retried" THEN changing ELSE changing \cup {r}
    /\ UNCHANGED <<lifeVars, reached, overdue>>

CanSleep(r, delay) == delay < req[r].left

(* A retryable failure: sleep for the next attempt, or raise.               *)
Retryable(r) ==
    LET n == req[r].attempt
        delays == Delays(req[r].kind) IN
    IF n <= Len(delays) /\ CanSleep(r, delays[n])
      THEN req' = [req EXCEPT ![r] = [pc |-> "sleeping", kind |-> req[r].kind,
                                      attempt |-> n + 1, left |-> req[r].left,
                                      wait |-> delays[n]]]
      ELSE End(r, "transport")

(* The sleep is over.  request() does not look at the session again: if it  *)
(* has been closed, an error that is none of the library's is raised.       *)
Wakes(r) ==
    /\ req[r].pc = "sleeping" /\ req[r].wait <= 0
    /\ IF IsConnected THEN req' = [req EXCEPT ![r] = Sending(req[r].kind, req[r].attempt, req[r].left)]
                    ELSE End(r, "untyped")
    /\ overdue' = IF IsConnected /\ req[r].left <= 0 THEN overdue \cup {r} ELSE overdue
    /\ UNCHANGED <<lifeVars, reached, changing>>

-----------------------------------------------------------------------------
(* One attempt.  EXTERNAL: what the daemon and the network do.              *)

Reaches(r) == reached' = [reached EXCEPT ![r] = @ + 1]
OnLiveSession(r) == req[r].pc = "sending" /\ req[r].on \in unclosed

(* A 2xx answer (of a download: the end of the body).                       *)
Answers(r) ==
    /\ OnLiveSession(r)
    /\ Reaches(r)
    /\ End(r, "ok")
    /\ UNCHANGED <<lifeVars, changing, overdue>>

(* A problem the daemon calls final, or the gate's refusal.                 *)
Refuses(r) ==
    /\ OnLiveSession(r)
    /\ End(r, "refused")
    /\ UNCHANGED <<lifeVars, reached, changing, overdue>>

(* 502, 503, or a connection lost after the daemon has done the work.       *)
FailsTransiently(r) ==
    /\ OnLiveSession(r)
    /\ (Reaches(r) \/ UNCHANGED reached)
    /\ Retryable(r)
    /\ UNCHANGED <<lifeVars, changing, overdue>>

(* The session was closed under the request.                                *)
LosesSession(r) ==
    /\ req[r].pc = "sending" /\ req[r].on \notin unclosed
    /\ Retryable(r)
    /\ UNCHANGED <<lifeVars, reached, changing, overdue>>

TimesOut(r) ==
    /\ req[r].pc = "sending" /\ req[r].timed /\ req[r].left <= 0
    /\ Retryable(r)
    /\ UNCHANGED <<lifeVars, reached, changing, overdue>>

(* _read_capped                                                             *)
OverCap(r, size) == req[r].got + size > MaxDownload

ReadsChunk(r, size) ==
    /\ OnLiveSession(r) /\ req[r].kind = "download"
    /\ IF OverCap(r, size)
         THEN End(r, "transport")
         ELSE req' = [req EXCEPT ![r].got = @ + size, ![r].left = Timeout]
    /\ UNCHANGED <<lifeVars, reached, changing, overdue>>

-----------------------------------------------------------------------------
(* The loop is never more than MaxLag behind a sleep or a timer.            *)
Due(r) ==
    \/ req[r].pc = "sleeping" /\ req[r].wait <= -MaxLag
    \/ req[r].pc = "sending" /\ req[r].timed /\ req[r].left <= -MaxLag

Elapsed(q) ==
    CASE q.pc = "sleeping"            -> [q EXCEPT !.left = @ - 1, !.wait = @ - 1]
      [] q.pc = "sending" /\ q.timed -> [q EXCEPT !.left = @ - 1]
      [] OTHER                        -> q

Tick ==
    /\ \E r \in Requests : Active(r)
    /\ \A r \in Requests : ~Due(r)
    /\ req' = [r \in Requests |-> Elapsed(req[r])]
    /\ UNCHANGED <<lifeVars, reached, changing, overdue>>

HttpNext ==
    \/ ConnectBegins \/ ConnectSucceeds \/ ConnectFails \/ CloseBegins \/ CloseEnds
    \/ \E r \in Requests :
          \/ \E kind \in RequestKinds : RequestBegins(r, kind)
          \/ Wakes(r)
          \/ Answers(r) \/ Refuses(r) \/ FailsTransiently(r)
          \/ LosesSession(r) \/ TimesOut(r)
          \/ \E size \in ChunkSizes : ReadsChunk(r, size)
    \/ Tick

(* Time passes, and the loop resumes what is due.  The daemon owes nothing. *)
HttpFairness ==
    /\ WF_httpVars(Tick)
    /\ \A r \in Requests : WF_httpVars(Wakes(r)) /\ WF_httpVars(TimesOut(r))
                           /\ WF_httpVars(LosesSession(r))

HttpSpec == HttpInit /\ [][HttpNext]_httpVars /\ HttpFairness

-----------------------------------------------------------------------------
(* connect(), close(): whatever fails in whatever order, the only open      *)
(* session is the one in use, and /info is known only while there is one -  *)
(* unless connect() ran while close() was waiting, which drops the session  *)
(* that connect() has just opened.                                          *)
NoSessionLeaks ==
    overlapped \/ (unclosed \subseteq {session} /\ (info => session # 0))

(* request(), request_upload(): a request that changes something (POST,     *)
(* PATCH, an upload) reaches the daemon at most once, also if the answer    *)
(* was lost after the daemon had done the work; and all attempts and sleeps *)
(* of a request stay within request_timeout_seconds, up to the loop's lag,  *)
(* unless the loop was so late that an attempt began without budget.        *)
AttemptsBounded ==
    /\ \A r \in changing : reached[r] <= 1
    /\ \A r \in Requests \ overdue : Active(r) => req[r].left >= -MaxLag

(* A request returns although the daemon may never answer: by deadline,     *)
(* stall limit or cap, again unless an attempt began without budget.        *)
RequestsReturn == \A r \in Requests : Active(r) ~> (Done(r) \/ r \in overdue)
=============================================================================
