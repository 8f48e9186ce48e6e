---------------------------- MODULE SessionRefresh ----------------------------
(***************************************************************************)
(* The requests of the API client (utils/api-client.ts) and the token      *)
(* provider they share (session.ts): expiry, the forced refresh after a    *)
(* 401, the map of refreshes in flight, and the conditional write of the   *)
(* refreshed session, for several requests in each of several processes.   *)
(*                                                                         *)
(* A session is the pair of tokens of one grant, numbered in the order in  *)
(* which the server grants them.  setAuth is one step here: its steps are  *)
(* those of CredentialStorage.  Tokens, headers and bodies are left out.   *)
(***************************************************************************)
EXTENDS Naturals, FiniteSets

CONSTANTS
  Procs,        \* processes, each with one client
  Requests,     \* API calls, each made once
  Placements,   \* ways to spread the calls over the processes
  MaxSessions,  \* bound on the sessions the server grants
  MaxAttempts,  \* options.retries ?? DEFAULT_RETRIES
  MaxLost,      \* bound on exchanges that fail in transport or at a gateway, and on
                \* calls of the storage that fail (vault locked or failing, no commit)
  MaxCrashes,   \* bound on process crashes
  Rotation      \* does the server retire a refresh token it exchanges?

Sessions == 1..MaxSessions
None == 0

ASSUME PlacementsAssumption == Placements \subseteq [Requests -> Procs]
ASSUME BoundsAssumption ==
  /\ MaxSessions \in Nat \ {0} /\ MaxAttempts \in Nat \ {0}
  /\ MaxLost \in Nat /\ MaxCrashes \in Nat /\ Rotation \in BOOLEAN

VARIABLES
  home,      \* the process that makes each call
  stored,    \* the session in the "auth" setting, or None
  live,      \* sessions whose refresh token the server accepts
  granted,   \* number of sessions granted so far
  flight,    \* inFlightRefresh of each process, and its call to the server
  turn,      \* the request whose synchronous code each process is in
  req,       \* the state of each request
  asked,     \* history: refresh calls each process made for each session
  failed,    \* history: those that ended without a new session
  stranded,  \* history: sessions whose exchange succeeded and came to nothing: its
             \* answer was lost, or what it brought could not be stored
  revoked,   \* history: sessions a logout revoked
  losses, crashes

server == <<live, granted>>
history == <<asked, failed, stranded, revoked>>
vars == <<home, stored, server, flight, turn, req, history, losses, crashes>>

\* A call of refreshToken: "sent" until the server answers, "granted" until
\* the answer is handled; tries counts the attempts of its own postForm.
NoFlight == [state |-> "none", tries |-> 0, new |-> None]

Flight == [state : {"none", "sent", "granted"}, tries : 0..MaxAttempts, new : {None} \cup Sessions]

\* "headers": about to ask the provider; "choose": it has read the session;
\* "waiting": for the refresh of req.seen; "resume": that refresh produced
\* req.seen; "send", "sent": one attempt.
Labels == {"idle", "headers", "choose", "waiting", "resume", "send", "sent", "done"}

Request == [at       : Labels,
            attempts : 0..MaxAttempts,
            forced   : BOOLEAN,            \* didRetryOn401
            force    : BOOLEAN,            \* this token is asked for with forceRefresh
            renew    : BOOLEAN,            \* forced, or about to expire
            seen     : {None} \cup Sessions,
            token    : {None} \cup Sessions,
            rejected : {None} \cup Sessions] \* the token that got the 401

NotSending(label) ==
  [at |-> label, attempts |-> 0, forced |-> FALSE, force |-> FALSE, renew |-> FALSE,
   seen |-> None, token |-> None, rejected |-> None]

Over == NotSending("done")

TypeOK ==
  /\ home \in Placements
  /\ stored \in {None} \cup Sessions
  /\ live \subseteq Sessions
  /\ granted \in 0..MaxSessions
  /\ flight \in [Procs -> [Sessions -> Flight]]
  /\ turn \in [Procs -> Requests \cup {None}]
  /\ req \in [Requests -> Request]
  /\ asked \in [Procs -> [Sessions -> Nat]]
  /\ failed \in [Procs -> [Sessions -> Nat]]
  /\ stranded \subseteq Sessions /\ revoked \subseteq Sessions
  /\ losses \in 0..MaxLost /\ crashes \in 0..MaxCrashes

Init ==
  /\ home \in Placements
  /\ stored = 1 /\ granted = 1 /\ live = {1}
  /\ flight = [p \in Procs |-> [s \in Sessions |-> NoFlight]]
  /\ turn = [p \in Procs |-> None]
  /\ req = [c \in Requests |-> NotSending("idle")]
  /\ asked = [p \in Procs |-> [s \in Sessions |-> 0]]
  /\ failed = [p \in Procs |-> [s \in Sessions |-> 0]]
  /\ stranded = {} /\ revoked = {}
  /\ losses = 0 /\ crashes = 0

\* No synchronous code of the process is running.
Idle(c) == turn[home[c]] = None

Loss == losses < MaxLost /\ losses' = losses + 1

-----------------------------------------------------------------------------
(* sendWithRetries.                                                         *)

\* The head of the loop: the first attempt, or the next one.
Attempt(r) ==
  [r EXCEPT !.attempts = @ + 1, !.at = IF r.forced THEN "send" ELSE "headers", !.force = FALSE]

Start(c) ==
  /\ req[c].at = "idle"
  /\ Idle(c)
  /\ req' = [req EXCEPT ![c] = Attempt(@)]
  /\ UNCHANGED <<home, stored, server, flight, turn, history, losses, crashes>>

Send(c) ==
  /\ req[c].at = "send"
  /\ Idle(c)
  /\ req' = [req EXCEPT ![c].at = "sent"]
  /\ UNCHANGED <<home, stored, server, flight, turn, history, losses, crashes>>

\* Any answer that is not retried.
Answered(c) ==
  /\ req[c].at = "sent"
  /\ Idle(c)
  /\ req' = [req EXCEPT ![c] = Over]
  /\ UNCHANGED <<home, stored, server, flight, turn, history, losses, crashes>>

\* A 401: one retry with a forced refresh, when an attempt is left.
Unauthorized(c) ==
  /\ req[c].at = "sent"
  /\ Idle(c)
  /\ req' = [req EXCEPT ![c] =
       IF ~ @.forced /\ @.attempts < MaxAttempts
       THEN [@ EXCEPT !.forced = TRUE, !.force = TRUE, !.rejected = req[c].token, !.at = "headers"]
       ELSE Over]
  /\ UNCHANGED <<home, stored, server, flight, turn, history, losses, crashes>>

\* A transport error, or 429, 502, 503, 504: retried while attempts are left.
Unanswered(c) ==
  /\ req[c].at = "sent"
  /\ Idle(c)
  /\ Loss
  /\ req' = [req EXCEPT ![c] =
       IF @.attempts < MaxAttempts THEN Attempt(@) ELSE Over]
  /\ UNCHANGED <<home, stored, server, flight, turn, history, crashes>>

-----------------------------------------------------------------------------
(* The access token provider.                                               *)

\* Mistake: callers do not look for a refresh in flight.
InFlightUnshared(p, s) == FALSE

InFlight(p, s) == flight[p][s].state # "none"

\* Mistake: forceRefresh is ignored; only the clock decides.
ForceIgnored(r, expired) == expired

NeedsRefresh(r, expired) == r.force \/ expired

\* getAuthSession; without a session the call fails.  The clock tells whether
\* the session expires within a minute.
ReadSession(c) ==
  /\ req[c].at = "headers"
  /\ Idle(c)
  /\ IF stored = None
     THEN /\ req' = [req EXCEPT ![c] = Over]
          /\ UNCHANGED turn
     ELSE /\ \E expired \in BOOLEAN :
               req' = [req EXCEPT ![c].at = "choose", ![c].seen = stored,
                                  ![c].renew = NeedsRefresh(req[c], expired)]
          /\ turn' = [turn EXCEPT ![home[c]] = c]
  /\ UNCHANGED <<home, stored, server, flight, history, losses, crashes>>

\* What getAuthToken(id, "access") gives a request that goes on to send: the
\* token of id, or an error when another session is stored by now.
WithToken(r, id) ==
  IF stored = id
  THEN [r EXCEPT !.token = id, !.seen = id, !.at = "send",
                 !.attempts = IF r.force THEN @ + 1 ELSE @, !.force = FALSE, !.renew = FALSE]
  ELSE Over

UseStored(c) ==
  /\ req[c].at = "choose"
  /\ ~ req[c].renew
  /\ req' = [req EXCEPT ![c] = WithToken(@, @.seen)]
  /\ turn' = [turn EXCEPT ![home[c]] = None]
  /\ UNCHANGED <<home, stored, server, flight, history, losses, crashes>>

JoinRefresh(c) ==
  /\ req[c].at = "choose"
  /\ req[c].renew
  /\ InFlight(home[c], req[c].seen)
  /\ req' = [req EXCEPT ![c].at = "waiting"]
  /\ turn' = [turn EXCEPT ![home[c]] = None]
  /\ UNCHANGED <<home, stored, server, flight, history, losses, crashes>>

\* getAuthToken(id, "refresh") throws when another session is stored by now.
BeginRefresh(c) ==
  LET p == home[c] s == req[c].seen IN
  /\ req[c].at = "choose"
  /\ req[c].renew
  /\ ~ InFlight(p, s)
  /\ IF stored = s
     THEN /\ flight' = [flight EXCEPT ![p][s] = [state |-> "sent", tries |-> 1, new |-> None]]
          /\ asked' = [asked EXCEPT ![p][s] = @ + 1]
          /\ req' = [req EXCEPT ![c].at = "waiting"]
     ELSE /\ req' = [req EXCEPT ![c] = Over]
          /\ UNCHANGED <<flight, asked>>
  /\ turn' = [turn EXCEPT ![p] = None]
  /\ UNCHANGED <<home, stored, server, failed, stranded, revoked, losses, crashes>>

\* The requests that wait for the refresh of s in p.
Waiting(p, s) == {c \in Requests : home[c] = p /\ req[c].at = "waiting" /\ req[c].seen = s}

Rejected(p, s) ==
  /\ req' = [c \in Requests |->
               IF c \in Waiting(p, s) THEN Over ELSE req[c]]
  /\ flight' = [flight EXCEPT ![p][s] = NoFlight]
  /\ failed' = [failed EXCEPT ![p][s] = @ + 1]

\* Mistake: the refreshed tokens are handed to the callers and not stored.
RefreshNotStored(p, s) ==
  /\ flight[p][s].state = "granted"
  /\ turn[p] = None
  /\ req' = [c \in Requests |->
       IF c \in Waiting(p, s)
       THEN [req[c] EXCEPT !.at = "resume", !.seen = flight[p][s].new] ELSE req[c]]
  /\ flight' = [flight EXCEPT ![p][s] = NoFlight]
  /\ UNCHANGED <<home, stored, server, turn, history, losses, crashes>>

\* setAuth(refreshed, id): refused when another session is stored by now.  The
\* entry of the map goes in the same turn of the event loop.
StoreRefreshed(p, s) ==
  /\ flight[p][s].state = "granted"
  /\ turn[p] = None
  /\ IF stored = s
     THEN /\ stored' = flight[p][s].new
          /\ req' = [c \in Requests |->
               IF c \in Waiting(p, s)
               THEN [req[c] EXCEPT !.at = "resume", !.seen = flight[p][s].new] ELSE req[c]]
          /\ flight' = [flight EXCEPT ![p][s] = NoFlight]
          /\ UNCHANGED failed
     ELSE /\ Rejected(p, s)
          /\ UNCHANGED stored
  /\ UNCHANGED <<home, server, turn, asked, stranded, revoked, losses, crashes>>

\* setAuth throws because the vault is locked or fails, or SQLite cannot commit:
\* the stored session stays, though the server has exchanged its token.
StoreFails(p, s) ==
  /\ flight[p][s].state = "granted"
  /\ turn[p] = None
  /\ stored = s
  /\ Loss
  /\ Rejected(p, s)
  /\ stranded' = stranded \cup {s}
  /\ UNCHANGED <<home, stored, server, turn, asked, revoked, crashes>>

Resume(c) ==
  /\ req[c].at = "resume"
  /\ Idle(c)
  /\ req' = [req EXCEPT ![c] = WithToken(@, @.seen)]
  /\ UNCHANGED <<home, stored, server, flight, turn, history, losses, crashes>>

\* A read of the session or of a token throws: the database or the vault fails.
ReadFails(c) ==
  /\ \/ req[c].at \in {"headers", "resume"} /\ Idle(c)
     \/ req[c].at = "choose" /\ ~(req[c].renew /\ InFlight(home[c], req[c].seen))
  /\ Loss
  /\ req' = [req EXCEPT ![c] = Over]
  /\ turn' = [turn EXCEPT ![home[c]] = None]
  /\ UNCHANGED <<home, stored, server, flight, history, crashes>>

-----------------------------------------------------------------------------
(* The authorization server, as src/ uses it.                               *)

Grant ==
  /\ granted < MaxSessions
  /\ granted' = granted + 1

Exchange(s) ==
  /\ s \in live
  /\ Grant
  /\ live' = (IF Rotation THEN live \ {s} ELSE live) \cup {granted + 1}

GrantRefresh(p, s) ==
  /\ flight[p][s].state = "sent"
  /\ Exchange(s)
  /\ flight' = [flight EXCEPT ![p][s].state = "granted", ![p][s].new = granted + 1]
  /\ UNCHANGED <<home, stored, turn, req, history, losses, crashes>>

\* At the bound MaxSessions the server grants nothing more and refuses.
RefuseRefresh(p, s) ==
  /\ flight[p][s].state = "sent"
  /\ turn[p] = None
  /\ s \notin live \/ granted = MaxSessions
  /\ Rejected(p, s)
  /\ UNCHANGED <<home, stored, server, turn, asked, stranded, revoked, losses, crashes>>

\* The exchange fails in transport or at a gateway, with or without effect;
\* postForm repeats it while attempts are left.
LoseRefresh(p, s) ==
  /\ flight[p][s].state = "sent"
  /\ turn[p] = None
  /\ Loss
  /\ \/ UNCHANGED <<server, stranded>>
     \/ /\ Exchange(s)
        /\ stranded' = stranded \cup {s}
  /\ IF flight[p][s].tries < MaxAttempts
     THEN /\ flight' = [flight EXCEPT ![p][s].tries = @ + 1]
          /\ UNCHANGED <<req, failed>>
     ELSE Rejected(p, s)
  /\ UNCHANGED <<home, stored, turn, asked, revoked, crashes>>

-----------------------------------------------------------------------------
(* The other commands of the user, in any process, and crashes.             *)

\* A login, whose session may fail to be stored.
Login ==
  /\ Grant
  /\ live' = live \cup {granted + 1}
  /\ \/ stored' = granted + 1 /\ UNCHANGED losses
     \/ Loss /\ UNCHANGED stored
  /\ UNCHANGED <<home, flight, turn, req, history, crashes>>

\* Another command logs out: it revokes the refresh token it has read, then
\* clears whatever is stored by then.
Revoke ==
  /\ stored # None
  /\ live' = live \ {stored}
  /\ revoked' = revoked \cup {stored}
  /\ UNCHANGED <<home, stored, granted, flight, turn, req, asked, failed, stranded, losses, crashes>>

ClearAuth ==
  /\ stored # None
  /\ stored' = None
  /\ UNCHANGED <<home, server, flight, turn, req, history, losses, crashes>>

Crash(p) ==
  /\ crashes < MaxCrashes
  /\ \E c \in Requests : home[c] = p /\ req[c].at \notin {"idle", "done"}
  /\ crashes' = crashes + 1
  /\ stranded' = stranded \cup {s \in Sessions : flight[p][s].state = "granted"}
  /\ flight' = [flight EXCEPT ![p] = [s \in Sessions |-> NoFlight]]
  /\ req' = [c \in Requests |-> IF home[c] = p THEN Over ELSE req[c]]
  /\ turn' = [turn EXCEPT ![p] = None]
  /\ UNCHANGED <<home, stored, server, asked, failed, revoked, losses>>

Provide(c) ==
  ReadSession(c) \/ UseStored(c) \/ JoinRefresh(c) \/ BeginRefresh(c) \/ Resume(c) \/ ReadFails(c)

Deliver(c) == Send(c) \/ Answered(c) \/ Unauthorized(c) \/ Unanswered(c)

Refresh(p, s) ==
  \/ StoreRefreshed(p, s) \/ StoreFails(p, s)
  \/ GrantRefresh(p, s) \/ RefuseRefresh(p, s) \/ LoseRefresh(p, s)

Next ==
  \/ \E c \in Requests : Start(c) \/ Provide(c) \/ Deliver(c)
  \/ \E p \in Procs, s \in Sessions : Refresh(p, s)
  \/ Login \/ Revoke \/ ClearAuth
  \/ \E p \in Procs : Crash(p)

Spec == Init /\ [][Next]_vars

(***************************************************************************)
(* A request runs on, and every call ends by its timeout (sendOnce aborts  *)
(* after timeoutMs): answered, refused or lost.                            *)
(***************************************************************************)
Fairness ==
  /\ \A c \in Requests : WF_vars(Provide(c) \/ Deliver(c))
  /\ \A p \in Procs, s \in Sessions : WF_vars(Refresh(p, s))

FairSpec == Spec /\ Fairness

-----------------------------------------------------------------------------
(* Properties.                                                              *)

\* Concurrent callers share one refresh (session.test.ts:152): a process calls
\* the server again for a session only when its earlier call ended without a
\* new session; a call that succeeded is the last one for that session.
SharedRefresh == \A p \in Procs, s \in Sessions : asked[p][s] <= failed[p][s] + 1

\* The retry after a 401 never repeats the rejected token: the forced refresh
\* gives it one of a session granted later, whoever refreshed or logged in
\* meanwhile (sendWithRetries, didRetryOn401).
RetryUsesNewerToken ==
  \A c \in Requests :
    req[c].forced /\ req[c].at \in {"send", "sent"} => req[c].token > req[c].rejected

\* One exchange serves all who wait for it, and each of them gets a newer token.
RefreshShared == SharedRefresh /\ RetryUsesNewerToken

\* The user stays logged in: the refresh token of the stored session works at
\* the server, or the answer that replaces it has arrived and is about to be
\* stored.  Only an exchange whose answer was lost or could not be stored (a
\* locked or failing vault, a transaction that does not commit, a crash) or a
\* logout under way break this; two processes refreshing at once do not.
StoredSessionUsable ==
  stored # None =>
    \/ stored \in live
    \/ \E p \in Procs : flight[p][stored].state = "granted"
    \/ stored \in stranded \cup revoked

\* Every request ends, with an answer or an error: no caller waits for a
\* refresh nobody is running (the finally of the provider).  Each is made
\* once, so that no wait is for ever just when again and again none is left.
RequestsOver == \A c \in Requests : req[c].at \in {"idle", "done"}

EveryRequestEnds == []<>RequestsOver
=============================================================================
