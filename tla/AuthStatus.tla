------------------------------ MODULE AuthStatus ------------------------------
(***************************************************************************)
(* `auth status` (cli/src/commands/auth, core/src/auth/poll.ts,            *)
(* flows/auth-status.ts) beside another process that logs in, logs out or  *)
(* refreshes.  The command composes what it says of who is signed in from  *)
(* several settings, read one after the other, and of each setting first   *)
(* the reference and then the secret; the other process replaces them one  *)
(* by one too.  A process that answers many commands (the MCP server)      *)
(* decides once, as it starts, whose credentials its requests carry.       *)
(***************************************************************************)
EXTENDS Naturals, Sequences, FiniteSets

CONSTANTS
  MaxOthers,   \* bound on the commands of the other process
  MaxAsked,    \* bound on the status commands of this process
  MaxTicks     \* the --max-attempts of a poll

VARIABLES
  stored,      \* the reference under each setting, or Nothing
  secrets,     \* the references whose secret is in the vault
  owners,      \* the account behind each reference made so far
  todo,        \* the writes each process is in the middle of
  status,      \* the status command
  last,        \* the last snapshot: what it shows, and what was stored as it was taken
  vault,       \* is the vault locked?
  counts       \* commands so far of either process, and ticks of this one's

vars == <<stored, secrets, owners, todo, status, last, vault, counts>>

Nothing == 0
Settings == {"auth", "apiKey", "pending"}
Refs == DOMAIN owners

Write(op, setting) == [op |-> op, setting |-> setting]

\* What the other process runs, as the writes it makes in their order; a refresh keeps the
\* account, and so does nobody else.
Others ==
  {<<Write("set", "pending")>>,                                                         \* auth login, agent mode
   <<Write("set", "auth"), Write("clear", "apiKey"), Write("clear", "pending")>>,       \* its end
   <<Write("clear", "auth"), Write("clear", "pending"), Write("set", "apiKey")>>,       \* auth login --api-key
   <<Write("clear", "auth"), Write("clear", "apiKey"), Write("clear", "pending")>>,     \* auth logout
   <<Write("refresh", "auth")>>}                                                        \* any request

\* The interval is a poll's, in agent mode without --probe.
Options == {o \in [tty : BOOLEAN, probe : BOOLEAN, interval : BOOLEAN] : o.interval => ~o.tty /\ ~o.probe}

\* The snapshots a command takes: one to find that the vault is locked, one for the view,
\* one with the probe, and one with every tick of a poll.
Passes(options) ==
  <<"check">> \o (IF options.tty THEN <<"view">> ELSE <<>>)
              \o (IF options.probe THEN <<"probe">> ELSE IF options.tty THEN <<>> ELSE <<"tick">>)

NoSnapshot == [frame |-> [shows |-> "nothing yet", ref |-> Nothing], moments |-> {}, since |-> 0]
NoRead == [setting \in Settings |-> Nothing]
ReadOrder == <<"auth", "apiKey", "pending">>

Init ==
  /\ stored \in [auth : {Nothing, 1}, apiKey : {Nothing, 1}, pending : {Nothing, 2}]
  /\ stored.auth = Nothing \/ stored.apiKey = Nothing
  /\ owners = <<1, 2>>
  /\ secrets = {stored[setting] : setting \in Settings} \ {Nothing}
  /\ todo = [p \in {"other", "status"} |-> <<>>]
  \* usesSavedApiKey, and an API key of the command line
  /\ \E source \in {IF stored.apiKey # Nothing THEN "saved" ELSE "session", "runtime"} :
       status = [at |-> "idle", source |-> source, options |-> [tty |-> TRUE, probe |-> FALSE, interval |-> FALSE],
                 left |-> <<>>, next |-> <<>>, row |-> Nothing, read |-> NoRead, moments |-> {}, since |-> 0,
                 report |-> "none", user |-> Nothing]
  /\ last = NoSnapshot
  /\ vault = "unlocked"
  /\ counts = [other |-> 0, asked |-> 0, ticks |-> 0]

At(label) == status.at = label

Over == At("idle") /\ counts.asked = MaxAsked

\* What is stored changes, as the snapshot being taken may come to see.
Stores(settings) ==
  /\ stored' = settings
  /\ status' = IF At("idle") THEN status ELSE [status EXCEPT !.moments = @ \cup {settings}]

-----------------------------------------------------------------------------
(* Writes.                                                                   *)

Begin ==
  /\ todo["other"] = <<>> /\ counts.other < MaxOthers /\ ~Over
  /\ \E writes \in Others : todo' = [todo EXCEPT !["other"] = writes]
  /\ counts' = [counts EXCEPT !.other = @ + 1]
  /\ UNCHANGED <<stored, secrets, owners, status, last, vault>>

\* A setting is replaced: its secret is stored first, the old one is discarded afterwards.
Set(p, setting, owner) ==
  LET ref == Len(owners) + 1
      old == stored[setting]
  IN /\ vault = "unlocked"
     /\ owners' = Append(owners, owner)
     /\ secrets' = secrets \cup {ref}
     /\ Stores([stored EXCEPT ![setting] = ref])
     /\ todo' = [todo EXCEPT ![p] = (IF old = Nothing THEN <<>> ELSE <<[op |-> "discard", ref |-> old]>>) \o Tail(@)]

Clear(p, setting) ==
  LET old == stored[setting]
  IN /\ Stores([stored EXCEPT ![setting] = Nothing])
     /\ todo' = [todo EXCEPT ![p] = (IF old = Nothing THEN <<>> ELSE <<[op |-> "discard", ref |-> old]>>) \o Tail(@)]
     /\ UNCHANGED <<secrets, owners>>

\* A failure to discard is ignored.
Discard(p, ref) ==
  /\ secrets' = IF vault = "locked" THEN secrets ELSE secrets \ {ref}
  /\ todo' = [todo EXCEPT ![p] = Tail(@)]
  /\ UNCHANGED <<stored, owners, status>>

Step(p) ==
  /\ todo[p] # <<>> /\ ~Over
  /\ LET write == Head(todo[p]) IN
       \/ write.op = "set" /\ Set(p, write.setting, Len(owners) + 1)
       \/ write.op = "refresh" /\ stored.auth # Nothing /\ Set(p, "auth", owners[stored.auth])
       \/ write.op = "clear" /\ Clear(p, write.setting)
       \/ write.op = "discard" /\ Discard(p, write.ref)
  /\ UNCHANGED <<last, vault, counts>>

\* The other process ends: its session has gone or changed, the vault is locked, or it died.
Stop ==
  /\ todo["other"] # <<>> /\ ~Over
  /\ todo' = [todo EXCEPT !["other"] = <<>>]
  /\ UNCHANGED <<stored, secrets, owners, status, last, vault, counts>>

Lock ==
  /\ vault = "unlocked" /\ ~At("idle")
  /\ vault' = "locked"
  /\ UNCHANGED <<stored, secrets, owners, todo, status, last, counts>>

-----------------------------------------------------------------------------
(* The command.                                                              *)

Report(report) ==
  status' = [status EXCEPT !.at = "idle", !.left = <<>>, !.next = <<>>, !.row = Nothing, !.read = NoRead,
                           !.moments = {}, !.since = 0, !.report = report]

\* Begins to read the settings for a snapshot; a tick looks for a flow in progress first.
Reading(order, settings) ==
  [status EXCEPT !.at = "row", !.next = order, !.row = Nothing, !.read = NoRead, !.moments = {settings}, !.since = Len(owners)]

\* The pass at the head of `passes`.
Pass(passes, settings) ==
  [Reading(IF Head(passes) = "tick" THEN <<"pending">> ELSE ReadOrder, settings) EXCEPT
     !.at = IF Head(passes) = "tick" THEN "advance" ELSE "row", !.left = passes]

\* runAuthStatus(): a key of the command line is believed, and at most probed.
Ask ==
  /\ At("idle") /\ todo["status"] = <<>> /\ counts.asked < MaxAsked
  /\ \E options \in Options :
       IF status.source = "runtime"
       THEN /\ last' = [NoSnapshot EXCEPT !.frame = [shows |-> "api key", ref |-> Nothing]]
            /\ status' = [status EXCEPT !.options = options, !.at = IF options.probe THEN "request" ELSE "idle",
                                        !.user = Nothing, !.report = IF options.probe THEN "none" ELSE "frame"]
       ELSE /\ status' = [Pass(Passes(options), stored) EXCEPT !.options = options, !.user = Nothing, !.report = "none"]
            /\ last' = NoSnapshot
  /\ counts' = [counts EXCEPT !.asked = @ + 1, !.ticks = 0]
  /\ UNCHANGED <<stored, secrets, owners, todo, vault>>

\* Mistake: a session is shown while another login is pending.
ShowsSignedIn(read) ==
  CASE read.apiKey # Nothing -> [shows |-> "api key", ref |-> read.apiKey]
    [] read.apiKey = Nothing /\ read.auth # Nothing -> [shows |-> "device token", ref |-> read.auth]
    [] read.apiKey = Nothing /\ read.auth = Nothing /\ read.pending # Nothing -> [shows |-> "pending", ref |-> read.pending]
    [] OTHER -> [shows |-> "nobody", ref |-> Nothing]

\* composeAuthSnapshot(): a login in progress, then an API key, then a session.
Shows(read) ==
  CASE read.pending # Nothing -> [shows |-> "pending", ref |-> read.pending]
    [] read.pending = Nothing /\ read.apiKey # Nothing -> [shows |-> "api key", ref |-> read.apiKey]
    [] read.pending = Nothing /\ read.apiKey = Nothing /\ read.auth # Nothing -> [shows |-> "device token", ref |-> read.auth]
    [] OTHER -> [shows |-> "nobody", ref |-> Nothing]

SignedIn(frame) == frame.shows \in {"api key", "device token"}

\* A snapshot has been taken.  A poll ends with a sign-in, at once without an interval, or
\* with its last attempt.
Take(read, settings, moments) ==
  LET frame == Shows(read)
      pass == Head(status.left)
      goesOn == \/ pass = "check"
                \/ pass = "view" /\ status.options.probe /\ SignedIn(frame)
  IN /\ last' = [frame |-> frame, moments |-> moments, since |-> status.since]
     /\ IF goesOn THEN status' = Pass(Tail(status.left), settings) /\ UNCHANGED counts
        ELSE IF pass = "probe" /\ SignedIn(frame)
             THEN status' = [status EXCEPT !.at = "request", !.moments = moments] /\ UNCHANGED counts
        ELSE IF pass = "tick" /\ status.options.interval /\ ~SignedIn(frame) /\ counts.ticks + 1 < MaxTicks
             THEN status' = Pass(status.left, settings) /\ counts' = [counts EXCEPT !.ticks = @ + 1]
        ELSE Report("frame") /\ UNCHANGED counts

\* The next setting is read; after the last the snapshot is complete.  The record of a flow
\* in progress is the only one a tick reads before it polls.
Continue(value, settings) ==
  LET read == [status.read EXCEPT ![Head(status.next)] = value]
      moments == status.moments \cup {settings}
  IN IF status.at \in {"advance", "advance secret"}
     THEN /\ status' = IF value = Nothing THEN Reading(ReadOrder, settings)
                       ELSE [status EXCEPT !.at = "poll", !.moments = moments]
          /\ UNCHANGED <<last, counts>>
     ELSE IF Len(status.next) > 1
     THEN /\ status' = [status EXCEPT !.at = "row", !.next = Tail(@), !.row = Nothing, !.read = read, !.moments = moments]
          /\ UNCHANGED <<last, counts>>
     ELSE Take(read, settings, moments)

\* A record of a flow that has expired is removed and not seen.
ReadRow ==
  /\ At("row") \/ At("advance")
  /\ LET setting == Head(status.next)
         row == stored[setting]
     IN IF row = Nothing THEN Continue(Nothing, stored) /\ UNCHANGED <<stored, secrets>>
        ELSE \/ /\ status' = [status EXCEPT !.at = IF At("advance") THEN "advance secret" ELSE "secret", !.row = row]
                /\ UNCHANGED <<stored, secrets, last, counts>>
             \/ /\ setting = "pending"
                /\ stored' = [stored EXCEPT !.pending = Nothing]
                /\ secrets' = secrets \ {row}
                /\ Continue(Nothing, stored')
  /\ UNCHANGED <<owners, todo, vault>>

\* readStorageValue(): a secret that has gone counts as no setting.
ReadSecret ==
  /\ At("secret") \/ At("advance secret")
  /\ IF vault = "locked" THEN Report("vault locked") /\ UNCHANGED <<last, counts>>
     ELSE Continue(IF status.row \in secrets THEN status.row ELSE Nothing, stored)
  /\ UNCHANGED <<stored, secrets, owners, todo, vault>>

\* advancePendingFlow(): the tokens of an approved flow are stored and the rest is cleared.
Advance ==
  /\ At("poll") /\ todo["status"] = <<>>
  /\ \/ status' = Reading(ReadOrder, stored) /\ UNCHANGED todo  \* not approved yet
     \/ /\ todo' = [todo EXCEPT !["status"] =
                      <<Write("set", "auth"), Write("clear", "apiKey"), Write("clear", "pending")>>]
        /\ status' = [status EXCEPT !.at = "storing"]
     \/ Report("failed") /\ UNCHANGED todo
  /\ UNCHANGED <<stored, secrets, owners, last, vault, counts>>

Advanced ==
  /\ At("storing")
  /\ IF todo["status"] = <<>> THEN status' = Reading(ReadOrder, stored) /\ UNCHANGED todo
     ELSE /\ vault = "locked" /\ Head(todo["status"]).op = "set"
          /\ todo' = [todo EXCEPT !["status"] = <<>>] /\ Report("vault locked")
  /\ UNCHANGED <<stored, secrets, owners, last, vault, counts>>

\* The credential a request of this process carries.
Carried == CASE status.source = "saved" -> stored.apiKey
             [] status.source = "session" -> stored.auth
             [] OTHER -> Nothing

\* probeAuthStatus(): the account is asked for with what the process sends now, which may be
\* refused, or be nothing.
Probe ==
  /\ At("request")
  /\ \/ IF status.source = "runtime" \/ (Carried \in secrets /\ vault = "unlocked")
        THEN status' = [status EXCEPT !.at = "idle", !.left = <<>>, !.next = <<>>, !.report = "user",
                                      !.user = IF status.source = "runtime" THEN Nothing ELSE owners[Carried]]
        ELSE Report("probe failed")
     \/ Report("invalid")
     \/ Report("probe failed")
  /\ UNCHANGED <<stored, secrets, owners, todo, last, vault, counts>>

Next ==
  \/ Begin \/ Stop \/ Lock
  \/ \E p \in {"other", "status"} : Step(p)
  \/ Ask \/ ReadRow \/ ReadSecret \/ Advance \/ Advanced \/ Probe

Spec == Init /\ [][Next]_vars

TypeOK ==
  /\ stored \in [Settings -> {Nothing} \cup Refs] /\ secrets \subseteq Refs
  /\ last.frame.shows \in {"nothing yet", "pending", "api key", "device token", "nobody"}
  /\ status.at \in {"idle", "row", "secret", "advance", "advance secret", "poll", "storing", "request"}

-----------------------------------------------------------------------------
(* Properties.                                                               *)

\* The setting behind each frame.
Behind == [shows \in {"pending", "api key", "device token"} |->
             CASE shows = "pending" -> "pending" [] shows = "api key" -> "apiKey" [] OTHER -> "auth"]

\* A snapshot says who is signed in, or is signing in, only if that was stored while it was
\* taken; if nothing changed meanwhile it says what is stored; and it says that nobody is
\* signed in only of a moment with nobody, unless something new was stored meanwhile.  (The
\* code reads the session before the API key and both before the flow in progress, and a
\* device login replaces them in this order: nobody is seen where somebody always was.)
FrameTrue ==
  (last.frame.shows # "nothing yet" /\ status.source # "runtime") =>
    LET frame == last.frame
        moments == last.moments
    IN /\ frame.shows \in DOMAIN Behind => \E m \in moments : m[Behind[frame.shows]] = frame.ref
       /\ frame.shows = "nobody" =>
            \/ \E m \in moments : Shows(m).shows = "nobody"
            \/ \E m \in moments, setting \in Settings : m[setting] > last.since
       /\ Cardinality(moments) = 1 =>
            \A m \in moments : /\ frame.shows = "pending" <=> m.pending # Nothing
                               /\ frame.shows = "device token" => m.apiKey = Nothing

\* The account of a probe is the one of the sign-in it is shown with, unless this changed
\* in between, or the process decided for the other kind of credential before it changed.
UserTrue ==
  (At("idle") /\ status.report = "user" /\ status.source # "runtime") =>
    \/ Cardinality(status.moments) > 1
    \/ status.source # (IF last.frame.shows = "api key" THEN "saved" ELSE "session")
    \/ status.user = owners[last.frame.ref]

AuthStatusTrue == FrameTrue /\ UserTrue
=============================================================================
