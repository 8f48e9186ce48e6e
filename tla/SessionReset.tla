----------------------------- MODULE SessionReset -----------------------------
(***************************************************************************)
(* What a vault reset does to the processes of the user that live on: the  *)
(* MCP servers, which load the saved credentials when they start and look  *)
(* at the reset generation before they use them again (cli/src/cli.tsx),   *)
(* beside commands that log in and commands that reset the vault           *)
(* (cli/src/commands/vault, utils/storage.ts, secure-storage/sqlite.ts).   *)
(*                                                                         *)
(* A database is the file its path named when a process opened it: a       *)
(* process that has it open keeps it after a reset has removed the path.   *)
(* Every open of a path that names nothing makes a new, empty database.    *)
(* A shared vault service keeps its records in a database of its own, and  *)
(* its reset leaves the user's.                                            *)
(***************************************************************************)
EXTENDS Naturals, Sequences

CONSTANTS
  Servers,      \* MCP servers
  Commands,     \* processes of one command
  MaxSessions,  \* bound on the logins
  MaxMarks,     \* bound on the reset generations made
  MaxFiles      \* bound on the databases ever made

BoundsAssumption ==
  MaxSessions \in Nat /\ MaxMarks \in Nat /\ MaxFiles \in Nat \ {0} /\ Servers \cap Commands = {}

VARIABLES
  shared,    \* the vault is a shared service's
  file,      \* the database its path names, or NoFile
  data,      \* what each database holds: the reset generation and the session
  secrets,   \* the sessions whose tokens the vault has
  ready,     \* the vault has been initialised
  proc,      \* the processes
  marks,     \* generations made
  era,       \* history: for each session, the resets begun when it was saved
  resets,    \* history: resets begun
  torn,      \* history: a reset has removed the database and not made its generation
  astray     \* history: the last reset to begin has marked a database its path does not name

vars == <<shared, file, data, secrets, ready, proc, marks, era, resets, torn, astray>>

Processes == Servers \cup Commands
NoFile == 0
NoMark == 0      \* no "vault.reset_generation" setting
NoSession == 0

Files == 1..MaxFiles
Marks == 0..MaxMarks
Sessions == 1..MaxSessions

Labels == {"new", "load", "serving", "check", "prepare", "use", "unlock", "put", "commit",
           "invalidate", "wipe", "sidecar", "local", "over"}

\* handle: the database authStorage has open.  mark: resetGeneration.
\* unread: credentialReadError.  since: the resets begun when it opened its
\* database.  checked: those begun when its command last looked.  told: the
\* generation it read then was the last reset's.  alone: none was under way.
Process == [at : Labels, op : {"none", "use", "login"}, handle : {NoFile} \cup Files, mark : Marks,
            invalid : BOOLEAN, unread : BOOLEAN, session : {NoSession} \cup Sessions,
            since : 0..MaxMarks, checked : 0..MaxMarks, told : BOOLEAN, alone : BOOLEAN]

NewProcess == [at |-> "new", op |-> "none", handle |-> NoFile, mark |-> NoMark, invalid |-> FALSE,
               unread |-> FALSE, session |-> NoSession, since |-> 0, checked |-> 0,
               told |-> FALSE, alone |-> FALSE]

Over == [NewProcess EXCEPT !.at = "over"]

Empty == [mark |-> NoMark, session |-> NoSession]

TypeOK ==
  /\ shared \in BOOLEAN /\ ready \in BOOLEAN /\ torn \in BOOLEAN /\ astray \in BOOLEAN
  /\ file \in {NoFile} \cup Files
  /\ data \in Seq([mark : Marks, session : {NoSession} \cup Sessions]) /\ Len(data) <= MaxFiles
  /\ secrets \subseteq Sessions
  /\ proc \in [Processes -> Process]
  /\ marks \in Marks /\ resets \in 0..MaxMarks
  /\ era \in Seq(0..MaxMarks) /\ Len(era) <= MaxSessions

Init ==
  /\ shared \in BOOLEAN
  /\ file = NoFile /\ data = <<>>
  /\ secrets = {} /\ ready = FALSE
  /\ proc = [p \in Processes |-> NewProcess]
  /\ marks = 0 /\ era = <<>> /\ resets = 0 /\ torn = FALSE /\ astray = FALSE

-----------------------------------------------------------------------------
(* The database.                                                            *)

\* The databases and the one the path names, once a process has made sure
\* that there is one (ensureDatabasePath, DatabaseSync).
Ensured == IF file = NoFile THEN Append(data, Empty) ELSE data
Path == IF file = NoFile THEN Len(data) + 1 ELSE file
CanOpen == Path <= MaxFiles

\* A plausible bug: it is read through the database that is open.
OwnGeneration(p) == IF proc[p].handle = NoFile THEN Ensured[Path].mark ELSE data[proc[p].handle].mark

\* The generation is read through a repository of its own, opened for it and
\* closed again, never through the one that is open.
ResetGeneration(p) == Ensured[Path].mark

UnderWay == torn \/ \E q \in Processes : proc[q].at \in {"wipe", "sidecar", "local"}

\* A database that was closed is opened again when it is needed.
Opened(c) == IF c.handle = NoFile THEN [c EXCEPT !.handle = Path, !.since = resets] ELSE c

Looked(c) == [c EXCEPT !.checked = resets, !.told = ~torn /\ ~astray, !.alone = ~UnderWay]

Set(p, q) == proc' = [proc EXCEPT ![p] = q]

\* A server goes on when a tool ends, a command does not.
Ended(p) ==
  IF p \in Servers
  THEN [proc[p] EXCEPT !.at = "serving", !.op = "none", !.session = NoSession, !.checked = 0,
                       !.told = FALSE, !.alone = FALSE]
  ELSE Over

-----------------------------------------------------------------------------
(* An MCP server starts: the generation, then the saved API key.            *)

Capture(p) ==
  /\ proc[p].at = "new" /\ p \in Servers /\ CanOpen
  /\ data' = Ensured /\ file' = Path
  /\ Set(p, [proc[p] EXCEPT !.at = "load", !.mark = ResetGeneration(p)])
  /\ UNCHANGED <<shared, secrets, ready, marks, era, resets, torn, astray>>

\* A vault that is locked or gone is remembered for every later command.
Load(p) ==
  /\ proc[p].at = "load" /\ CanOpen
  /\ data' = Ensured /\ file' = Path
  /\ \E unread \in BOOLEAN :
       /\ Ensured[Path].session \notin {NoSession} \cup secrets => unread
       /\ Set(p, [Opened(proc[p]) EXCEPT !.at = "serving", !.unread = unread])
  /\ UNCHANGED <<shared, secrets, ready, marks, era, resets, torn, astray>>

\* A tool is called: one that needs the saved credentials, a login, or a reset
\* (vault_reset, auth_logout), which does not look at the generation.
Call(p) ==
  /\ proc[p].at = "serving"
  /\ \/ \E op \in {"use", "login"} : Set(p, [proc[p] EXCEPT !.at = "check", !.op = op])
     \/ Set(p, [proc[p] EXCEPT !.at = "invalidate"])
  /\ UNCHANGED <<shared, file, data, secrets, ready, marks, era, resets, torn, astray>>

\* assertMcpCredentials: a server that has been refused once stays refused.
Assert(p, next) ==
  LET invalid == proc[p].invalid \/ ResetGeneration(p) # proc[p].mark IN
  /\ CanOpen
  /\ data' = Ensured /\ file' = Path
  /\ Set(p, 
       IF invalid \/ proc[p].unread THEN [Ended(p) EXCEPT !.invalid = invalid]
       ELSE Looked([Opened(proc[p]) EXCEPT !.at = next]))
  /\ UNCHANGED <<shared, secrets, ready, marks, era, resets, torn, astray>>

Check(p) == proc[p].at = "check" /\ Assert(p, "prepare")

\* The vault is unlocked if there is one, and the generation read again.
Prepare(p) == proc[p].at = "prepare" /\ Assert(p, IF proc[p].op = "use" THEN "use" ELSE "put")

PrepareFails(p) ==
  /\ proc[p].at = "prepare"
  /\ Set(p, Ended(p))
  /\ UNCHANGED <<shared, file, data, secrets, ready, marks, era, resets, torn, astray>>

\* Whether the tokens of the session are there or not, the command ends.
Use(p) ==
  /\ proc[p].at = "use"
  /\ Set(p, Ended(p))
  /\ UNCHANGED <<shared, file, data, secrets, ready, marks, era, resets, torn, astray>>

-----------------------------------------------------------------------------
(* A login, by a command or by a server.                                    *)

BeginLogin(p) ==
  /\ proc[p].at = "new" /\ p \in Commands /\ CanOpen
  /\ data' = Ensured /\ file' = Path
  /\ Set(p, Looked([Opened(proc[p]) EXCEPT !.at = "unlock"]))
  /\ UNCHANGED <<shared, secrets, ready, marks, era, resets, torn, astray>>

\* The vault is unlocked, and made if there is none.
Unlock(p) ==
  /\ proc[p].at = "unlock"
  /\ ready' = TRUE
  /\ Set(p, [proc[p] EXCEPT !.at = "put"])
  /\ UNCHANGED <<shared, file, data, secrets, marks, era, resets, torn, astray>>

\* The tokens are granted and go to the vault.
Put(p) ==
  /\ proc[p].at = "put" /\ ready /\ Len(era) < MaxSessions
  /\ secrets' = secrets \cup {Len(era) + 1}
  /\ era' = Append(era, resets)
  /\ Set(p, [proc[p] EXCEPT !.at = "commit", !.session = Len(era) + 1])
  /\ UNCHANGED <<shared, file, data, ready, marks, resets, torn, astray>>

PutFails(p) ==
  /\ proc[p].at = "put" /\ ~ready
  /\ Set(p, Ended(p))
  /\ UNCHANGED <<shared, file, data, secrets, ready, marks, era, resets, torn, astray>>

\* The setting, and the end of the session it replaces.
Commit(p) ==
  LET c == proc[p] IN
  /\ c.at = "commit"
  /\ data' = [data EXCEPT ![c.handle].session = c.session]
  /\ secrets' = secrets \ {data[c.handle].session}
  /\ Set(p, Ended(p))
  /\ UNCHANGED <<shared, file, ready, marks, era, resets, torn, astray>>

-----------------------------------------------------------------------------
(* A reset: sessions are invalidated, the vault removes what it has, and    *)
(* the local state is cleared.                                              *)

BeginReset(p) ==
  /\ proc[p].at = "new" /\ p \in Commands
  /\ Set(p, [proc[p] EXCEPT !.at = "invalidate"])
  /\ UNCHANGED <<shared, file, data, secrets, ready, marks, era, resets, torn, astray>>

\* Through the database that is open, if one is; the path is made sure of all
\* the same.
InvalidateSessions(p) ==
  LET into == IF proc[p].handle = NoFile THEN Path ELSE proc[p].handle IN
  /\ proc[p].at = "invalidate" /\ CanOpen /\ marks + 1 < MaxMarks
  /\ data' = [Ensured EXCEPT ![into].mark = marks + 1]
  /\ file' = Path
  /\ marks' = marks + 1 /\ resets' = resets + 1
  /\ astray' = (into # Path)
  /\ Set(p, [proc[p] EXCEPT !.at = "wipe", !.handle = NoFile])
  /\ UNCHANGED <<shared, secrets, ready, era, torn>>

\* The vault locks itself and removes the database (a service its own).
Wipe(p) ==
  /\ proc[p].at = "wipe"
  /\ secrets' = {}
  /\ file' = IF shared THEN file ELSE NoFile
  /\ torn' = (torn \/ ~shared)
  /\ Set(p, [proc[p] EXCEPT !.at = "sidecar"])
  /\ UNCHANGED <<shared, data, ready, marks, era, resets, astray>>

\* The daemon does not answer: the command fails, and a server goes on.
WipeFails(p) ==
  /\ proc[p].at \in {"wipe", "sidecar"}
  /\ Set(p, Ended(p))
  /\ UNCHANGED <<shared, file, data, secrets, ready, marks, era, resets, torn, astray>>

Sidecar(p) ==
  /\ proc[p].at = "sidecar"
  /\ ready' = FALSE /\ secrets' = {}
  /\ Set(p, [proc[p] EXCEPT !.at = "local"])
  /\ UNCHANGED <<shared, file, data, marks, era, resets, torn, astray>>

\* The database of the path, which may be a new one, is cleared and given a
\* generation of its own.
ResetLocalState(p) ==
  /\ proc[p].at = "local" /\ CanOpen /\ marks < MaxMarks
  /\ data' = [Ensured EXCEPT ![Path] = [Empty EXCEPT !.mark = marks + 1]]
  /\ file' = Path
  /\ marks' = marks + 1
  /\ torn' = FALSE /\ astray' = FALSE
  /\ Set(p, IF p \in Servers THEN Opened(Ended(p)) ELSE Over)
  /\ UNCHANGED <<shared, secrets, ready, era, resets>>

-----------------------------------------------------------------------------
\* A process is killed at any step.
Crash(p) ==
  /\ proc[p].at \notin {"new", "over"}
  /\ Set(p, Over)
  /\ UNCHANGED <<shared, file, data, secrets, ready, marks, era, resets, torn, astray>>

Step(p) ==
  \/ Capture(p) \/ Load(p) \/ Call(p) \/ Check(p) \/ Prepare(p) \/ PrepareFails(p) \/ Use(p)
  \/ BeginLogin(p) \/ Unlock(p) \/ Put(p) \/ PutFails(p) \/ Commit(p)
  \/ BeginReset(p) \/ InvalidateSessions(p) \/ Wipe(p) \/ WipeFails(p) \/ Sidecar(p)
  \/ ResetLocalState(p) \/ Crash(p)

Next == \E p \in Processes : Step(p)

Spec == Init /\ [][Next]_vars

-----------------------------------------------------------------------------
(* Properties.                                                              *)

\* "After logout or vault reset, reconnect MCP sessions that use saved
\* credentials." (cli/README.md, auth logout): a server never acts with a
\* session saved after a reset that began before the server last looked and
\* after it loaded its own.  A reset that is cut after it removed the database
\* leaves no generation to look at, and one that a server begins whose database
\* another reset has removed leaves its generation there, where nobody looks.
Reconnected ==
  \A p \in Servers :
    LET c == proc[p] IN
    c.at = "use" /\ data[c.handle].session \in secrets =>
      LET saved == era[data[c.handle].session] IN saved <= c.since \/ c.checked < saved \/ ~c.told

\* A login is saved where the next process will look, unless a reset was under
\* way when it began, or began after it.
LoginFound ==
  \A p \in Processes :
    LET c == proc[p] IN c.at = "commit" => c.handle = file \/ c.checked < resets \/ ~c.alone

SessionsKeptApart == Reconnected /\ LoginFound
===============================================================================
