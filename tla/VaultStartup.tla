---------------------------- MODULE VaultStartup ----------------------------
(***************************************************************************)
(* How CLI processes find, start, replace and reset the vault daemon       *)
(* (cli/src/commands/vault/index.ts), and how a daemon takes and gives up  *)
(* the socket path and the vault files (vault-daemon.ts, vault-socket.ts,  *)
(* vault-files.ts).                                                        *)
(*                                                                         *)
(* Processes share the file system and nothing else: every look at the     *)
(* path, every request and every removal is a step of its own.  A request  *)
(* and its answer are one step; a daemon that is too slow for the deadline *)
(* of a client looks like a daemon that is not there.  Clocks are left     *)
(* out: a deadline may pass in every state its loop can be in.             *)
(***************************************************************************)
EXTENDS Naturals

CONSTANTS
  Clis,         \* CLI processes
  Daemons,      \* daemon processes, numbered in the order they start
  Builds,       \* build, version and executable of a CLI or daemon
  Nobody,
  MaxCommands,  \* bound: commands of all CLIs
  MaxFaults     \* bound: kills, expiries and answers later than a deadline

ASSUME DaemonsAssumption == Daemons \subseteq Nat /\ 1 \in Daemons /\ Nobody \notin Daemons
ASSUME BuildsAssumption == Builds # {}
ASSUME BoundsAssumption == MaxCommands \in Nat /\ MaxFaults \in Nat

VARIABLES
  shared,     \* the service of the operating system is the daemon
  trusting,   \* CLIs of a build accept the signature of daemons of another
  path,       \* the daemon that bound the file at the socket path, or Nobody: no file
  database,   \* the vault database at its path; 0: no file
  sidecar,    \* the vault header exists
  made,       \* databases ever created
  daemon,     \* every daemon process
  cli,        \* every CLI process
  commands, faults

files == <<path, database, sidecar, made>>
host  == <<shared, trusting>>
vars  == <<host, files, daemon, cli, commands, faults>>

Stages == {"unborn", "spawned", "opened", "unlinking", "cleared", "bound", "serving",
           "asked", "closing", "exited"}

Daemon == [stage : Stages, build : Builds, unlocked : BOOLEAN]

Points == {"idle", "look", "inspect", "waitGone", "stop", "waitStop", "spawn", "poll", "service",
           "find", "reset", "waitReset", "remove", "ask", "prompt", "confirm", "status", "done", "failed"}

Cli == [op : {"ensure", "unlock", "reset", "status"}, at : Points, build : Builds,
        child : Daemons \cup {Nobody}, db : Nat]

TypeOK ==
  /\ shared \in BOOLEAN /\ trusting \in BOOLEAN
  /\ path \in Daemons \cup {Nobody}
  /\ database \in Nat /\ made \in Nat /\ sidecar \in BOOLEAN
  /\ daemon \in [Daemons -> Daemon]
  /\ cli \in [Clis -> Cli]
  /\ commands \in 0..MaxCommands /\ faults \in 0..MaxFaults

Unborn == [stage |-> "unborn", build |-> CHOOSE b \in Builds : TRUE, unlocked |-> FALSE]

\* A CLI process without a command.
Rest(point) == [op |-> "status", at |-> point, build |-> CHOOSE b \in Builds : TRUE, child |-> Nobody, db |-> 0]

\* An installation with or without vault files, and with no daemon, a running
\* one of either build, or the socket of one that was killed.
Init ==
  /\ shared \in BOOLEAN /\ trusting \in BOOLEAN
  /\ \E known \in BOOLEAN :
       /\ sidecar = known
       /\ database = IF known THEN 1 ELSE 0
       /\ made = IF known THEN 1 ELSE 0
       /\ \/ path = Nobody /\ daemon = [d \in Daemons |-> Unborn]
          \/ /\ known
             /\ \E b \in Builds, s \in {"serving", "exited"} :
                  /\ path = 1
                  /\ daemon = [[d \in Daemons |-> Unborn] EXCEPT
                                 ![1] = [stage |-> s, build |-> IF s = "exited" THEN @.build ELSE b, unlocked |-> FALSE]]
  /\ cli = [c \in Clis |-> Rest("idle")]
  /\ commands = 0 /\ faults = 0

-----------------------------------------------------------------------------
(* A request of a client.                                                   *)

Listens(d) == daemon[d].stage \in {"bound", "serving", "asked"}

Reachable == path # Nobody /\ Listens(path)

\* The client checks the signature of the process behind the socket.
Trusts(c, d) == trusting \/ daemon[d].build = cli[c].build

Compatible(c, d) == daemon[d].build = cli[c].build

\* isVaultPeerRecoveryTrigger()
Distrusted(c) == Reachable /\ ~Trusts(c, path)

\* isVaultDaemonUnavailable(): nobody listens, or the answer comes after the deadline.
Unavailable(c) ==
  \/ ~Reachable /\ UNCHANGED faults
  \/ Reachable /\ Trusts(c, path) /\ faults < MaxFaults /\ faults' = faults + 1

Answers(c) == Reachable /\ Trusts(c, path) /\ UNCHANGED faults

Goto(c, point) ==
  cli' = [cli EXCEPT ![c] = IF point \in {"done", "failed"} THEN Rest(point) ELSE [@ EXCEPT !.at = point]]

-----------------------------------------------------------------------------
(* A daemon.                                                                *)

\* The end of a process, whatever it was doing.
Ended(ds, d) == [ds EXCEPT ![d] = [Unborn EXCEPT !.stage = "exited"]]

\* spawn(): the daemon has the build of the CLI that starts it.
Spawned(d, b) == [daemon EXCEPT ![d].stage = "spawned", ![d].build = b]

\* repository.initialize() opens the database or makes one.
Open(d) ==
  /\ daemon[d].stage = "spawned"
  /\ IF database = 0
     THEN database' = made + 1 /\ made' = made + 1
     ELSE UNCHANGED <<database, made>>
  /\ daemon' = [daemon EXCEPT ![d].stage = "opened"]
  /\ UNCHANGED <<host, path, sidecar, cli, commands, faults>>

\* prepareSocketPath(): a socket that answers belongs to another daemon.
Prepare(d) ==
  /\ daemon[d].stage = "opened"
  /\ daemon' = IF Reachable THEN Ended(daemon, d)
               ELSE [daemon EXCEPT ![d].stage = IF path = Nobody THEN "cleared" ELSE "unlinking"]
  /\ UNCHANGED <<host, files, cli, commands, faults>>

Unlink(d) ==
  /\ daemon[d].stage = "unlinking"
  /\ path' = Nobody
  /\ daemon' = [daemon EXCEPT ![d].stage = "cleared"]
  /\ UNCHANGED <<host, database, sidecar, made, cli, commands, faults>>

\* listen(): the address is in use if there is a file, whoever made it.
Bind(d) ==
  /\ daemon[d].stage = "cleared"
  /\ path' = IF path = Nobody THEN d ELSE path
  /\ daemon' = IF path = Nobody THEN [daemon EXCEPT ![d].stage = "bound"] ELSE Ended(daemon, d)
  /\ UNCHANGED <<host, database, sidecar, made, cli, commands, faults>>

\* chmod() of the path; from here on the daemon can be closed.
Secure(d) ==
  /\ daemon[d].stage = "bound"
  /\ daemon' = IF path = Nobody THEN Ended(daemon, d) ELSE [daemon EXCEPT ![d].stage = "serving"]
  /\ UNCHANGED <<host, files, cli, commands, faults>>

\* close(): after onShutdown, on a signal, or when the lifetime expires.
Asked(ds, d) ==
  [ds EXCEPT ![d].stage = IF @ = "serving" THEN "asked" ELSE @, ![d].unlocked = FALSE]

\* backend.lock()
Locked(ds, d) == [ds EXCEPT ![d].unlocked = FALSE]

CloseServer(d) ==
  /\ daemon[d].stage = "asked"
  /\ daemon' = [daemon EXCEPT ![d].stage = "closing"]
  /\ UNCHANGED <<host, files, cli, commands, faults>>

\* closeServer() removes the path, and the repository is closed.
Exit(d) ==
  /\ daemon[d].stage = "closing"
  /\ path' = Nobody
  /\ daemon' = Ended(daemon, d)
  /\ UNCHANGED <<host, database, sidecar, made, cli, commands, faults>>

\* The idle timer or a wake after a sleep closes a daemon.
Expire(d) ==
  /\ ~shared /\ daemon[d].stage = "serving" /\ daemon[d].unlocked /\ faults < MaxFaults
  /\ faults' = faults + 1
  /\ daemon' = Asked(daemon, d)
  /\ UNCHANGED <<host, files, cli, commands>>

\* A daemon is killed and leaves its socket behind.
Kill(d) ==
  /\ daemon[d].stage \notin {"unborn", "exited"} /\ faults < MaxFaults
  /\ faults' = faults + 1
  /\ daemon' = Ended(daemon, d)
  /\ UNCHANGED <<host, files, cli, commands>>

\* The operating system starts its service, which owns the path it is given.
StartService(d) ==
  /\ shared /\ daemon[d].stage = "unborn" /\ \A e \in Daemons : daemon[e].stage \in {"unborn", "exited"}
  /\ \E b \in Builds : daemon' = [daemon EXCEPT ![d] = [stage |-> "serving", build |-> b, unlocked |-> FALSE]]
  /\ path' = d
  /\ UNCHANGED <<host, database, sidecar, made, cli, commands, faults>>

-----------------------------------------------------------------------------
(* A CLI: every command starts here.                                        *)

Begin(c) ==
  /\ cli[c].at \in {"idle", "done", "failed"} /\ commands < MaxCommands
  /\ \E op \in {"ensure", "unlock", "reset", "status"}, b \in Builds :
       cli' = [cli EXCEPT ![c] = [op |-> op, build |-> b, child |-> Nobody, db |-> 0,
                                  at |-> CASE op = "reset"  -> "find"
                                           [] op = "status" -> "status"
                                           [] OTHER         -> "look"]]
  /\ commands' = commands + 1
  /\ UNCHANGED <<host, files, daemon, faults>>

\* What the other commands ask of the daemon they have ensured is VaultService's.
Ensured(c) == IF cli[c].op = "unlock" THEN "ask" ELSE "done"

\* ensureLocalVaultDaemonWithClient(): canUseDaemon().
Look(c) ==
  /\ cli[c].at = "look"
  /\ \/ /\ Answers(c)
        /\ Goto(c, IF Compatible(c, path) THEN Ensured(c) ELSE IF shared THEN "service" ELSE "stop")
     \/ Unavailable(c) /\ Goto(c, IF shared THEN "service" ELSE "stop")
     \/ Distrusted(c) /\ Goto(c, IF shared THEN "failed" ELSE "inspect") /\ UNCHANGED faults
  /\ UNCHANGED <<host, files, daemon, commands>>

\* shutdownUnverifiedLocalVaultDaemon(): the process behind the path is told to
\* end, whoever it is by now.
Inspect(c) ==
  /\ cli[c].at = "inspect"
  /\ IF Reachable
     THEN /\ daemon' = IF daemon[path].stage = "bound"
                       THEN Ended(daemon, path)
                       ELSE Asked(daemon, path)
          /\ cli' = [cli EXCEPT ![c].at = "waitGone", ![c].child = path]
     ELSE Goto(c, "failed") /\ UNCHANGED daemon
  /\ UNCHANGED <<host, files, commands, faults>>

\* The process has ended and the path does not answer, within two seconds.
Gone(c) ==
  /\ cli[c].at = "waitGone" /\ daemon[cli[c].child].stage = "exited" /\ ~Reachable
  /\ IF cli[c].op = "status" THEN Goto(c, "done")
     ELSE cli' = [cli EXCEPT ![c].at = "stop", ![c].child = Nobody]
  /\ UNCHANGED <<host, files, daemon, commands, faults>>

\* shutdownStaleDaemon() and shutdownReachableDaemon(): daemon.shutdown goes to
\* whichever daemon listens by now; it locks, answers and then closes.
Stop(c) ==
  LET next == IF cli[c].op = "reset" THEN "remove" ELSE "spawn" IN
  /\ cli[c].at = "stop"
  /\ \/ Answers(c) /\ daemon' = Asked(daemon, path) /\ Goto(c, "waitStop")
     \/ Unavailable(c) /\ Goto(c, next) /\ UNCHANGED daemon
     \/ Distrusted(c) /\ Goto(c, "failed") /\ UNCHANGED <<daemon, faults>>
  /\ UNCHANGED <<host, files, commands>>

\* A status request that fails ends the wait; ensure takes every failure for
\* the end of the daemon, reset only the absence of one.
Stopped(c) ==
  /\ cli[c].at = "waitStop"
  /\ \/ Unavailable(c) /\ Goto(c, IF cli[c].op = "reset" THEN "remove" ELSE "spawn")
     \/ Distrusted(c) /\ Goto(c, IF cli[c].op = "reset" THEN "failed" ELSE "spawn") /\ UNCHANGED faults
  /\ UNCHANGED <<host, files, daemon, commands>>

Spawn(c) ==
  /\ cli[c].at = "spawn"
  /\ \E d \in Daemons :
       /\ daemon[d].stage = "unborn" /\ \A e \in Daemons : daemon[e].stage = "unborn" => d <= e
       /\ daemon' = Spawned(d, cli[c].build)
       /\ cli' = [cli EXCEPT ![c].at = "poll", ![c].child = d]
  /\ UNCHANGED <<host, files, commands, faults>>

\* Every 25 ms, until the child ends or a minute has passed.
Poll(c) ==
  /\ cli[c].at = "poll"
  /\ \/ Answers(c) /\ Compatible(c, path) /\ daemon[cli[c].child].stage # "exited" /\ Goto(c, Ensured(c))
     \/ Distrusted(c) /\ Goto(c, "failed") /\ UNCHANGED faults
     \/ daemon[cli[c].child].stage = "exited" /\ Goto(c, "failed") /\ UNCHANGED faults
  /\ UNCHANGED <<host, files, daemon, commands>>

\* The shared service is waited for, never started.
Service(c) ==
  /\ cli[c].at = "service"
  /\ \/ Answers(c) /\ Compatible(c, path) /\ Goto(c, Ensured(c))
     \/ Distrusted(c) /\ Goto(c, "failed") /\ UNCHANGED faults
  /\ UNCHANGED <<host, files, daemon, commands>>

\* Mistake: the loop that waits for the child has no deadline.
DeadlineWithoutPoll(c) ==
  /\ cli[c].at \in {"waitGone", "waitStop", "service", "waitReset"}
  /\ Goto(c, "failed")
  /\ UNCHANGED <<host, files, daemon, commands, faults>>

\* The deadline of a loop passes.
Deadline(c) ==
  /\ cli[c].at \in {"waitGone", "waitStop", "poll", "service", "waitReset"}
  /\ Goto(c, "failed")
  /\ UNCHANGED <<host, files, daemon, commands, faults>>

-----------------------------------------------------------------------------
(* vault unlock and the commands that need an unlocked vault.               *)

\* The lock state before the human is asked, which any daemon tells; an agent
\* gives up here.
Ask(c) ==
  /\ cli[c].at = "ask"
  /\ \/ /\ Answers(c)
        /\ \E next \in IF daemon[path].unlocked THEN {"done"} ELSE {"prompt", "failed"} : Goto(c, next)
     \/ Unavailable(c) /\ Goto(c, "failed")
     \/ Distrusted(c) /\ Goto(c, "failed") /\ UNCHANGED faults
  /\ UNCHANGED <<host, files, daemon, commands>>

\* client.unlock() once the human has answered; the daemon makes the header
\* if there is none.
Unlock(c) ==
  /\ cli[c].at = "prompt"
  /\ \/ /\ Answers(c) /\ Compatible(c, path)
        /\ daemon' = [daemon EXCEPT ![path].unlocked = TRUE]
        /\ sidecar' = TRUE
        /\ Goto(c, "confirm")
     \/ Answers(c) /\ Goto(c, "failed") /\ UNCHANGED <<daemon, sidecar>>
     \/ Unavailable(c) /\ Goto(c, "failed") /\ UNCHANGED <<daemon, sidecar>>
     \/ Distrusted(c) /\ Goto(c, "failed") /\ UNCHANGED <<daemon, sidecar, faults>>
  /\ UNCHANGED <<host, path, database, made, commands>>

\* readVaultStatus() again: the command succeeds if the vault is still unlocked.
Confirm(c) ==
  /\ cli[c].at = "confirm"
  /\ \/ Answers(c) /\ Goto(c, IF daemon[path].unlocked THEN "done" ELSE "failed")
     \/ Unavailable(c) /\ Goto(c, "failed")
     \/ Distrusted(c) /\ Goto(c, "failed") /\ UNCHANGED faults
  /\ UNCHANGED <<host, files, daemon, commands>>

\* readVaultStatusWithoutStarting(): without a daemon the sidecar tells.
Status(c) ==
  /\ cli[c].at = "status"
  /\ \/ Answers(c) /\ Goto(c, "done")
     \/ Unavailable(c) /\ Goto(c, IF shared THEN "look" ELSE "done")
     \/ Distrusted(c) /\ Goto(c, IF shared THEN "failed" ELSE "inspect") /\ UNCHANGED faults
  /\ UNCHANGED <<host, files, daemon, commands>>

-----------------------------------------------------------------------------
(* vault reset.                                                             *)

\* Mistake: a shared service that does not answer is taken for none at all.
FindAlone(c) ==
  LET next(point) == IF point = "failed" THEN Goto(c, point)
                     ELSE cli' = [cli EXCEPT ![c].at = point, ![c].db = database] IN
  /\ cli[c].at = "find"
  /\ \/ Answers(c) /\ next(IF Compatible(c, path) THEN "reset" ELSE IF shared THEN "failed" ELSE "stop")
     \/ Unavailable(c) /\ next("remove")
     \/ Distrusted(c) /\ next("failed") /\ UNCHANGED faults
  /\ UNCHANGED <<host, files, daemon, commands>>

\* existingDaemonState() and invalidateSessions().
Find(c) ==
  LET next(point) == IF point = "failed" THEN Goto(c, point)
                     ELSE cli' = [cli EXCEPT ![c].at = point, ![c].db = database] IN
  /\ cli[c].at = "find"
  /\ \/ Answers(c) /\ next(IF Compatible(c, path) THEN "reset" ELSE IF shared THEN "failed" ELSE "stop")
     \/ Unavailable(c) /\ next(IF shared THEN "failed" ELSE "remove")
     \/ Distrusted(c) /\ next("failed") /\ UNCHANGED faults
  /\ UNCHANGED <<host, files, daemon, commands>>

\* Mistake: a daemon that has gone by now is taken for one that has reset the vault.
ResetGone(c) ==
  /\ cli[c].at = "reset"
  /\ \/ /\ Answers(c) /\ Compatible(c, path)
        /\ database' = 0 /\ sidecar' = FALSE
        /\ IF shared
           THEN daemon' = Locked(daemon, path) /\ Goto(c, "done") /\ UNCHANGED path
           ELSE daemon' = Asked(daemon, path) /\ Goto(c, "waitReset") /\ path' = Nobody
     \/ Answers(c) /\ ~Compatible(c, path) /\ Goto(c, "failed") /\ UNCHANGED <<daemon, path, database, sidecar>>
     \/ Unavailable(c) /\ Goto(c, "done") /\ UNCHANGED <<daemon, path, database, sidecar>>
     \/ Distrusted(c) /\ Goto(c, "failed") /\ UNCHANGED <<daemon, path, database, sidecar, faults>>
  /\ UNCHANGED <<host, made, commands>>

\* client.reset(): a daemon of the same build locks and removes the files; a
\* local one removes the path too, answers and closes.
Reset(c) ==
  /\ cli[c].at = "reset"
  /\ \/ /\ Answers(c) /\ Compatible(c, path)
        /\ database' = 0 /\ sidecar' = FALSE
        /\ IF shared
           THEN daemon' = Locked(daemon, path) /\ Goto(c, "done") /\ UNCHANGED path
           ELSE daemon' = Asked(daemon, path) /\ Goto(c, "waitReset") /\ path' = Nobody
     \/ Answers(c) /\ ~Compatible(c, path) /\ Goto(c, "failed") /\ UNCHANGED <<daemon, path, database, sidecar>>
     \/ Unavailable(c) /\ Goto(c, "failed") /\ UNCHANGED <<daemon, path, database, sidecar>>
     \/ Distrusted(c) /\ Goto(c, "failed") /\ UNCHANGED <<daemon, path, database, sidecar, faults>>
  /\ UNCHANGED <<host, made, commands>>

\* waitForDaemonShutdown(), then resetLocalState().
ResetDone(c) ==
  /\ cli[c].at = "waitReset"
  /\ \/ Unavailable(c) /\ Goto(c, "done")
     \/ Distrusted(c) /\ Goto(c, "failed") /\ UNCHANGED faults
  /\ UNCHANGED <<host, files, daemon, commands>>

\* removeVaultLocalState(), then resetLocalState().
Remove(c) ==
  /\ cli[c].at = "remove"
  /\ database' = 0 /\ sidecar' = FALSE /\ path' = Nobody
  /\ Goto(c, "done")
  /\ UNCHANGED <<host, made, daemon, commands, faults>>

-----------------------------------------------------------------------------
Step(c) ==
  \/ Look(c) \/ Inspect(c) \/ Gone(c) \/ Stop(c) \/ Stopped(c) \/ Spawn(c) \/ Poll(c) \/ Service(c)
  \/ Ask(c) \/ Unlock(c) \/ Confirm(c) \/ Status(c)
  \/ Find(c) \/ Reset(c) \/ ResetDone(c) \/ Remove(c)

Run(d) == Open(d) \/ Prepare(d) \/ Unlink(d) \/ Bind(d) \/ Secure(d) \/ CloseServer(d) \/ Exit(d)

Next ==
  \/ \E c \in Clis : Begin(c) \/ Step(c) \/ Deadline(c)
  \/ \E d \in Daemons : Run(d) \/ Expire(d) \/ Kill(d) \/ StartService(d)

Spec == Init /\ [][Next]_vars

\* A CLI that can go on does, its deadlines pass, and a daemon is scheduled.
Fairness ==
  /\ \A c \in Clis : WF_vars(Step(c)) /\ WF_vars(Deadline(c))
  /\ \A d \in Daemons : WF_vars(Run(d))

FairSpec == Spec /\ Fairness
-----------------------------------------------------------------------------
(* Properties.                                                              *)

\* A vault reset that reports success has made the database it found
\* unreachable: whatever daemons stopped, started or took over meanwhile, the
\* file at the path is gone or is a later one.
ResetForgets ==
  [][\A c \in Clis :
       cli[c].op = "reset" /\ cli[c].at \notin {"done", "idle"} /\ cli'[c].at = "done"
         => database' = 0 \/ database' # cli[c].db]_vars

\* The service of the operating system serves other users: no step of a CLI
\* stops it or takes away its socket, even while it is too slow to answer.
ServiceKept ==
  [][shared /\ cli' # cli => path' = path /\ \A d \in Daemons : daemon'[d].stage = daemon[d].stage]_vars

\* Every command ends, whichever daemon comes, goes or hangs under it.  There are
\* MaxCommands of them, so that none goes on for ever just when again and again
\* none is left.
CommandsEnd == []<>(\A c \in Clis : cli[c].at \in {"idle", "done", "failed"})

\* A starting daemon never removes the socket of a daemon that is reachable
\* (the test of startVaultSocketServer).  Two daemons that start together do.
SocketKept ==
  [][\A d \in Daemons :
       daemon[d].stage = "unlinking" /\ daemon'[d].stage = "cleared" => ~Reachable]_vars
=============================================================================
