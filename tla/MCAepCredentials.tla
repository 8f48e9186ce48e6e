--------------------------- MODULE MCAepCredentials ---------------------------
(***************************************************************************)
(* Finite instances for TLC of AepCredentials, the access a user has to    *)
(* Services; of AuthFlows, the logins and logouts; of SessionReset, the    *)
(* MCP servers that live through a reset; of VaultFactors, the unlocks and *)
(* changes of passphrase; and of how commands and the processes that hold  *)
(* the vault come to trust each other: WindowsClient on Windows,           *)
(* BrokerIdentity on Linux, ListenerOwner on macOS.  `part` says which of  *)
(* them a behaviour is of; the others stay in an initial state.            *)
(***************************************************************************)
EXTENDS AepCredentials, TLC

CONSTANTS
  Codes, MaxSessions, MaxLogins, MaxCrashes,
  Servers, Commands, MaxSaved, MaxMarks, MaxFiles,
  Terminals, Factors, Salts,
  Connections, Releases, Mine, Other, Instances, Pids, Nobody, MaxIncidents,
  Keys, Programs, MaxStarts

VARIABLES
  part, auth, apiKey, pending, code, live, granted, flow, begun, crashes, stowed, dropped, rebound,
  shared, file, data, secrets, ready, proc, marks, era, resets, torn, astray,
  header, open, doing,
  installed, scm, process, owner, told, client, incidents,
  private, public, broker, occupant, conn,
  program, path, listeners, starts, scan

Flows == INSTANCE AuthFlows WITH commands <- begun, kept <- stowed, MaxCommands <- MaxLogins

Resets == INSTANCE SessionReset WITH MaxSessions <- MaxSaved

Unlocks == INSTANCE VaultFactors WITH Clients <- Terminals, cmd <- doing

Windows ==
  INSTANCE WindowsClient WITH Clients <- Connections, Processes <- Instances, proc <- process,
                              events <- incidents, MaxEvents <- MaxIncidents

Broker == INSTANCE BrokerIdentity WITH Clients <- Terminals

Listener == INSTANCE ListenerOwner WITH process <- listeners

ASSUME FlowsAssumption == Flows!CodesAssumption /\ Flows!BoundsAssumption

ASSUME ResetsAssumption == Resets!BoundsAssumption

ASSUME SaltsAssumption == Unlocks!SaltsAssumption

ASSUME WindowsAssumption == Windows!ConstantsAssumption

ASSUME BrokerAssumption == Broker!ConstantsAssumption

ASSUME ListenerAssumption == Listener!ConstantsAssumption

flowVars ==
  <<auth, apiKey, pending, code, live, granted, flow, begun, crashes, stowed, dropped, rebound>>

resetVars == <<shared, file, data, secrets, ready, proc, marks, era, resets, torn, astray>>

unlockVars == <<header, open, doing>>

windowsVars == <<installed, scm, process, owner, told, client, incidents>>

brokerVars == <<private, public, broker, occupant, conn>>

listenerVars == <<program, path, listeners, starts, scan>>

peerVars == <<windowsVars, brokerVars, listenerVars>>

allVars == <<part, vars, flowVars, resetVars, unlockVars, peerVars>>

PartsInit ==
  /\ Init /\ Flows!Init /\ Resets!Init /\ Unlocks!Init
  /\ Windows!Init /\ Broker!Init /\ Listener!Init
  /\ \/ part = "access"
     \/ part \in {"logins", "resets", "unlocks", "windows", "broker", "listener"} /\ session = CHOOSE u \in Users : TRUE
  /\ part = "resets" \/ ~shared
  /\ part = "windows" \/ installed = Mine
  /\ part = "listener" \/ program = CHOOSE x \in [Listener!Processes -> Programs] : TRUE

PartsNext ==
  \/ part = "access" /\ Next /\ UNCHANGED <<part, flowVars, resetVars, unlockVars, peerVars>>
  \/ part = "logins" /\ Flows!Next /\ UNCHANGED <<part, vars, resetVars, unlockVars, peerVars>>
  \/ part = "resets" /\ Resets!Next /\ UNCHANGED <<part, vars, flowVars, unlockVars, peerVars>>
  \/ part = "unlocks" /\ Unlocks!Next /\ UNCHANGED <<part, vars, flowVars, resetVars, peerVars>>
  \/ /\ \/ part = "windows" /\ Windows!Next /\ UNCHANGED <<brokerVars, listenerVars>>
        \/ part = "broker" /\ Broker!Next /\ UNCHANGED <<windowsVars, listenerVars>>
        \/ part = "listener" /\ Listener!Next /\ UNCHANGED <<windowsVars, brokerVars>>
     /\ UNCHANGED <<part, vars, flowVars, resetVars, unlockVars>>

PartsSpec == PartsInit /\ [][PartsNext]_allVars

Symmetric == Permutations(Procs) \cup Permutations(Users)

-----------------------------------------------------------------------------
(* Properties of the instances, stated and explained in their modules.      *)

\* The stored session is never one that a login has revoked, granted tokens are
\* stored, and no record of a login that has ended stays.
LoginKept == Flows!SafeRebind /\ Flows!LoginKept

\* No MCP server acts with a session saved after a reset it lived through, and
\* no login is saved where nobody will look.
SessionsKeptApart == Resets!SessionsKeptApart

\* A factor that a command says opens the vault, or has replaced another, does.
ReportedFactorOpens == Unlocks!ReportedFactorOpens

\* Secrets go only to a Windows service of the command's own release, and no
\* service lives on unknown to the service control manager.
OwnServiceOnly == Windows!ToldOwnRelease /\ Windows!NoOrphan

\* The broker and the commands recognise each other however either is cut off, and
\* what the system says of a pid is never of the process that had it before or after.
PeersKnown == Broker!IdentityKept /\ Listener!OwnerTrue
=============================================================================
