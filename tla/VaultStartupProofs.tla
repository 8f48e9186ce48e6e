-------------------------- MODULE VaultStartupProofs --------------------------
(***************************************************************************)
(* What holds of the parts of MCVaultStartup: of VaultStartup, for every   *)
(* number of commands, daemons and builds; and of VaultControl, for every  *)
(* set of requests and every limit of the queue.                           *)
(***************************************************************************)
EXTENDS MCVaultStartup, SequenceTheorems, WellFoundedInduction, TLAPS

-----------------------------------------------------------------------------
(* VaultStartup.  A command never comes to a point from which it stops,     *)
(* replaces or removes a shared service; and a reset comes to the point     *)
(* where its success is reported only after the database it found has gone, *)
(* while every database that is made is younger than the one it found.      *)

\* Where a command stops, starts or removes something.
Ending == {"inspect", "waitGone", "stop", "waitStop", "spawn", "poll", "remove", "waitReset"}

SharedLeft == shared => \A c \in Clis : cli[c].at \notin Ending

ResetPoints == {"find", "reset", "stop", "waitStop", "remove", "waitReset"}

Forgetting ==
  /\ database <= made
  /\ \A c \in Clis :
       /\ cli[c].db <= made
       /\ cli[c].op = "reset" => cli[c].at \in ResetPoints
       /\ cli[c].at = "waitReset" => database = 0 \/ database # cli[c].db

StartupInv == TypeOK /\ SharedLeft /\ Forgetting

\* A command without work, and one that goes on.
LEMMA RestIs ==
  ASSUME NEW point \in Points
  PROVE  /\ Rest(point) \in Cli /\ Rest(point).at = point /\ Rest(point).op = "status" /\ Rest(point).db = 0
  BY BuildsAssumption DEF Rest, Cli

LEMMA GotoIs ==
  ASSUME TypeOK, NEW c \in Clis, NEW point \in Points, Goto(c, point)
  PROVE  /\ cli' \in [Clis -> Cli]
         /\ cli'[c].at = point
         /\ point \in {"done", "failed"} => cli'[c].op = "status" /\ cli'[c].db = 0
         /\ point \notin {"done", "failed"} => cli'[c].op = cli[c].op /\ cli'[c].db = cli[c].db
         /\ \A e \in Clis \ {c} : cli'[e] = cli[e]
<1>1. cli \in [Clis -> Cli] /\ cli[c] \in Cli
  BY DEF TypeOK
<1> DEFINE q == [cli[c] EXCEPT !.at = point]
<1>2. q \in Cli /\ q.at = point /\ q.op = cli[c].op /\ q.db = cli[c].db
  BY <1>1 DEF Cli
<1>3. cli' = [cli EXCEPT ![c] = IF point \in {"done", "failed"} THEN Rest(point) ELSE q]
  BY DEF Goto
<1> HIDE DEF q
<1> QED
  BY <1>1, <1>2, <1>3, RestIs

\* A daemon that changes in one way or another is still a daemon.
LEMMA StageTyped ==
  ASSUME daemon \in [Daemons -> Daemon], NEW d \in Daemons, NEW x \in Stages
  PROVE  [daemon EXCEPT ![d].stage = x] \in [Daemons -> Daemon]
<1>1. daemon[d] \in Daemon
  OBVIOUS
<1>2. [daemon[d] EXCEPT !.stage = x] \in Daemon
  BY <1>1 DEF Daemon
<1> QED
  BY <1>2

LEMMA EndedTyped ==
  ASSUME daemon \in [Daemons -> Daemon], NEW d \in Daemons
  PROVE  Ended(daemon, d) \in [Daemons -> Daemon]
  BY BuildsAssumption DEF Ended, Unborn, Daemon, Stages

LEMMA LockedTyped ==
  ASSUME daemon \in [Daemons -> Daemon], NEW d \in Daemons, NEW b \in BOOLEAN
  PROVE  /\ [daemon EXCEPT ![d].unlocked = b] \in [Daemons -> Daemon]
         /\ \A e \in Daemons : [daemon EXCEPT ![d].unlocked = b][e].stage = daemon[e].stage
<1>1. daemon[d] \in Daemon
  OBVIOUS
<1>2. [daemon[d] EXCEPT !.unlocked = b] \in Daemon /\ [daemon[d] EXCEPT !.unlocked = b].stage = daemon[d].stage
  BY <1>1 DEF Daemon
<1> QED
  BY <1>2

LEMMA AskedTyped ==
  ASSUME daemon \in [Daemons -> Daemon], NEW d \in Daemons
  PROVE  Asked(daemon, d) \in [Daemons -> Daemon]
<1>1. daemon[d] \in Daemon
  OBVIOUS
<1> DEFINE q == [daemon[d] EXCEPT !.stage = IF @ = "serving" THEN "asked" ELSE @, !.unlocked = FALSE]
<1>2. q \in Daemon
  BY <1>1 DEF Daemon, Stages
<1>3. Asked(daemon, d) = [daemon EXCEPT ![d] = q]
  BY <1>1 DEF Asked, Daemon
<1> QED
  BY <1>2, <1>3

\* What is asked of a request's outcome.
LEMMA FaultsKept ==
  ASSUME TypeOK, NEW c \in Clis, Unavailable(c) \/ Answers(c) \/ UNCHANGED faults
  PROVE  faults' \in 0..MaxFaults
  BY BoundsAssumption DEF TypeOK, Unavailable, Answers

\* What a step is to show: the invariant, and the two action properties.
ForgetStep ==
  \A c \in Clis :
    cli[c].op = "reset" /\ cli[c].at \notin {"done", "idle"} /\ cli'[c].at = "done"
      => database' = 0 \/ database' # cli[c].db

KeptStep ==
  shared /\ cli' # cli => path' = path /\ \A d \in Daemons : daemon'[d].stage = daemon[d].stage

Result == StartupInv' /\ ForgetStep /\ KeptStep

LEMMA CliStep ==
  ASSUME StartupInv, NEW c \in Clis, cli' \in [Clis -> Cli], \A e \in Clis \ {c} : cli'[e] = cli[e],
         daemon' \in [Daemons -> Daemon], path' \in Daemons \cup {Nobody}, sidecar' \in BOOLEAN,
         commands' \in 0..MaxCommands, faults' \in 0..MaxFaults, UNCHANGED <<host, made>>,
         database' \in {0, database},
         shared => cli'[c].at \notin Ending,
         cli'[c].op = "reset" => cli'[c].at \in ResetPoints,
         cli'[c].db <= made,
         cli'[c].at = "waitReset" => database' = 0,
         cli[c].op = "reset" /\ cli'[c].at = "done" => database' = 0 \/ database' # cli[c].db,
         shared => path' = path /\ \A d \in Daemons : daemon'[d].stage = daemon[d].stage
  PROVE  Result
<1>1. TypeOK'
  BY DEF StartupInv, TypeOK, host
<1>2. SharedLeft'
  BY DEF StartupInv, SharedLeft, host
<1>3. Forgetting'
  <2>1. database \in Nat /\ made \in Nat /\ made' = made
    BY DEF StartupInv, TypeOK
  <2> QED
    BY <2>1 DEF StartupInv, Forgetting
<1>4. ForgetStep
  BY DEF ForgetStep
<1>5. KeptStep
  BY DEF KeptStep
<1> QED
  BY <1>1, <1>2, <1>3, <1>4, <1>5 DEF Result, StartupInv

\* A command that only looks.
LEMMA LookStep ==
  ASSUME StartupInv, NEW c \in Clis, NEW point \in Points, Goto(c, point),
         UNCHANGED <<host, files, daemon, commands>>, faults' \in 0..MaxFaults,
         shared => point \notin Ending,
         point # "waitReset",
         cli[c].op = "reset" => \/ point \in ResetPoints \cup {"failed"}
                                \/ point = "done" /\ cli[c].at = "waitReset"
  PROVE  Result
<1>1. /\ cli' \in [Clis -> Cli]
      /\ cli'[c].at = point
      /\ point \in {"done", "failed"} => cli'[c].op = "status" /\ cli'[c].db = 0
      /\ point \notin {"done", "failed"} => cli'[c].op = cli[c].op /\ cli'[c].db = cli[c].db
      /\ \A e \in Clis \ {c} : cli'[e] = cli[e]
  BY GotoIs DEF StartupInv
<1>2. /\ made \in Nat /\ cli[c].db <= made /\ (cli[c].at = "waitReset" => database = 0 \/ database # cli[c].db)
      /\ daemon \in [Daemons -> Daemon] /\ path \in Daemons \cup {Nobody} /\ sidecar \in BOOLEAN
      /\ commands \in 0..MaxCommands
  BY DEF StartupInv, TypeOK, Forgetting
<1>3. cli'[c].db <= made
  BY <1>1, <1>2
<1>4. cli'[c].op = "reset" => cli'[c].at \in ResetPoints
  BY <1>1
<1>5. cli[c].op = "reset" /\ cli'[c].at = "done" => database' = 0 \/ database' # cli[c].db
  BY <1>1, <1>2 DEF ResetPoints, files
<1> QED
  BY <1>1, <1>2, <1>3, <1>4, <1>5, CliStep DEF files

LEMMA StepKeeps ==
  ASSUME StartupInv, NEW c \in Clis, Step(c) \/ Deadline(c)
  PROVE  Result
<1>0. TypeOK /\ SharedLeft /\ Forgetting
  BY DEF StartupInv
<1>f. Unavailable(c) \/ Answers(c) \/ UNCHANGED faults => faults' \in 0..MaxFaults
  BY <1>0, FaultsKept
<1>k. /\ cli[c].op = "reset" => cli[c].at \in ResetPoints
      /\ shared => cli[c].at \notin Ending
      /\ cli[c].op \in {"ensure", "unlock", "reset", "status"}
      /\ (cli[c].op = "unlock" => Ensured(c) = "ask") /\ (cli[c].op # "unlock" => Ensured(c) = "done")
      /\ shared \in BOOLEAN
  BY <1>0 DEF TypeOK, SharedLeft, Forgetting, Cli, Ensured
<1>l. ASSUME NEW point \in Points, Goto(c, point), UNCHANGED <<host, files, daemon, commands>>,
             Unavailable(c) \/ Answers(c) \/ UNCHANGED faults,
             shared => point \notin Ending,
             point # "waitReset",
             cli[c].op = "reset" => \/ point \in ResetPoints \cup {"failed"}
                                    \/ point = "done" /\ cli[c].at = "waitReset"
      PROVE  Result
  BY <1>f, <1>l, LookStep
<1> USE DEF Points, Ending, ResetPoints
<1>1. ASSUME Look(c) PROVE Result
  BY <1>1, <1>k, <1>l DEF Look
<1>8. ASSUME Service(c) PROVE Result
  BY <1>8, <1>k, <1>l DEF Service
<1>7. ASSUME Poll(c) PROVE Result
  BY <1>7, <1>k, <1>l DEF Poll
<1>5. ASSUME Stopped(c) PROVE Result
  BY <1>5, <1>k, <1>l DEF Stopped
<1>9. ASSUME Ask(c) PROVE Result
  BY <1>9, <1>k, <1>l DEF Ask
<1>11. ASSUME Confirm(c) PROVE Result
  BY <1>11, <1>k, <1>l DEF Confirm
<1>12. ASSUME Status(c) PROVE Result
  BY <1>12, <1>k, <1>l DEF Status
<1>15. ASSUME ResetDone(c) PROVE Result
  BY <1>15, <1>k, <1>l DEF ResetDone
<1>17. ASSUME Deadline(c) PROVE Result
  BY <1>17, <1>k, <1>l DEF Deadline
<1>d. ASSUME NEW point \in Points, Goto(c, point)
      PROVE  /\ cli' \in [Clis -> Cli]
             /\ cli'[c].at = point
             /\ point \in {"done", "failed"} => cli'[c].op = "status" /\ cli'[c].db = 0
             /\ point \notin {"done", "failed"} => cli'[c].op = cli[c].op /\ cli'[c].db = cli[c].db
             /\ \A e \in Clis \ {c} : cli'[e] = cli[e]
  BY <1>0, <1>d, GotoIs
<1>t. /\ made \in Nat /\ database \in Nat /\ cli[c].db <= made /\ 0 <= made /\ database <= made
      /\ daemon \in [Daemons -> Daemon] /\ path \in Daemons \cup {Nobody} /\ sidecar \in BOOLEAN
      /\ commands \in 0..MaxCommands /\ cli \in [Clis -> Cli] /\ cli[c] \in Cli
      /\ faults \in 0..MaxFaults
  BY <1>0 DEF TypeOK, Forgetting
<1>r. Reachable => path \in Daemons
  BY <1>t DEF Reachable
<1>p. Answers(c) => Reachable
  BY DEF Answers
<1>2. ASSUME Inspect(c) PROVE Result
  <2>1. CASE Reachable
    <3> DEFINE q == [cli[c] EXCEPT !.at = "waitGone", !.child = path]
    <3>1. path \in Daemons /\ cli[c].at = "inspect" /\ cli' = [cli EXCEPT ![c] = q]
      BY <1>r, <1>2, <1>t, <2>1 DEF Inspect
    <3>2. q \in Cli /\ q.at = "waitGone" /\ q.op = cli[c].op /\ q.db = cli[c].db
      BY <1>t, <3>1 DEF Cli
    <3> HIDE DEF q
    <3>3. cli' \in [Clis -> Cli] /\ cli'[c] = q /\ \A e \in Clis \ {c} : cli'[e] = cli[e]
      BY <1>t, <3>1, <3>2
    <3>4. daemon' \in [Daemons -> Daemon]
      BY <1>2, <1>t, <2>1, <3>1, EndedTyped, AskedTyped DEF Inspect
    <3>5. ~shared /\ cli[c].op # "reset"
      BY <1>k, <3>1
    <3> QED
      BY <1>2, <1>t, <3>2, <3>3, <3>4, <3>5, CliStep DEF Inspect, files
  <2>2. CASE ~Reachable
    BY <1>2, <1>k, <1>l, <2>2 DEF Inspect
  <2> QED
    BY <2>1, <2>2
<1>3. ASSUME Gone(c) PROVE Result
  <2>0. cli[c].at = "waitGone" /\ ~shared /\ cli[c].op # "reset" /\ UNCHANGED <<host, files, daemon, commands, faults>>
    BY <1>3, <1>k DEF Gone
  <2>1. CASE cli[c].op = "status"
    BY <1>3, <1>l, <2>0, <2>1 DEF Gone
  <2>2. CASE cli[c].op # "status"
    <3> DEFINE q == [cli[c] EXCEPT !.at = "stop", !.child = Nobody]
    <3>1. cli' = [cli EXCEPT ![c] = q]
      BY <1>3, <1>t, <2>2 DEF Gone
    <3>2. q \in Cli /\ q.at = "stop" /\ q.op = cli[c].op /\ q.db = cli[c].db
      BY <1>t DEF Cli
    <3> HIDE DEF q
    <3>3. cli' \in [Clis -> Cli] /\ cli'[c] = q /\ \A e \in Clis \ {c} : cli'[e] = cli[e]
      BY <1>t, <3>1, <3>2
    <3> QED
      BY <1>t, <2>0, <3>2, <3>3, CliStep DEF files
  <2> QED
    BY <2>1, <2>2
<1>4. ASSUME Stop(c) PROVE Result
  <2>0. cli[c].at = "stop" /\ ~shared
    BY <1>4, <1>k DEF Stop
  <2>1. CASE Answers(c) /\ daemon' = Asked(daemon, path) /\ Goto(c, "waitStop")
    <3>1. daemon' \in [Daemons -> Daemon]
      BY <1>t, <1>r, <1>p, <2>1, AskedTyped
    <3>2. faults' \in 0..MaxFaults /\ UNCHANGED <<host, files, commands>>
      BY <1>4, <1>f, <2>1 DEF Stop
    <3> QED
      BY <1>d, <1>k, <1>t, <2>0, <2>1, <3>1, <3>2, CliStep DEF files
  <2>2. CASE Unavailable(c) /\ Goto(c, IF cli[c].op = "reset" THEN "remove" ELSE "spawn") /\ UNCHANGED daemon
    BY <1>4, <1>l, <2>0, <2>2 DEF Stop
  <2>3. CASE Distrusted(c) /\ Goto(c, "failed") /\ UNCHANGED <<daemon, faults>>
    BY <1>4, <1>l, <2>0, <2>3 DEF Stop
  <2> QED
    BY <1>4, <2>1, <2>2, <2>3 DEF Stop
<1>6. ASSUME Spawn(c) PROVE Result
  <2>0. cli[c].at = "spawn" /\ ~shared /\ cli[c].op # "reset" /\ UNCHANGED <<host, files, commands, faults>>
    BY <1>6, <1>k DEF Spawn
  <2>1. PICK d \in Daemons : daemon' = Spawned(d, cli[c].build) /\ cli' = [cli EXCEPT ![c].at = "poll", ![c].child = d]
    BY <1>6 DEF Spawn
  <2> DEFINE q == [cli[c] EXCEPT !.at = "poll", !.child = d]
  <2>2. q \in Cli /\ q.at = "poll" /\ q.op = cli[c].op /\ q.db = cli[c].db
    BY <1>t DEF Cli
  <2>3. cli' = [cli EXCEPT ![c] = q]
    BY <1>t, <2>1
  <2>4. daemon' \in [Daemons -> Daemon]
    <3> DEFINE e == [daemon[d] EXCEPT !.stage = "spawned", !.build = cli[c].build]
    <3>1. daemon[d] \in Daemon /\ cli[c].build \in Builds
      BY <1>t DEF Cli
    <3>2. e \in Daemon
      BY <3>1 DEF Daemon, Stages
    <3>3. daemon' = [daemon EXCEPT ![d] = e]
      BY <1>t, <2>1, <3>1 DEF Spawned, Daemon
    <3> HIDE DEF e
    <3> QED
      BY <1>t, <3>2, <3>3
  <2> HIDE DEF q
  <2>5. cli' \in [Clis -> Cli] /\ cli'[c] = q /\ \A e \in Clis \ {c} : cli'[e] = cli[e]
    BY <1>t, <2>2, <2>3
  <2> QED
    BY <1>t, <2>0, <2>2, <2>4, <2>5, CliStep DEF files
<1>10. ASSUME Unlock(c) PROVE Result
  <2>0. cli[c].at = "prompt" /\ cli[c].op # "reset" /\ UNCHANGED <<host, path, database, made, commands>>
        /\ faults' \in 0..MaxFaults
    BY <1>10, <1>k, <1>f DEF Unlock
  <2>1. CASE Answers(c) /\ daemon' = [daemon EXCEPT ![path].unlocked = TRUE] /\ sidecar' = TRUE /\ Goto(c, "confirm")
    <3>1. /\ daemon' \in [Daemons -> Daemon]
          /\ \A d \in Daemons : daemon'[d].stage = daemon[d].stage
      BY <1>t, <1>r, <1>p, <2>1, LockedTyped
    <3>2. sidecar' \in BOOLEAN
      BY <2>1
    <3> QED
      BY <1>d, <1>t, <2>0, <2>1, <3>1, <3>2, CliStep
  <2>2. CASE Goto(c, "failed") /\ UNCHANGED <<daemon, sidecar>>
    BY <2>0, <2>2, LookStep DEF files
  <2> QED
    BY <1>10, <2>1, <2>2 DEF Unlock
<1>13. ASSUME Find(c) PROVE Result
  <2>0. cli[c].at = "find" /\ UNCHANGED <<host, files, daemon, commands>> /\ faults' \in 0..MaxFaults
    BY <1>13, <1>f DEF Find
  <2>1. CASE Goto(c, "failed")
    BY <2>0, <2>1, LookStep
  <2>2. CASE \E point \in {"reset", "stop", "remove"} :
               cli' = [cli EXCEPT ![c].at = point, ![c].db = database] /\ (shared => point = "reset")
    <3>1. PICK point \in {"reset", "stop", "remove"} :
               cli' = [cli EXCEPT ![c].at = point, ![c].db = database] /\ (shared => point = "reset")
      BY <2>2
    <3> DEFINE q == [cli[c] EXCEPT !.at = point, !.db = database]
    <3>2. q \in Cli /\ q.at = point /\ q.op = cli[c].op /\ q.db = database
      BY <1>t DEF Cli
    <3>3. cli' = [cli EXCEPT ![c] = q]
      BY <1>t, <3>1
    <3> HIDE DEF q
    <3>4. cli' \in [Clis -> Cli] /\ cli'[c] = q /\ \A e \in Clis \ {c} : cli'[e] = cli[e]
      BY <1>t, <3>2, <3>3
    <3> QED
      BY <1>t, <2>0, <3>1, <3>2, <3>4, CliStep DEF files
  <2> QED
    BY <1>13, <2>1, <2>2 DEF Find
<1>14. ASSUME Reset(c) PROVE Result
  <2>0. cli[c].at = "reset" /\ UNCHANGED <<host, made, commands>> /\ faults' \in 0..MaxFaults
    BY <1>14, <1>f DEF Reset
  <2>1. CASE /\ Answers(c) /\ database' = 0 /\ sidecar' = FALSE /\ shared
             /\ daemon' = Locked(daemon, path) /\ Goto(c, "done") /\ UNCHANGED path
    <3>1. /\ daemon' \in [Daemons -> Daemon]
          /\ \A d \in Daemons : daemon'[d].stage = daemon[d].stage
      BY <1>t, <1>r, <1>p, <2>1, LockedTyped DEF Locked
    <3>2. sidecar' \in BOOLEAN
      BY <2>1
    <3> QED
      BY <1>d, <1>t, <2>0, <2>1, <3>1, <3>2, CliStep
  <2>2. CASE /\ Answers(c) /\ database' = 0 /\ sidecar' = FALSE /\ ~shared
             /\ daemon' = Asked(daemon, path) /\ Goto(c, "waitReset") /\ path' = Nobody
    <3>1. daemon' \in [Daemons -> Daemon] /\ sidecar' \in BOOLEAN
      BY <1>t, <1>r, <1>p, <2>2, AskedTyped
    <3> QED
      BY <1>d, <1>k, <1>t, <2>0, <2>2, <3>1, CliStep
  <2>3. CASE Goto(c, "failed") /\ UNCHANGED <<daemon, path, database, sidecar>>
    BY <2>0, <2>3, LookStep DEF files
  <2> QED
    BY <1>14, <2>1, <2>2, <2>3 DEF Reset
<1>16. ASSUME Remove(c) PROVE Result
  <2>1. cli[c].at = "remove" /\ ~shared /\ Goto(c, "done") /\ database' = 0 /\ sidecar' \in BOOLEAN /\ path' = Nobody
        /\ UNCHANGED <<host, made, daemon, commands, faults>>
    BY <1>16, <1>k DEF Remove
  <2> QED
    BY <1>d, <1>t, <2>1, CliStep
<1> QED
  BY <1>1, <1>2, <1>3, <1>4, <1>5, <1>6, <1>7, <1>8, <1>9, <1>10, <1>11, <1>12, <1>13, <1>14, <1>15, <1>16, <1>17
     DEF Step

LEMMA BeginKeeps ==
  ASSUME StartupInv, NEW c \in Clis, Begin(c)
  PROVE  Result
<1>0. TypeOK /\ SharedLeft /\ Forgetting
  BY DEF StartupInv
<1>1. PICK op \in {"ensure", "unlock", "reset", "status"}, b \in Builds :
        cli' = [cli EXCEPT ![c] = [op |-> op, build |-> b, child |-> Nobody, db |-> 0,
                                   at |-> CASE op = "reset"  -> "find"
                                            [] op = "status" -> "status"
                                            [] OTHER         -> "look"]]
  BY DEF Begin
<1> DEFINE q == [op |-> op, build |-> b, child |-> Nobody, db |-> 0,
                 at |-> CASE op = "reset"  -> "find"
                          [] op = "status" -> "status"
                          [] OTHER         -> "look"]
<1>2. q \in Cli /\ q.db = 0 /\ q.at \in {"find", "status", "look"} /\ (q.op = "reset" => q.at = "find")
  BY DEF Cli, Points
<1>3. cli' = [cli EXCEPT ![c] = q]
  BY <1>1
<1> HIDE DEF q
<1>4. cli' \in [Clis -> Cli] /\ cli'[c] = q /\ \A e \in Clis \ {c} : cli'[e] = cli[e]
  BY <1>0, <1>2, <1>3 DEF TypeOK
<1>5. /\ made \in Nat /\ database \in Nat /\ 0 <= made
      /\ daemon \in [Daemons -> Daemon] /\ path \in Daemons \cup {Nobody} /\ sidecar \in BOOLEAN
      /\ commands' \in 0..MaxCommands /\ faults' \in 0..MaxFaults
      /\ UNCHANGED <<host, files, daemon>>
  BY <1>0, BoundsAssumption DEF TypeOK, Begin
<1>6. q.at \notin Ending /\ (q.op = "reset" => q.at \in ResetPoints)
  BY <1>2 DEF Ending, ResetPoints
<1>7. cli[c].op = "reset" => cli[c].at \in ResetPoints
  BY <1>0 DEF Forgetting
<1> QED
  BY <1>2, <1>4, <1>5, <1>6, CliStep DEF files

\* A step of a daemon leaves the commands where they are, and makes no
\* database but a new one.
LEMMA DaemonStep ==
  ASSUME StartupInv, UNCHANGED <<host, sidecar, cli, commands>>,
         daemon' \in [Daemons -> Daemon], path' \in Daemons \cup {Nobody}, faults' \in 0..MaxFaults,
         \/ UNCHANGED <<database, made>>
         \/ database' = made + 1 /\ made' = made + 1
  PROVE  Result
<1>1. /\ made \in Nat /\ database \in Nat /\ database <= made
      /\ made' \in Nat /\ made <= made' /\ database' \in Nat /\ database' <= made'
      /\ database' = database \/ database' = made + 1
  BY DEF StartupInv, TypeOK, Forgetting
<1>2. TypeOK'
  BY <1>1 DEF StartupInv, TypeOK, host
<1>3. SharedLeft'
  BY DEF StartupInv, SharedLeft, host
<1>4. Forgetting'
  <2>1. \A c \in Clis : cli[c].db \in Nat
    BY DEF StartupInv, TypeOK, Cli
  <2> QED
    BY <1>1, <2>1 DEF StartupInv, Forgetting
<1>5. ForgetStep /\ KeptStep
  BY DEF ForgetStep, KeptStep
<1> QED
  BY <1>2, <1>3, <1>4, <1>5 DEF Result, StartupInv

LEMMA DaemonKeeps ==
  ASSUME StartupInv, NEW d \in Daemons, Run(d) \/ Expire(d) \/ Kill(d) \/ StartService(d)
  PROVE  Result
<1>0. /\ daemon \in [Daemons -> Daemon] /\ path \in Daemons \cup {Nobody} /\ faults \in 0..MaxFaults
  BY DEF StartupInv, TypeOK
<1>f. faults < MaxFaults => faults + 1 \in 0..MaxFaults
  BY <1>0, BoundsAssumption
<1>e. Ended(daemon, d) \in [Daemons -> Daemon] /\ Asked(daemon, d) \in [Daemons -> Daemon]
  BY <1>0, EndedTyped, AskedTyped
<1>s. \A x \in Stages : [daemon EXCEPT ![d].stage = x] \in [Daemons -> Daemon]
  BY <1>0, StageTyped
<1> USE DEF Stages
<1>1. ASSUME Open(d) PROVE Result
  BY <1>0, <1>1, <1>s, DaemonStep DEF Open
<1>2. ASSUME Prepare(d) PROVE Result
  BY <1>0, <1>2, <1>s, <1>e, DaemonStep DEF Prepare, files
<1>3. ASSUME Unlink(d) PROVE Result
  BY <1>0, <1>3, <1>s, DaemonStep DEF Unlink
<1>4. ASSUME Bind(d) PROVE Result
  BY <1>0, <1>4, <1>s, <1>e, DaemonStep DEF Bind
<1>5. ASSUME Secure(d) PROVE Result
  BY <1>0, <1>5, <1>s, <1>e, DaemonStep DEF Secure, files
<1>6. ASSUME CloseServer(d) PROVE Result
  BY <1>0, <1>6, <1>s, DaemonStep DEF CloseServer, files
<1>7. ASSUME Exit(d) PROVE Result
  BY <1>0, <1>7, <1>e, DaemonStep DEF Exit
<1>8. ASSUME Expire(d) PROVE Result
  BY <1>0, <1>8, <1>f, <1>e, DaemonStep DEF Expire, files
<1>9. ASSUME Kill(d) PROVE Result
  BY <1>0, <1>9, <1>f, <1>e, DaemonStep DEF Kill, files
<1>10. ASSUME StartService(d) PROVE Result
  <2>1. PICK b \in Builds : daemon' = [daemon EXCEPT ![d] = [stage |-> "serving", build |-> b, unlocked |-> FALSE]]
    BY <1>10 DEF StartService
  <2>2. daemon' \in [Daemons -> Daemon]
    BY <1>0, <2>1 DEF Daemon
  <2> QED
    BY <1>0, <1>10, <2>2, DaemonStep DEF StartService
<1> QED
  BY <1>1, <1>2, <1>3, <1>4, <1>5, <1>6, <1>7, <1>8, <1>9, <1>10 DEF Run

LEMMA StartupStep ==
  ASSUME StartupInv, [Next]_vars
  PROVE  Result
<1>1. CASE Next
  BY <1>1, BeginKeeps, StepKeeps, DaemonKeeps DEF Next
<1>2. CASE UNCHANGED vars
  <2>1. UNCHANGED <<host, sidecar, cli, commands>> /\ UNCHANGED <<daemon, path, faults>> /\ UNCHANGED <<database, made>>
    BY <1>2 DEF vars, files
  <2>2. daemon \in [Daemons -> Daemon] /\ path \in Daemons \cup {Nobody} /\ faults \in 0..MaxFaults
    BY DEF StartupInv, TypeOK
  <2> QED
    BY <2>1, <2>2, DaemonStep
<1> QED
  BY <1>1, <1>2

LEMMA StartupBegins == Init => StartupInv
<1> SUFFICES ASSUME Init PROVE StartupInv
  OBVIOUS
<1>1. cli \in [Clis -> Cli] /\ \A c \in Clis : cli[c].at = "idle" /\ cli[c].op = "status" /\ cli[c].db = 0
  BY RestIs DEF Init, Points
<1>2. Unborn \in Daemon /\ Unborn.build \in Builds
  BY BuildsAssumption DEF Unborn, Daemon, Stages
<1>3. /\ daemon \in [Daemons -> Daemon] /\ path \in Daemons \cup {Nobody}
      /\ database \in Nat /\ made \in Nat /\ database <= made /\ sidecar \in BOOLEAN
  <2>1. PICK exists \in BOOLEAN :
          /\ sidecar = exists
          /\ database = IF exists THEN 1 ELSE 0
          /\ made = IF exists THEN 1 ELSE 0
          /\ \/ path = Nobody /\ daemon = [d \in Daemons |-> Unborn]
             \/ /\ exists
                /\ \E b \in Builds, s \in {"serving", "exited"} :
                     /\ path = 1
                     /\ daemon = [[d \in Daemons |-> Unborn] EXCEPT
                                    ![1] = [stage |-> s, build |-> IF s = "exited" THEN @.build ELSE b, unlocked |-> FALSE]]
    BY DEF Init
  <2>2. CASE path = Nobody /\ daemon = [d \in Daemons |-> Unborn]
    BY <1>2, <2>1, <2>2
  <2>3. CASE \E b \in Builds, s \in {"serving", "exited"} :
               /\ path = 1
               /\ daemon = [[d \in Daemons |-> Unborn] EXCEPT
                              ![1] = [stage |-> s, build |-> IF s = "exited" THEN @.build ELSE b, unlocked |-> FALSE]]
    <3>1. PICK b \in Builds, s \in {"serving", "exited"} :
            daemon = [[d \in Daemons |-> Unborn] EXCEPT
                        ![1] = [stage |-> s, build |-> IF s = "exited" THEN @.build ELSE b, unlocked |-> FALSE]]
      BY <2>3
    <3> DEFINE q == [stage |-> s, build |-> IF s = "exited" THEN Unborn.build ELSE b, unlocked |-> FALSE]
    <3>2. q \in Daemon
      BY <1>2 DEF Daemon, Stages
    <3>3. daemon = [[d \in Daemons |-> Unborn] EXCEPT ![1] = q]
      BY <3>1, DaemonsAssumption
    <3> HIDE DEF q
    <3>4. daemon \in [Daemons -> Daemon]
      BY <1>2, <3>2, <3>3
    <3>5. path \in Daemons \cup {Nobody}
      BY <2>3, DaemonsAssumption
    <3>6. database \in Nat /\ made \in Nat /\ database <= made /\ sidecar \in BOOLEAN
      BY <2>1
    <3> QED
      BY <3>4, <3>5, <3>6
  <2> QED
    BY <2>1, <2>2, <2>3
<1>4. TypeOK
  BY <1>1, <1>3, BoundsAssumption DEF Init, TypeOK
<1>5. SharedLeft /\ Forgetting
  BY <1>1, <1>3 DEF SharedLeft, Forgetting, Ending
<1> QED
  BY <1>4, <1>5 DEF StartupInv

\* The invariant: no command is about to touch a shared service, and a reset
\* that waits for its daemon has outlived its database.
THEOREM StartupInvariance == Spec => []StartupInv
<1>1. Init => StartupInv
  BY StartupBegins
<1>2. StartupInv /\ [Next]_vars => StartupInv'
  BY StartupStep DEF Result
<1> QED
  BY <1>1, <1>2, PTL DEF Spec

\* The type invariant of VaultStartup.
THEOREM TypeSafety == Spec => []TypeOK
<1>1. StartupInv => TypeOK
  BY DEF StartupInv
<1> QED
  BY <1>1, StartupInvariance, PTL

\* A vault reset that reports success has made the database it found
\* unreachable, with any number of commands and daemons.
THEOREM ResetIsForgotten == Spec => ResetForgets
<1>1. StartupInv /\ [Next]_vars => ForgetStep
  BY StartupStep DEF Result
<1>2. StartupInv /\ [Next]_vars =>
        [\A c \in Clis :
           cli[c].op = "reset" /\ cli[c].at \notin {"done", "idle"} /\ cli'[c].at = "done"
             => database' = 0 \/ database' # cli[c].db]_vars
  BY <1>1 DEF ForgetStep
<1> QED
  BY <1>2, StartupInvariance, PTL DEF Spec, ResetForgets

\* No step of a command stops the service of the operating system or takes
\* away its socket.
THEOREM SharedServiceIsKept == Spec => ServiceKept
<1>1. StartupInv /\ [Next]_vars => KeptStep
  BY StartupStep DEF Result
<1>2. StartupInv /\ [Next]_vars =>
        [shared /\ cli' # cli => path' = path /\ \A d \in Daemons : daemon'[d].stage = daemon[d].stage]_vars
  BY <1>1 DEF KeptStep
<1> QED
  BY <1>2, StartupInvariance, PTL DEF Spec, ServiceKept

-----------------------------------------------------------------------------
(* The bytes of a queue: a sum defined by recursion, about which facts are  *)
(* proved by the least number that would refute them.                       *)

LEMMA LeastNatural ==
  ASSUME NEW T \in SUBSET Nat, T # {}
  PROVE  \E n \in T : \A m \in T : n <= m
<1> DEFINE R == {ss \in Nat \X Nat : ss[1] < ss[2]}
<1>1. IsWellFoundedOn(R, Nat)
  BY NatLessThanWellFounded DEF OpToRel
<1> HIDE DEF R
<1>2. PICK x \in T : \A y \in T : ~(<<y, x>> \in R)
  BY <1>1, WFMin
<1>3. ASSUME NEW y \in T PROVE x <= y
  <2>1. x \in Nat /\ y \in Nat /\ <<y, x>> \in Nat \X Nat
    OBVIOUS
  <2>2. ~(<<y, x>>[1] < <<y, x>>[2])
    BY <1>2, <2>1 DEF R
  <2> QED
    BY <2>1, <2>2
<1> QED
  BY <1>3

\* A set of numbers that has 0 and with every number the next has all up to n.
LEMMA UpTo ==
  ASSUME NEW n \in Nat, NEW T, 0 \in T, \A k \in 0..(n - 1) : k \in T => k + 1 \in T
  PROVE  0..n \subseteq T
<1> SUFFICES ASSUME (0..n) \ T # {} PROVE FALSE
  OBVIOUS
<1> DEFINE U == (0..n) \ T
<1>0. U \in SUBSET Nat /\ U # {}
  OBVIOUS
<1> HIDE DEF U
<1>a. PICK k \in U : \A m \in U : k <= m
  BY <1>0, LeastNatural
<1> USE DEF U
<1>1. k \in (0..n) \ T /\ \A m \in (0..n) \ T : k <= m
  BY <1>a
<1>2. k \in Nat /\ k # 0 /\ k <= n /\ k - 1 \in 0..(n - 1) /\ k - 1 \in 0..n /\ ~(k <= k - 1)
  BY <1>1
<1>3. k - 1 \in T
  BY <1>1, <1>2
<1>4. (k - 1) + 1 \in T /\ (k - 1) + 1 = k
  BY <1>2, <1>3
<1> QED
  BY <1>1, <1>4

\* The sums of the first requests of a queue.
Sums(sum, queue, n) ==
  /\ sum \in [0..n -> Nat] /\ sum[0] = 0
  /\ \A k \in 1..n : sum[k] = sum[k - 1] + Size[queue[k]]

LEMMA SizeIs ==
  ASSUME NEW queue \in Seq(Requests), NEW i \in 1..Len(queue)
  PROVE  queue[i] \in Requests /\ Size[queue[i]] \in Nat
<1>1. Size \in [Requests -> Nat]
  BY RequestsAssumption DEF Control!SizeAssumption
<1>2. queue[i] \in Requests
  BY ElementOfSeq
<1> QED
  BY <1>1, <1>2

LEMMA SumsExist ==
  ASSUME NEW queue \in Seq(Requests), NEW n \in 0..Len(queue)
  PROVE  \E sum : Sums(sum, queue, n)
<1> DEFINE T == {k \in 0..Len(queue) : \E sum : Sums(sum, queue, k)}
<1>0. Len(queue) \in Nat
  BY LenProperties
<1>1. 0 \in T
  <2>1. Sums([k \in 0..0 |-> 0], queue, 0)
    BY DEF Sums
  <2> QED
    BY <1>0, <2>1
<1>2. ASSUME NEW k \in 0..(Len(queue) - 1), k \in T
      PROVE  k + 1 \in T
  <2>1. PICK sum : Sums(sum, queue, k)
    BY <1>2
  <2> DEFINE next == [j \in 0..(k + 1) |-> IF j = k + 1 THEN sum[k] + Size[queue[k + 1]] ELSE sum[j]]
  <2>2. k \in Nat /\ k + 1 \in 1..Len(queue) /\ k + 1 \in 0..Len(queue)
    BY <1>0
  <2>3. Size[queue[k + 1]] \in Nat
    BY <2>2, SizeIs
  <2>4. sum \in [0..k -> Nat] /\ sum[0] = 0 /\ sum[k] \in Nat
        /\ \A j \in 1..k : sum[j] = sum[j - 1] + Size[queue[j]]
    BY <2>1, <2>2 DEF Sums
  <2>5. next \in [0..(k + 1) -> Nat] /\ next[0] = 0
    BY <2>2, <2>3, <2>4
  <2>6. ASSUME NEW j \in 1..(k + 1) PROVE next[j] = next[j - 1] + Size[queue[j]]
    <3>1. j \in 0..(k + 1) /\ j - 1 \in 0..(k + 1) /\ j - 1 # k + 1
      BY <2>2
    <3>2. next[j - 1] = sum[j - 1]
      BY <3>1
    <3>3. CASE j = k + 1
      <4>1. j - 1 = k /\ next[j] = sum[k] + Size[queue[k + 1]]
        BY <2>2, <3>1, <3>3
      <4> QED
        BY <3>2, <3>3, <4>1
    <3>4. CASE j # k + 1
      <4>1. j \in 1..k /\ next[j] = sum[j]
        BY <2>2, <3>1, <3>4
      <4> QED
        BY <2>4, <3>2, <4>1
    <3> QED
      BY <3>3, <3>4
  <2>7. Sums(next, queue, k + 1)
    BY <2>5, <2>6 DEF Sums
  <2> QED
    BY <2>2, <2>7
<1>3. 0..Len(queue) \subseteq T
  <2> HIDE DEF T
  <2> QED
    BY <1>0, <1>1, <1>2, UpTo
<1> QED
  BY <1>3

\* Queue q1, with its sums s1, from a to c is queue q2, with its sums s2, from b to d.
Agree(q1, n1, s1, a, c, q2, n2, s2, b, d) ==
  /\ n1 \in Nat /\ n2 \in Nat /\ Sums(s1, q1, n1) /\ Sums(s2, q2, n2)
  /\ a \in Nat /\ b \in Nat /\ c \in 0..n1 /\ d \in 0..n2 /\ a <= c /\ c - a = d - b
  /\ \A i \in 1..n1 : \A j \in 1..n2 :
       (a < i /\ i <= c /\ i - a = j - b) => q1[i] = q2[j] /\ Size[q1[i]] \in Nat

\* Then what the sums gain on the way is the same.
LEMMA SumsAgree ==
  ASSUME NEW q1, NEW n1, NEW s1, NEW a, NEW c, NEW q2, NEW n2, NEW s2, NEW b, NEW d,
         Agree(q1, n1, s1, a, c, q2, n2, s2, b, d)
  PROVE  s1[c] - s1[a] = s2[d] - s2[b]
<1> USE DEF Agree
<1> DEFINE T == {k \in 0..(c - a) : s1[a + k] - s1[a] = s2[b + k] - s2[b]}
<1>0. s1 \in [0..n1 -> Nat] /\ s2 \in [0..n2 -> Nat]
  BY DEF Sums
<1>a. n1 \in Nat /\ n2 \in Nat /\ a \in Nat /\ b \in Nat /\ c \in Nat /\ d \in Nat /\ c - a \in Nat /\ c <= n1 /\ d <= n2 /\ a + (c - a) = c /\ b + (c - a) = d
  OBVIOUS
<1>1. 0 \in T
  <2>1. s1[a] \in Nat /\ s2[b] \in Nat
    BY <1>0, <1>a
  <2>2. a + 0 = a /\ b + 0 = b /\ 0 \in 0..(c - a)
    BY <1>a
  <2>3. s1[a + 0] = s1[a] /\ s2[b + 0] = s2[b]
    BY <2>2
  <2> QED
    BY <2>1, <2>2, <2>3
<1>2. ASSUME NEW k \in 0..((c - a) - 1), k \in T
      PROVE  k + 1 \in T
  <2>1. /\ k \in Nat /\ k + 1 \in 0..(c - a)
        /\ a + (k + 1) \in 1..n1 /\ b + (k + 1) \in 1..n2
        /\ a < a + (k + 1) /\ a + (k + 1) <= c /\ (a + (k + 1)) - a = (b + (k + 1)) - b
        /\ (a + (k + 1)) - 1 = a + k /\ (b + (k + 1)) - 1 = b + k
        /\ a \in 0..n1 /\ b \in 0..n2 /\ a + k \in 0..n1 /\ b + k \in 0..n2
    BY <1>a
  <2>2. q1[a + (k + 1)] = q2[b + (k + 1)] /\ Size[q1[a + (k + 1)]] \in Nat
    BY <2>1
  <2>3. s1[a + (k + 1)] = s1[a + k] + Size[q1[a + (k + 1)]]
    BY <2>1 DEF Sums
  <2>4. s2[b + (k + 1)] = s2[b + k] + Size[q1[a + (k + 1)]]
    BY <2>1, <2>2 DEF Sums
  <2>5. s1[a] \in Nat /\ s2[b] \in Nat /\ s1[a + k] \in Nat /\ s2[b + k] \in Nat
    BY <1>0, <2>1
  <2>6. s1[a + k] - s1[a] = s2[b + k] - s2[b]
    BY <1>2
  <2>7. s1[a + (k + 1)] - s1[a] = s2[b + (k + 1)] - s2[b]
    BY <2>2, <2>3, <2>4, <2>5, <2>6
  <2> QED
    BY <2>1, <2>7
<1>3. c - a \in T
  <2>1. c - a \in 0..(c - a)
    BY <1>a
  <2> HIDE DEF T
  <2> QED
    BY <1>1, <1>2, <1>a, <2>1, UpTo
<1>4. s1[a + (c - a)] - s1[a] = s2[b + (c - a)] - s2[b]
  BY <1>3
<1> QED
  BY <1>4, <1>a

\* The recursive definition has the solution it should have.
LEMMA BytesIs ==
  ASSUME NEW queue \in Seq(Requests)
  PROVE  \E sum : Sums(sum, queue, Len(queue)) /\ Control!Bytes(queue) = sum[Len(queue)]
<1> DEFINE f == CHOOSE sum : sum = [n \in 0..Len(queue) |-> IF n = 0 THEN 0 ELSE sum[n - 1] + Size[queue[n]]]
<1>0. Len(queue) \in Nat
  BY LenProperties
<1>1. PICK sum : Sums(sum, queue, Len(queue))
  BY <1>0, SumsExist
<1>2. sum = [n \in 0..Len(queue) |-> IF n = 0 THEN 0 ELSE sum[n - 1] + Size[queue[n]]]
  <2>1. sum \in [0..Len(queue) -> Nat]
    BY <1>1 DEF Sums
  <2>2. ASSUME NEW n \in 0..Len(queue)
        PROVE  sum[n] = IF n = 0 THEN 0 ELSE sum[n - 1] + Size[queue[n]]
    <3>1. n # 0 => n \in 1..Len(queue)
      BY <1>0
    <3> QED
      BY <1>1, <3>1 DEF Sums
  <2> QED
    BY <2>1, <2>2
<1>3. f = [n \in 0..Len(queue) |-> IF n = 0 THEN 0 ELSE f[n - 1] + Size[queue[n]]]
  BY <1>2
<1>4. Control!Bytes(queue) = f[Len(queue)]
  BY DEF Control!Bytes
<1> HIDE DEF f
<1> DEFINE T == {k \in 0..Len(queue) : f[k] = sum[k]}
<1>5. 0..Len(queue) \subseteq T
  <2>1. 0 \in 0..Len(queue) /\ f[0] = 0 /\ sum[0] = 0
    BY <1>0, <1>1, <1>3 DEF Sums
  <2>2. ASSUME NEW k \in 0..(Len(queue) - 1), f[k] = sum[k]
        PROVE  f[k + 1] = sum[k + 1]
    <3>1. k + 1 \in 1..Len(queue) /\ k + 1 \in 0..Len(queue) /\ k + 1 # 0 /\ (k + 1) - 1 = k
      BY <1>0
    <3>2. f[k + 1] = f[k] + Size[queue[k + 1]]
      BY <1>3, <3>1
    <3>3. sum[k + 1] = sum[k] + Size[queue[k + 1]]
      BY <1>1, <3>1 DEF Sums
    <3> QED
      BY <2>2, <3>2, <3>3
  <2>3. \A k \in 0..(Len(queue) - 1) : k + 1 \in 0..Len(queue)
    BY <1>0
  <2>4. 0 \in T /\ \A k \in 0..(Len(queue) - 1) : k \in T => k + 1 \in T
    BY <2>1, <2>2, <2>3
  <2> HIDE DEF T
  <2> QED
    BY <1>0, <2>4, UpTo
<1>6. f[Len(queue)] = sum[Len(queue)]
  BY <1>0, <1>5
<1> QED
  BY <1>1, <1>4, <1>6

\* A queue has some bytes, the empty one none.
LEMMA BytesAre ==
  ASSUME NEW queue \in Seq(Requests)
  PROVE  Control!Bytes(queue) \in Nat /\ (queue = <<>> => Control!Bytes(queue) = 0)
<1>0. Len(queue) \in Nat /\ (queue = <<>> => Len(queue) = 0)
  BY LenProperties
<1>1. PICK sum : Sums(sum, queue, Len(queue)) /\ Control!Bytes(queue) = sum[Len(queue)]
  BY BytesIs
<1>2. sum \in [0..Len(queue) -> Nat] /\ sum[0] = 0 /\ Len(queue) \in 0..Len(queue)
  BY <1>0, <1>1 DEF Sums
<1> QED
  BY <1>0, <1>1, <1>2

\* push()
LEMMA BytesAppend ==
  ASSUME NEW queue \in Seq(Requests), NEW r \in Requests
  PROVE  Control!Bytes(Append(queue, r)) = Control!Bytes(queue) + Size[r]
<1> DEFINE q == Append(queue, r)
<1>0. PICK n \in Nat : n = Len(queue)
  BY LenProperties
<1>a. q \in Seq(Requests) /\ Len(q) = n + 1 /\ q[n + 1] = r /\ \A j \in 1..n : q[j] = queue[j]
  BY <1>0, AppendProperties
<1>1. PICK s1 : Sums(s1, queue, n) /\ Control!Bytes(queue) = s1[n]
  BY <1>0, BytesIs
<1>2. PICK s2 : Sums(s2, q, n + 1) /\ Control!Bytes(q) = s2[n + 1]
  BY <1>a, BytesIs
<1> HIDE DEF q
<1>3. \A j \in 1..n : Size[queue[j]] \in Nat
  BY <1>0, SizeIs
<1>4. s1[n] - s1[0] = s2[n] - s2[0]
  <2>1. n + 1 \in Nat /\ 0 \in Nat /\ n \in 0..n /\ n \in 0..(n + 1) /\ 0 <= n /\ n - 0 = n - 0
    OBVIOUS
  <2>2. \A i \in 1..n : \A j \in 1..(n + 1) :
          (0 < i /\ i <= n /\ i - 0 = j - 0) => queue[i] = q[j] /\ Size[queue[i]] \in Nat
    BY <1>a, <1>3
  <2>3. Agree(queue, n, s1, 0, n, q, n + 1, s2, 0, n)
    BY <1>1, <1>2, <2>1, <2>2 DEF Agree
  <2> QED
    BY <2>3, SumsAgree
<1>5. /\ s1[0] = 0 /\ s2[0] = 0 /\ s1[n] \in Nat /\ s2[n] \in Nat
      /\ s2[n + 1] = s2[n] + Size[q[n + 1]]
  <2>1. n \in 0..n /\ n \in 0..(n + 1) /\ n + 1 \in 1..(n + 1) /\ (n + 1) - 1 = n
    OBVIOUS
  <2>2. s2[n + 1] = s2[(n + 1) - 1] + Size[q[n + 1]]
    BY <1>2, <2>1 DEF Sums
  <2> QED
    BY <1>1, <1>2, <2>1, <2>2 DEF Sums
<1>6. s1[n] = s2[n] /\ s2[n + 1] = s2[n] + Size[r]
  BY <1>a, <1>4, <1>5
<1> QED
  BY <1>1, <1>2, <1>6 DEF q

\* shift(), n times: a queue is its first requests and the rest.
LEMMA BytesSplit ==
  ASSUME NEW queue \in Seq(Requests), NEW p \in Seq(Requests), NEW q \in Seq(Requests), queue = p \o q
  PROVE  Control!Bytes(queue) = Control!Bytes(p) + Control!Bytes(q)
<1>0. PICK n \in Nat, m \in Nat : n = Len(p) /\ m = Len(q)
  BY LenProperties
<1>a. /\ Len(queue) = n + m /\ \A j \in 1..n : queue[j] = p[j]
      /\ \A j \in (n + 1)..(n + m) : queue[j] = q[j - n]
  BY <1>0, ConcatProperties
<1>1. PICK s0 : Sums(s0, queue, n + m) /\ Control!Bytes(queue) = s0[n + m]
  BY <1>a, BytesIs
<1>2. PICK s1 : Sums(s1, p, n) /\ Control!Bytes(p) = s1[n]
  BY <1>0, BytesIs
<1>3. PICK s2 : Sums(s2, q, m) /\ Control!Bytes(q) = s2[m]
  BY <1>0, BytesIs
<1>4. \A j \in 1..(n + m) : Size[queue[j]] \in Nat
  BY <1>a, SizeIs
<1>b. PICK l \in Nat : l = n + m
  OBVIOUS
<1>5. s0[n] - s0[0] = s1[n] - s1[0]
  <2>1. 0 \in Nat /\ n \in 0..l /\ n \in 0..n /\ 0 <= n /\ n - 0 = n - 0
    BY <1>b
  <2>2. \A i \in 1..l : \A j \in 1..n :
          (0 < i /\ i <= n /\ i - 0 = j - 0) => queue[i] = p[j] /\ Size[queue[i]] \in Nat
    BY <1>a, <1>b, <1>4
  <2>3. Agree(queue, l, s0, 0, n, p, n, s1, 0, n)
    BY <1>1, <1>2, <1>b, <2>1, <2>2 DEF Agree
  <2> QED
    BY <2>3, SumsAgree
<1>6. s0[l] - s0[n] = s2[m] - s2[0]
  <2>1. 0 \in Nat /\ l \in 0..l /\ m \in 0..m /\ n <= l /\ 0 <= m /\ l - n = m - 0
    BY <1>b
  <2>2. \A i \in 1..l : \A j \in 1..m :
          (n < i /\ i <= l /\ i - n = j - 0) => queue[i] = q[j] /\ Size[queue[i]] \in Nat
    <3> SUFFICES ASSUME NEW i \in 1..l, NEW j \in 1..m, n < i, i - n = j - 0
                 PROVE  queue[i] = q[j] /\ Size[queue[i]] \in Nat
      OBVIOUS
    <3>1. i \in (n + 1)..(n + m) /\ i \in 1..(n + m) /\ i - n = j
      BY <1>b
    <3> QED
      BY <1>a, <1>4, <3>1
  <2>3. Agree(queue, l, s0, n, l, q, m, s2, 0, m)
    BY <1>1, <1>3, <1>b, <2>1, <2>2 DEF Agree
  <2> QED
    BY <2>3, SumsAgree
<1>7. /\ s0[0] = 0 /\ s1[0] = 0 /\ s2[0] = 0
      /\ s0[n] \in Nat /\ s0[l] \in Nat /\ s1[n] \in Nat /\ s2[m] \in Nat
  <2>1. n \in 0..l /\ l \in 0..l /\ n \in 0..n /\ m \in 0..m
    BY <1>b
  <2> QED
    BY <1>1, <1>2, <1>3, <1>b, <2>1 DEF Sums
<1>9. s0[l] = s1[n] + s2[m]
  BY <1>5, <1>6, <1>7
<1> QED
  BY <1>1, <1>2, <1>3, <1>9, <1>b

\* The bytes of one request.
LEMMA BytesOne ==
  ASSUME NEW r \in Requests
  PROVE  Control!Bytes(<<r>>) = Size[r]
<1>1. <<>> \in Seq(Requests) /\ Append(<<>>, r) = <<r>>
  OBVIOUS
<1>2. Control!Bytes(<<r>>) = Control!Bytes(<<>>) + Size[r] /\ Control!Bytes(<<>>) = 0
  BY <1>1, BytesAppend, BytesAre
<1>3. Size[r] \in Nat
  BY RequestsAssumption DEF Control!SizeAssumption
<1> QED
  BY <1>2, <1>3

-----------------------------------------------------------------------------
(* VaultControl.  Only the connection of the active request can be open, be *)
(* idle or have a frame under way, whatever the queue does; so that what a   *)
(* request gives up carries nothing of it any more.                          *)

\* Connection e, while c is the current one, request r is active and the
\* daemons of connections k have proved their build.
Sound(s, e, c, r, k) ==
  /\ s.state \in {"opening", "verifying", "ready"} => e = c
  /\ s.checked => e \in k
  /\ s.idle => e = c /\ r = None
  /\ \/ s.frames = <<>>
     \/ /\ s.state = "ready"
        /\ \E f \in Control!Frame : s.frames = <<f>> /\ f.job = r /\ (f.info \/ r \in Exempt \/ e \in k)

\* The count of the bytes is that of the queue, and within the limit.
Counted(queue, bytes) == bytes = Control!Bytes(queue) /\ bytes <= MaxBytes

ControlInv ==
  /\ job \in [Requests -> {"new", "waiting", "active", "resolved", "rejected", "busy"}]
  /\ \A r \in Requests : job[r] = "active" => r = active
  /\ waiting \in Seq(Requests) /\ Len(waiting) <= MaxWaiting
  /\ Counted(waiting, waitingBytes)
  /\ waiting # <<>> => active # None
  /\ active \in Requests \cup {None} /\ connection \in Requests \cup {None}
  /\ active # None => connection # None
  /\ socket \in [Requests -> Control!Socket]
  /\ \A e \in Requests : Sound(socket[e], e, connection, active, known)
  /\ disposed => active = None /\ connection = None
  /\ blamed = {}

LEMMA SocketFields ==
  ASSUME NEW s \in Control!Socket
  PROVE  /\ s.state \in {"unused", "opening", "verifying", "ready", "closed"}
         /\ s.checked \in BOOLEAN /\ s.idle \in BOOLEAN /\ s.frames \in Seq(Control!Frame)
  BY DEF Control!Socket

LEMMA OneFrame ==
  ASSUME NEW f
  PROVE  Len(<<f>>) = 1 /\ Head(<<f>>) = f /\ Tail(<<f>>) = <<>>
  OBVIOUS

\* A closed connection is sound whatever is current.
LEMMA ClosedSound ==
  ASSUME NEW x \in {"opening", "closed"}
  PROVE  LET s == [Control!NoSocket EXCEPT !.state = x] IN
         /\ s \in Control!Socket /\ s.state = x /\ ~s.checked /\ ~s.idle /\ s.frames = <<>>
         /\ \A e, c, r, k : (x = "closed" \/ e = c) => Sound(s, e, c, r, k)
<1> DEFINE s == [Control!NoSocket EXCEPT !.state = x]
<1> DEFINE z == Control!NoSocket
<1>1. /\ z \in [state : {"unused"}, checked : {FALSE}, idle : {FALSE}, frames : {<<>>}]
  BY DEF Control!NoSocket
<1> HIDE DEF z
<1>2. s \in [state : {x}, checked : {FALSE}, idle : {FALSE}, frames : {<<>>}]
  BY <1>1 DEF z
<1> HIDE DEF s
<1>3. s.state = x /\ ~s.checked /\ ~s.idle /\ s.frames = <<>>
  BY <1>2
<1>5. <<>> \in Seq(Control!Frame)
  OBVIOUS
<1>6. s \in Control!Socket
  BY <1>2, <1>5 DEF Control!Socket
<1>4. \A e, c, r, k : (x = "closed" \/ e = c) => Sound(s, e, c, r, k)
  BY <1>3 DEF Sound
<1> QED
  BY <1>3, <1>4, <1>6 DEF s

\* The first frame of a request on a connection with none under way.
LEMMA SentSound ==
  ASSUME NEW s \in Control!Socket, s.state = "ready", s.frames = <<>>, ~s.idle,
         NEW e, NEW k, s.checked => e \in k, NEW r \in Requests
  PROVE  Control!Sent(s, r) \in Control!Socket /\ Sound(Control!Sent(s, r), e, e, r, k)
<1> DEFINE f == [job |-> r, info |-> r \notin Exempt /\ ~s.checked]
           t == Control!Sent(s, r)
<1>0. s.checked \in BOOLEAN
  BY SocketFields
<1>1. f \in Control!Frame /\ f.job = r /\ (f.info \/ r \in Exempt \/ e \in k)
  BY <1>0 DEF Control!Frame
<1>2. t = [s EXCEPT !.frames = Append(@, f)]
  BY DEF Control!Sent
<1> HIDE DEF f
<1>3. Append(s.frames, f) = <<f>> /\ <<f>> \in Seq(Control!Frame)
  BY <1>1
<1>7. t = [s EXCEPT !.frames = <<f>>]
  BY <1>2, <1>3 DEF Control!Socket
<1>4. t \in Control!Socket /\ t.frames = <<f>> /\ t.state = "ready" /\ t.checked = s.checked /\ t.idle = s.idle
  <2> HIDE DEF t
  <2> QED
    BY <1>3, <1>7 DEF Control!Socket
<1> HIDE DEF t
<1>5. Sound(t, e, e, r, k)
  BY <1>1, <1>4 DEF Sound
<1> QED
  BY <1>4, <1>5 DEF t

\* Without an active request no frame is under way.
LEMMA QuietSound ==
  ASSUME NEW s \in Control!Socket, NEW e, NEW c, NEW k, Sound(s, e, c, None, k)
  PROVE  s.frames = <<>>
<1>1. None \notin Requests
  BY RequestsAssumption DEF Control!NoneAssumption
<1> QED
  BY <1>1 DEF Sound, Control!Frame

\* disconnect(): no other connection was open, and now none is.
LEMMA ClosedKeeps ==
  ASSUME NEW sockets \in [Requests -> Control!Socket], NEW c \in Requests \cup {None}, NEW r, NEW k,
         \A e \in Requests : Sound(sockets[e], e, c, r, k)
  PROVE  /\ Control!Closed(sockets, c) \in [Requests -> Control!Socket]
         /\ \A d, q : \A e \in Requests : Sound(Control!Closed(sockets, c)[e], e, d, q, k)
<1> DEFINE t == Control!Closed(sockets, c)
           z == [Control!NoSocket EXCEPT !.state = "closed"]
<1>1. z \in Control!Socket /\ \A e, d, q : Sound(z, e, d, q, k)
  BY ClosedSound
<1>2. t = IF c = None THEN sockets ELSE [sockets EXCEPT ![c] = z]
  BY DEF Control!Closed
<1> HIDE DEF z, t
<1>3. t \in [Requests -> Control!Socket]
  BY <1>1, <1>2
<1>4. ASSUME NEW e \in Requests, NEW d, NEW q
      PROVE  Sound(t[e], e, d, q, k)
  <2>1. CASE e = c
    <3>1. c # None
      BY <2>1, RequestsAssumption DEF Control!NoneAssumption
    <3> QED
      BY <1>1, <1>2, <2>1, <3>1
  <2>2. CASE e # c
    <3>1. t[e] = sockets[e] /\ sockets[e] \in Control!Socket /\ Sound(sockets[e], e, c, r, k)
      BY <1>2, <2>2
    <3>2. sockets[e].state \notin {"opening", "verifying", "ready"} /\ sockets[e].frames = <<>>
          /\ ~sockets[e].idle /\ (sockets[e].checked => e \in k)
      BY <2>2, <3>1, SocketFields DEF Sound
    <3> QED
      BY <3>1, <3>2 DEF Sound
  <2> QED
    BY <2>1, <2>2
<1> QED
  BY <1>3, <1>4 DEF t

\* pump(): whichever request it executes, on the connection it is left with.
LEMMA PumpKeeps ==
  ASSUME NEW jobs \in [Requests -> {"new", "waiting", "active", "resolved", "rejected", "busy"}],
         \A r \in Requests : jobs[r] # "active",
         NEW queue \in Seq(Requests), Len(queue) <= MaxWaiting + 1,
         NEW bytes, bytes = Control!Bytes(queue), bytes <= MaxBytes \/ Len(queue) = 1,
         NEW sockets \in [Requests -> Control!Socket], NEW c \in Requests \cup {None},
         \A e \in Requests : Sound(sockets[e], e, c, None, known),
         Control!Pump(jobs, queue, bytes, sockets, c), ~disposed, UNCHANGED <<known, disposed, blamed>>, blamed = {}
  PROVE  ControlInv'
<1>0. None \notin Requests /\ MaxWaiting \in Nat /\ MaxBytes \in Nat
  BY RequestsAssumption, ControlAssumption DEF Control!NoneAssumption, Control!LimitsAssumption
<1>1. PICK n \in 1..(Len(queue) + 1) :
        LET next == IF n \in DOMAIN queue THEN queue[n] ELSE None
            gone == {queue[i] : i \in 1..(n - 1)}
        IN  /\ gone \subseteq late /\ next \notin late
            /\ job' = [r \in Requests |-> IF r = next THEN "active" ELSE IF r \in gone THEN "rejected" ELSE jobs[r]]
            /\ waiting' = SubSeq(queue, n + 1, Len(queue))
            /\ waitingBytes' = bytes - Control!Bytes(IF next = None THEN queue ELSE SubSeq(queue, 1, n))
            /\ active' = next
            /\ IF next = None
               THEN /\ connection' = c
                    /\ socket' = IF c = None THEN sockets ELSE [sockets EXCEPT ![c].idle = TRUE]
               ELSE /\ connection' = IF c # None /\ sockets[c].state = "ready" THEN c ELSE next
                    /\ socket' = Control!Start(sockets, c, next)
  BY DEF Control!Pump
<1> DEFINE next == IF n \in DOMAIN queue THEN queue[n] ELSE None
           gone == {queue[i] : i \in 1..(n - 1)}
<1>2. Len(queue) \in Nat /\ n \in Nat /\ 1 <= n /\ n <= Len(queue) + 1 /\ DOMAIN queue = 1..Len(queue)
  BY <1>1, LenProperties
<1>3. next \in Requests \cup {None} /\ (next = None => n = Len(queue) + 1)
  BY <1>0, <1>2, ElementOfSeq
<1>4. /\ job' = [r \in Requests |-> IF r = next THEN "active" ELSE IF r \in gone THEN "rejected" ELSE jobs[r]]
      /\ waiting' = SubSeq(queue, n + 1, Len(queue))
      /\ waitingBytes' = bytes - Control!Bytes(IF next = None THEN queue ELSE SubSeq(queue, 1, n))
      /\ active' = next
      /\ next = None => /\ connection' = c
                        /\ socket' = IF c = None THEN sockets ELSE [sockets EXCEPT ![c].idle = TRUE]
      /\ next # None => /\ connection' = IF c # None /\ sockets[c].state = "ready" THEN c ELSE next
                        /\ socket' = Control!Start(sockets, c, next)
  BY <1>1
<1>b. next # None => n <= Len(queue)
  BY <1>2
<1> HIDE DEF next, gone
<1>5. /\ job' \in [Requests -> {"new", "waiting", "active", "resolved", "rejected", "busy"}]
      /\ \A r \in Requests : job'[r] = "active" => r = active'
  BY <1>4
<1>6. waiting' \in Seq(Requests) /\ Len(waiting') <= MaxWaiting /\ (waiting' # <<>> => active' # None)
  <2>1. \A i \in (n + 1)..Len(queue) : queue[i] \in Requests
    BY <1>2, ElementOfSeq
  <2>2. /\ waiting' \in Seq(Requests)
        /\ Len(waiting') = IF n + 1 <= Len(queue) THEN Len(queue) - (n + 1) + 1 ELSE 0
    BY <1>2, <1>4, <2>1, SubSeqProperties
  <2>3. Len(waiting') <= MaxWaiting /\ (n = Len(queue) + 1 => Len(waiting') = 0)
    <3>1. PICK m \in Nat : m = Len(queue) /\ m <= MaxWaiting + 1 /\ 1 <= n /\ n <= m + 1
      BY <1>2
    <3>2. CASE n + 1 <= m
      <4>1. Len(waiting') = m - (n + 1) + 1
        BY <2>2, <3>1, <3>2
      <4>2. m - (n + 1) + 1 <= MaxWaiting /\ n # m + 1
        BY <1>0, <1>2, <3>1, <3>2
      <4> QED
        BY <3>1, <4>1, <4>2
    <3>3. CASE ~(n + 1 <= m)
      BY <1>0, <2>2, <3>1, <3>3
    <3> QED
      BY <3>2, <3>3
  <2>4. next = None => waiting' = <<>>
    BY <1>3, <2>2, <2>3, EmptySeq
  <2> QED
    BY <1>4, <2>2, <2>3, <2>4
<1>c. Counted(waiting', waitingBytes')
  <2>1. CASE next = None
    <3>1. waitingBytes' = bytes - Control!Bytes(queue) /\ Control!Bytes(queue) \in Nat
      BY <1>4, <2>1, BytesAre
    <3>2. waiting' = <<>>
      BY <1>4, <1>6, <2>1
    <3>3. Control!Bytes(waiting') = 0
      BY <1>6, <3>2, BytesAre
    <3> QED
      BY <1>0, <3>1, <3>3 DEF Counted
  <2>2. CASE next # None
    <3> DEFINE p == SubSeq(queue, 1, n)
    <3>0. PICK m \in Nat : m = Len(queue) /\ n <= m
      BY <1>2, <1>b, <2>2
    <3>1. \A i \in 1..n : queue[i] \in Requests
      BY <1>2, <3>0, ElementOfSeq
    <3>2. p \in Seq(Requests)
      BY <1>2, <3>1, SubSeqProperties
    <3>3. queue = p \o waiting'
      <4>1. 1 \in 1..(m + 1) /\ n \in (1 - 1)..m /\ m \in n..m
        BY <1>2, <3>0
      <4>2. SubSeq(queue, 1, n) \o SubSeq(queue, n + 1, m) = SubSeq(queue, 1, m)
        BY <3>0, <4>1, ConcatAdjacentSubSeq
      <4>3. SubSeq(queue, 1, m) = queue
        BY <3>0, SubSeqFull
      <4> QED
        BY <1>4, <3>0, <4>2, <4>3
    <3>4. waitingBytes' = bytes - Control!Bytes(p)
      BY <1>4, <2>2
    <3> HIDE DEF p
    <3>5. /\ bytes = Control!Bytes(p) + Control!Bytes(waiting')
          /\ bytes \in Nat /\ Control!Bytes(p) \in Nat /\ Control!Bytes(waiting') \in Nat
      BY <1>6, <3>2, <3>3, BytesSplit, BytesAre
    <3>6. waitingBytes' = Control!Bytes(waiting') /\ waitingBytes' <= bytes
      BY <3>4, <3>5
    <3>7. CASE Len(queue) = 1
      <4>1. n = m
        BY <1>2, <3>0, <3>7
      <4>2. waiting' = <<>>
        BY <1>4, <3>0, <4>1, SubSeqEmpty
      <4>3. Control!Bytes(waiting') = 0
        BY <1>6, <4>2, BytesAre
      <4> QED
        BY <1>0, <3>6, <4>3 DEF Counted
    <3>8. CASE bytes <= MaxBytes
      BY <1>0, <3>5, <3>6, <3>8 DEF Counted
    <3> QED
      BY <3>7, <3>8
  <2> QED
    BY <2>1, <2>2
<1>7. CASE next = None
  <2>1. active' = None /\ connection' = c
    BY <1>4, <1>7
  <2>2. socket' \in [Requests -> Control!Socket] /\ \A e \in Requests : Sound(socket'[e], e, c, None, known)
    <3>1. CASE c = None
      BY <1>4, <1>7, <3>1
    <3>2. CASE c # None
      <4> DEFINE t == [sockets[c] EXCEPT !.idle = TRUE]
      <4>1. c \in Requests /\ sockets[c] \in Control!Socket /\ Sound(sockets[c], c, c, None, known)
        BY <3>2
      <4>2. /\ t \in Control!Socket /\ t.state = sockets[c].state /\ t.checked = sockets[c].checked
            /\ t.frames = sockets[c].frames
        BY <4>1 DEF Control!Socket
      <4>3. socket' = [sockets EXCEPT ![c] = t]
        BY <1>4, <1>7, <3>2
      <4> HIDE DEF t
      <4>4. Sound(t, c, c, None, known)
        BY <4>1, <4>2 DEF Sound
      <4> QED
        BY <4>1, <4>2, <4>3, <4>4
    <3> QED
      BY <3>1, <3>2
  <2> QED
    BY <1>5, <1>6, <1>c, <2>1, <2>2 DEF ControlInv
<1>8. CASE next # None
  <2>0. next \in Requests /\ active' = next
    BY <1>3, <1>4, <1>8
  <2>1. CASE c # None /\ sockets[c].state = "ready"
    <3> DEFINE t == [sockets[c] EXCEPT !.idle = FALSE]
               u == [Control!Sent(sockets[c], next) EXCEPT !.idle = FALSE]
    <3>1. c \in Requests /\ sockets[c] \in Control!Socket /\ Sound(sockets[c], c, c, None, known)
      BY <2>1
    <3>2. /\ t \in Control!Socket /\ t.state = "ready" /\ t.checked = sockets[c].checked
          /\ t.frames = sockets[c].frames /\ ~t.idle
      BY <2>1, <3>1 DEF Control!Socket
    <3>3. t.frames = <<>> /\ (t.checked => c \in known)
      BY <3>1, <3>2, QuietSound DEF Sound
    <3>4. u = Control!Sent(t, next)
      BY <3>1 DEF Control!Sent, Control!Socket
    <3>5. connection' = c /\ socket' = [sockets EXCEPT ![c] = u]
      BY <1>4, <1>8, <2>1 DEF Control!Start
    <3> HIDE DEF t, u
    <3>6. u \in Control!Socket /\ Sound(u, c, c, next, known)
      BY <2>0, <3>2, <3>3, <3>4, SentSound
    <3>7. ASSUME NEW e \in Requests, e # c
          PROVE  Sound(sockets[e], e, c, next, known)
      <4>1. Sound(sockets[e], e, c, None, known) /\ sockets[e] \in Control!Socket
        OBVIOUS
      <4>2. sockets[e].frames = <<>>
        BY <4>1, QuietSound
      <4> QED
        BY <3>7, <4>1, <4>2 DEF Sound
    <3>8. socket' \in [Requests -> Control!Socket] /\ \A e \in Requests : Sound(socket'[e], e, c, next, known)
      BY <3>1, <3>5, <3>6, <3>7
    <3> QED
      BY <1>0, <1>5, <1>6, <1>c, <2>0, <2>1, <3>1, <3>5, <3>8 DEF ControlInv
  <2>2. CASE ~(c # None /\ sockets[c].state = "ready")
    <3> DEFINE t == Control!Closed(sockets, c)
               u == [Control!NoSocket EXCEPT !.state = "opening"]
    <3>1. t \in [Requests -> Control!Socket] /\ \A d, q : \A e \in Requests : Sound(t[e], e, d, q, known)
      BY ClosedKeeps
    <3>2. u \in Control!Socket /\ Sound(u, next, next, next, known)
      BY ClosedSound
    <3>3. connection' = next /\ socket' = [t EXCEPT ![next] = u]
      BY <1>4, <1>8, <2>2 DEF Control!Start
    <3> HIDE DEF t, u
    <3>4. socket' \in [Requests -> Control!Socket] /\ \A e \in Requests : Sound(socket'[e], e, next, next, known)
      BY <2>0, <3>1, <3>2, <3>3
    <3> QED
      BY <1>0, <1>5, <1>6, <1>c, <2>0, <3>3, <3>4 DEF ControlInv
  <2> QED
    BY <2>1, <2>2
<1> QED
  BY <1>7, <1>8

LEMMA FinishKeeps ==
  ASSUME ControlInv, active # None, NEW result \in {"resolved", "rejected"},
         NEW sockets \in [Requests -> Control!Socket], NEW c \in Requests \cup {None},
         \A e \in Requests : Sound(sockets[e], e, c, None, known),
         Control!Finish(result, sockets, c), UNCHANGED <<known, disposed, blamed>>
  PROVE  ControlInv'
<1> DEFINE jobs == [job EXCEPT ![active] = result]
<1>1. /\ jobs \in [Requests -> {"new", "waiting", "active", "resolved", "rejected", "busy"}]
      /\ \A r \in Requests : jobs[r] # "active"
  BY DEF ControlInv
<1>2. /\ waiting \in Seq(Requests) /\ Len(waiting) <= MaxWaiting + 1
      /\ ~disposed /\ blamed = {} /\ waitingBytes = Control!Bytes(waiting) /\ waitingBytes <= MaxBytes
  <2>1. waiting \in Seq(Requests) /\ Len(waiting) <= MaxWaiting /\ ~disposed /\ blamed = {}
        /\ waitingBytes = Control!Bytes(waiting) /\ waitingBytes <= MaxBytes
    BY DEF ControlInv, Counted
  <2>2. Len(waiting) \in Nat /\ MaxWaiting \in Nat
    BY <2>1, LenProperties, ControlAssumption DEF Control!LimitsAssumption
  <2>3. Len(waiting) <= MaxWaiting + 1
    BY <2>1, <2>2
  <2> QED
    BY <2>1, <2>3
<1>3. Control!Pump(jobs, waiting, waitingBytes, sockets, c)
  BY DEF Control!Finish
<1> HIDE DEF jobs
<1> QED
  BY <1>1, <1>2, <1>3, PumpKeeps

LEMMA RejectKeeps ==
  ASSUME ControlInv, active # None, Control!Reject, UNCHANGED <<known, disposed, blamed>>
  PROVE  ControlInv'
<1> DEFINE t == Control!Closed(socket, connection)
<1>1. /\ socket \in [Requests -> Control!Socket] /\ connection \in Requests \cup {None}
      /\ \A e \in Requests : Sound(socket[e], e, connection, active, known)
  BY DEF ControlInv
<1>2. t \in [Requests -> Control!Socket] /\ \A d, q : \A e \in Requests : Sound(t[e], e, d, q, known)
  BY <1>1, ClosedKeeps
<1>3. Control!Finish("rejected", t, None)
  BY DEF Control!Reject
<1> HIDE DEF t
<1> QED
  BY <1>2, <1>3, FinishKeeps

\* What leaves the connection and the active request alone.
LEMMA StillKeeps ==
  ASSUME ControlInv, UNCHANGED <<active, connection, socket, disposed, blamed, known>>,
         job' \in [Requests -> {"new", "waiting", "active", "resolved", "rejected", "busy"}],
         \A r \in Requests : job'[r] = "active" => r = active,
         waiting' \in Seq(Requests), Len(waiting') <= MaxWaiting, Counted(waiting', waitingBytes'),
         waiting' # <<>> => active # None
  PROVE  ControlInv'
  BY DEF ControlInv

\* The connection of the active request changes.
LEMMA ProgressKeeps ==
  ASSUME ControlInv, active # None, UNCHANGED <<job, waiting, waitingBytes, active, connection, disposed, blamed>>,
         NEW s \in Control!Socket, Sound(s, connection, connection, active, known'),
         socket' = [socket EXCEPT ![connection] = s], known \subseteq known'
  PROVE  ControlInv'
<1>1. /\ socket \in [Requests -> Control!Socket] /\ connection \in Requests
      /\ \A e \in Requests : Sound(socket[e], e, connection, active, known)
  BY DEF ControlInv
<1>2. socket' \in [Requests -> Control!Socket] /\ socket'[connection] = s
      /\ \A e \in Requests \ {connection} : socket'[e] = socket[e]
  BY <1>1
<1>3. \A e \in Requests : Sound(socket'[e], e, connection, active, known')
  BY <1>1, <1>2 DEF Sound
<1> QED
  BY <1>2, <1>3 DEF ControlInv

\* The current connection while a request is active.
LEMMA ActiveIs ==
  ASSUME ControlInv, active # None
  PROVE  /\ active \in Requests /\ connection \in Requests /\ ~disposed /\ blamed = {}
         /\ socket[connection] \in Control!Socket /\ ~socket[connection].idle
         /\ socket[connection].checked => connection \in known
         /\ Sound(socket[connection], connection, connection, active, known)
         /\ socket[connection].state # "ready" => socket[connection].frames = <<>>
  BY DEF ControlInv, Sound

LEMMA AskKeeps ==
  ASSUME ControlInv, NEW r \in Requests, Control!Ask(r)
  PROVE  ControlInv'
<1>0. /\ job \in [Requests -> {"new", "waiting", "active", "resolved", "rejected", "busy"}]
      /\ \A q \in Requests : job[q] = "active" => q = active
      /\ waiting \in Seq(Requests) /\ Len(waiting) <= MaxWaiting /\ (waiting # <<>> => active # None)
      /\ job[r] = "new" /\ UNCHANGED <<disposed, blamed, known>>
      /\ Len(waiting) \in Nat /\ MaxWaiting \in Nat /\ Counted(waiting, waitingBytes)
  BY LenProperties, ControlAssumption DEF ControlInv, Control!Ask, Control!LimitsAssumption
<1>1. CASE disposed \/ (active # None /\ Control!Full(r))
  BY <1>0, <1>1, StillKeeps DEF Control!Ask
<1>2. CASE ~disposed /\ active = None
  <2>1. Control!Pump(job, Append(waiting, r), waitingBytes + Size[r], socket, connection)
    BY <1>2 DEF Control!Ask
  <2>5. waitingBytes + Size[r] = Control!Bytes(Append(waiting, r))
    BY <1>0, BytesAppend DEF Counted
  <2>6. Len(Append(waiting, r)) = 1
    <3>1. waiting = <<>>
      BY <1>0, <1>2
    <3> QED
      BY <3>1
  <2>2. Append(waiting, r) \in Seq(Requests) /\ Len(Append(waiting, r)) <= MaxWaiting + 1
    BY <1>0
  <2>3. \A q \in Requests : job[q] # "active"
    BY <1>0, <1>2, RequestsAssumption DEF Control!NoneAssumption
  <2>4. /\ socket \in [Requests -> Control!Socket] /\ connection \in Requests \cup {None} /\ blamed = {}
        /\ \A e \in Requests : Sound(socket[e], e, connection, None, known)
    BY <1>2 DEF ControlInv
  <2> QED
    BY <1>0, <1>2, <2>1, <2>2, <2>3, <2>4, <2>5, <2>6, PumpKeeps
<1>3. CASE ~disposed /\ active # None /\ ~Control!Full(r)
  <2>1. /\ job' = [job EXCEPT ![r] = "waiting"] /\ waiting' = Append(waiting, r)
        /\ waitingBytes' = waitingBytes + Size[r] /\ UNCHANGED <<active, connection, socket>>
    BY <1>3 DEF Control!Ask
  <2>2. Len(waiting) < MaxWaiting
    BY <1>0, <1>3 DEF Control!Full
  <2>3. waiting' \in Seq(Requests) /\ Len(waiting') <= MaxWaiting
    BY <1>0, <2>1, <2>2
  <2>4. Counted(waiting', waitingBytes')
    <3>1. MaxBytes \in Nat /\ waitingBytes \in Nat /\ Size[r] \in Nat
      BY <1>0, BytesAre, RequestsAssumption, ControlAssumption
         DEF Counted, Control!LimitsAssumption, Control!SizeAssumption
    <3>2. ~(waitingBytes + Size[r] > MaxBytes)
      BY <1>3 DEF Control!Full
    <3>3. waitingBytes' = Control!Bytes(waiting')
      BY <1>0, <2>1, BytesAppend DEF Counted
    <3> QED
      BY <2>1, <3>1, <3>2, <3>3 DEF Counted
  <2> QED
    BY <1>0, <1>3, <2>1, <2>3, <2>4, StillKeeps
<1> QED
  BY <1>1, <1>2, <1>3

LEMMA WaitingTimesOutKeeps ==
  ASSUME ControlInv, NEW r \in Requests, Control!WaitingTimesOut(r)
  PROVE  ControlInv'
<1>0. /\ job \in [Requests -> {"new", "waiting", "active", "resolved", "rejected", "busy"}]
      /\ \A q \in Requests : job[q] = "active" => q = active
      /\ waiting \in Seq(Requests) /\ Len(waiting) <= MaxWaiting /\ (waiting # <<>> => active # None)
      /\ Len(waiting) \in Nat /\ MaxWaiting \in Nat /\ DOMAIN waiting = 1..Len(waiting)
      /\ Counted(waiting, waitingBytes)
  BY LenProperties, ControlAssumption DEF ControlInv, Control!LimitsAssumption
<1>1. PICK i \in DOMAIN waiting : waiting[i] = r /\ waiting' = Control!RemoveAt(waiting, i)
  BY DEF Control!WaitingTimesOut
<1>2. i \in Nat /\ 1 <= i /\ i <= Len(waiting) /\ waiting # <<>>
  BY <1>0, <1>1
<1> DEFINE before == SubSeq(waiting, 1, i - 1)
           after  == SubSeq(waiting, i + 1, Len(waiting))
<1>3. \A j \in 1..Len(waiting) : waiting[j] \in Requests
  BY <1>0, ElementOfSeq
<1>4. before \in Seq(Requests) /\ Len(before) = i - 1
  <2>1. \A j \in 1..(i - 1) : waiting[j] \in Requests
    BY <1>0, <1>2, <1>3
  <2>2. before \in Seq(Requests) /\ Len(before) = IF 1 <= i - 1 THEN (i - 1) - 1 + 1 ELSE 0
    BY <1>2, <2>1, SubSeqProperties
  <2> QED
    BY <1>2, <2>2
<1>5. after \in Seq(Requests) /\ Len(after) = Len(waiting) - i
  <2>0. PICK m \in Nat : m = Len(waiting) /\ i <= m
    BY <1>0, <1>2
  <2>1. \A j \in (i + 1)..m : waiting[j] \in Requests
    BY <1>2, <1>3, <2>0
  <2>2. after \in Seq(Requests) /\ Len(after) = IF i + 1 <= m THEN m - (i + 1) + 1 ELSE 0
    BY <1>2, <2>0, <2>1, SubSeqProperties
  <2>3. CASE i + 1 <= m
    BY <1>2, <2>0, <2>2, <2>3
  <2>4. CASE ~(i + 1 <= m)
    BY <1>2, <2>0, <2>2, <2>4
  <2> QED
    BY <2>3, <2>4
<1>6. waiting' = before \o after
  BY <1>1 DEF Control!RemoveAt
<1> HIDE DEF before, after
<1>7. waiting' \in Seq(Requests) /\ Len(waiting') <= MaxWaiting
  <2>1. waiting' \in Seq(Requests) /\ Len(waiting') = Len(before) + Len(after)
    BY <1>4, <1>5, <1>6, ConcatProperties
  <2>2. (i - 1) + (Len(waiting) - i) <= MaxWaiting
    BY <1>0, <1>2
  <2> QED
    BY <1>4, <1>5, <2>1, <2>2
<1>8. Counted(waiting', waitingBytes')
  <2>0. PICK m \in Nat : m = Len(waiting) /\ i <= m
    BY <1>0, <1>2
  <2>1. /\ 1 \in 1..(m + 1) /\ i - 1 \in (1 - 1)..m /\ m \in (i - 1)..m
        /\ (i - 1) + 1 = i /\ i \in 1..m /\ m \in i..m
    BY <1>2, <2>0
  <2>2. SubSeq(waiting, 1, i - 1) \o SubSeq(waiting, (i - 1) + 1, m) = SubSeq(waiting, 1, m)
    BY <1>0, <2>0, <2>1, ConcatAdjacentSubSeq
  <2>3. SubSeq(waiting, 1, m) = waiting
    BY <1>0, <2>0, SubSeqFull
  <2>4. SubSeq(waiting, i, m) = <<waiting[i]>> \o SubSeq(waiting, i + 1, m)
    BY <1>0, <2>0, <2>1, SubSeqRecursiveFirst
  <2>5. waiting = before \o (<<r>> \o after)
    BY <1>1, <2>0, <2>1, <2>2, <2>3, <2>4 DEF before, after
  <2>6. <<r>> \in Seq(Requests) /\ <<r>> \o after \in Seq(Requests) /\ before \o after \in Seq(Requests)
    BY <1>4, <1>5, ConcatProperties
  <2>7. Control!Bytes(waiting) = Control!Bytes(before) + Control!Bytes(<<r>> \o after)
    BY <1>0, <1>4, <2>5, <2>6, BytesSplit
  <2>8. Control!Bytes(<<r>> \o after) = Size[r] + Control!Bytes(after)
    <3>1. Control!Bytes(<<r>> \o after) = Control!Bytes(<<r>>) + Control!Bytes(after)
      BY <1>5, <2>6, BytesSplit
    <3> QED
      BY <3>1, BytesOne
  <2>9. Control!Bytes(waiting') = Control!Bytes(before) + Control!Bytes(after)
    BY <1>4, <1>5, <1>6, <2>6, BytesSplit
  <2>10. /\ Control!Bytes(before) \in Nat /\ Control!Bytes(after) \in Nat
         /\ Size[r] \in Nat /\ MaxBytes \in Nat
    BY <1>4, <1>5, BytesAre, RequestsAssumption, ControlAssumption
       DEF Control!LimitsAssumption, Control!SizeAssumption
  <2>11. waitingBytes' = waitingBytes - Size[r]
    BY DEF Control!WaitingTimesOut
  <2> QED
    BY <1>0, <2>7, <2>8, <2>9, <2>10, <2>11 DEF Counted
<1> QED
  BY <1>0, <1>2, <1>7, <1>8, StillKeeps DEF Control!WaitingTimesOut

\* The execution of the active request, up to its last frame.
LEMMA ExecutionKeeps ==
  ASSUME ControlInv, Control!Opened \/ Control!Verified \/ Control!NotVerified \/ Control!InfoAnswered
  PROVE  ControlInv'
<1>0. active # None
  BY DEF Control!Opened, Control!Verified, Control!NotVerified, Control!InfoAnswered, Control!Awaited
<1> DEFINE s == socket[connection]
<1>a. /\ active \in Requests /\ connection \in Requests /\ socket \in [Requests -> Control!Socket]
      /\ s \in Control!Socket /\ ~s.idle /\ (s.checked => connection \in known)
      /\ Sound(s, connection, connection, active, known)
      /\ s.state # "ready" => s.frames = <<>>
  BY <1>0, ActiveIs DEF ControlInv
<1>1. CASE Control!Reject /\ UNCHANGED Control!unchangedByExecution
  BY <1>0, <1>1, RejectKeeps DEF Control!unchangedByExecution
<1>2. CASE Control!Opened /\ active \notin late
  <2> DEFINE t == [s EXCEPT !.state = "verifying"]
  <2>1. /\ s.state = "opening" /\ socket' = [socket EXCEPT ![connection] = t]
        /\ UNCHANGED <<job, waiting, waitingBytes, active, connection, disposed, blamed>> /\ known' = known
    BY <1>a, <1>2 DEF Control!Opened, Control!unchangedByProgress
  <2>2. t \in Control!Socket /\ t.state = "verifying" /\ t.idle = s.idle /\ t.checked = s.checked /\ t.frames = s.frames
    BY <1>a DEF Control!Socket
  <2> HIDE DEF t
  <2>3. Sound(t, connection, connection, active, known')
    BY <1>a, <2>1, <2>2 DEF Sound
  <2> QED
    BY <1>0, <2>1, <2>2, <2>3, ProgressKeeps
<1>3. CASE Control!Verified /\ active \notin late
  <2> DEFINE t == [s EXCEPT !.state = "ready"]
             u == Control!Sent(t, active)
  <2>1. /\ s.state = "verifying" /\ socket' = [socket EXCEPT ![connection] = u]
        /\ UNCHANGED <<job, waiting, waitingBytes, active, connection, disposed, blamed>> /\ known' = known
    BY <1>a, <1>3 DEF Control!Verified, Control!unchangedByProgress
  <2>2. t \in Control!Socket /\ t.state = "ready" /\ t.idle = s.idle /\ t.checked = s.checked /\ t.frames = s.frames
    BY <1>a DEF Control!Socket
  <2> HIDE DEF t
  <2>3. t.frames = <<>> /\ ~t.idle /\ (t.checked => connection \in known')
    BY <1>a, <2>1, <2>2
  <2>4. u \in Control!Socket /\ Sound(u, connection, connection, active, known')
    BY <1>a, <2>2, <2>3, SentSound
  <2> HIDE DEF u
  <2> QED
    BY <1>0, <2>1, <2>4, ProgressKeeps
<1>4. CASE Control!InfoAnswered
  <2> DEFINE t == Control!Identified(s)
             u == Control!Sent(t, active)
  <2>1. /\ s.frames # <<>> /\ socket' = [socket EXCEPT ![connection] = u]
        /\ UNCHANGED <<job, waiting, waitingBytes, active, connection, disposed, blamed>> /\ known' = known \cup {connection}
    <3>1. /\ s.frames # <<>> /\ known' = known \cup {connection}
          /\ UNCHANGED <<job, waiting, waitingBytes, active, connection, disposed, blamed>>
      BY <1>4 DEF Control!InfoAnswered, Control!Awaited, Control!unchangedByProgress
    <3>2. socket' = [socket EXCEPT ![connection] = u]
      BY <1>a, <1>4 DEF Control!InfoAnswered
    <3> QED
      BY <3>1, <3>2
  <2>2. s.state = "ready" /\ Tail(s.frames) = <<>>
    BY <1>a, <2>1, OneFrame DEF Sound
  <2>3. t = [s EXCEPT !.checked = TRUE, !.frames = <<>>]
    BY <1>a, <2>2 DEF Control!Identified, Control!Socket
  <2>4. t \in Control!Socket /\ t.state = s.state /\ t.idle = s.idle /\ t.frames = <<>>
    <3>1. <<>> \in Seq(Control!Frame)
      OBVIOUS
    <3> HIDE DEF t
    <3> QED
      BY <1>a, <2>3, <3>1 DEF Control!Socket
  <2> HIDE DEF t
  <2>5. u \in Control!Socket /\ Sound(u, connection, connection, active, known')
    BY <1>a, <2>1, <2>2, <2>4, SentSound
  <2> HIDE DEF u
  <2> QED
    BY <1>0, <2>1, <2>5, ProgressKeeps
<1> QED
  BY <1>1, <1>2, <1>3, <1>4 DEF Control!Opened, Control!Verified, Control!NotVerified

LEMMA AnsweredKeeps ==
  ASSUME ControlInv, Control!Answered
  PROVE  ControlInv'
<1>0. active # None /\ UNCHANGED <<known, disposed, blamed>> /\ socket[connection].frames # <<>>
  BY DEF Control!Answered, Control!Awaited, Control!unchangedByExecution
<1> DEFINE s == socket[connection]
           t == [s EXCEPT !.frames = Tail(@)]
           answered == [socket EXCEPT ![connection] = t]
<1>a. /\ active \in Requests /\ connection \in Requests /\ socket \in [Requests -> Control!Socket]
      /\ s \in Control!Socket /\ ~s.idle /\ (s.checked => connection \in known)
      /\ Sound(s, connection, connection, active, known)
      /\ \A e \in Requests : Sound(socket[e], e, connection, active, known)
  BY <1>0, ActiveIs DEF ControlInv
<1>1. Tail(s.frames) = <<>>
  BY <1>0, <1>a, OneFrame DEF Sound
<1>2. t = [s EXCEPT !.frames = <<>>] /\ [socket EXCEPT ![connection].frames = Tail(@)] = answered
  BY <1>a, <1>1 DEF Control!Socket
<1>3. t \in Control!Socket /\ t.checked = s.checked /\ t.idle = s.idle /\ t.frames = <<>>
  <2>1. <<>> \in Seq(Control!Frame)
    OBVIOUS
  <2> HIDE DEF t
  <2> QED
    BY <1>a, <1>2, <2>1 DEF Control!Socket
<1> HIDE DEF t
<1>4. answered \in [Requests -> Control!Socket] /\ answered[connection] = t
      /\ \A e \in Requests \ {connection} : answered[e] = socket[e]
  BY <1>a, <1>3
<1>5. \/ Control!Finish("resolved", answered, connection)
      \/ Control!Finish("resolved", Control!Closed(answered, connection), None)
  BY <1>2 DEF Control!Answered
<1> HIDE DEF answered
<1>6. \A e \in Requests : Sound(answered[e], e, connection, None, known)
  <2>1. Sound(t, connection, connection, None, known)
    BY <1>a, <1>3 DEF Sound
  <2>2. ASSUME NEW e \in Requests, e # connection
        PROVE  Sound(socket[e], e, connection, None, known)
    BY <1>0, <1>a, <2>2 DEF Sound
  <2> QED
    BY <1>4, <2>1, <2>2
<1>7. /\ Control!Closed(answered, connection) \in [Requests -> Control!Socket]
      /\ \A d, q : \A e \in Requests : Sound(Control!Closed(answered, connection)[e], e, d, q, known)
  BY <1>a, <1>4, <1>6, ClosedKeeps
<1> QED
  BY <1>0, <1>a, <1>4, <1>5, <1>6, <1>7, FinishKeeps

LEMMA EndKeeps ==
  ASSUME ControlInv, Control!DaemonCloses \/ Control!IdleFires \/ Control!Dispose
  PROVE  ControlInv'
<1> DEFINE t == Control!Closed(socket, connection)
<1>0. /\ socket \in [Requests -> Control!Socket] /\ connection \in Requests \cup {None}
      /\ \A e \in Requests : Sound(socket[e], e, connection, active, known)
      /\ job \in [Requests -> {"new", "waiting", "active", "resolved", "rejected", "busy"}]
      /\ \A r \in Requests : job[r] = "active" => r = active
      /\ MaxWaiting \in Nat /\ MaxBytes \in Nat /\ waiting \in Seq(Requests) /\ Counted(waiting, waitingBytes)
  BY ControlAssumption DEF ControlInv, Control!LimitsAssumption
<1>1. t \in [Requests -> Control!Socket] /\ \A d, q : \A e \in Requests : Sound(t[e], e, d, q, known)
  BY <1>0, ClosedKeeps
<1>2. CASE active # None /\ (Control!DaemonCloses \/ Control!IdleFires)
  <2>1. ~Control!IdleFires
    BY <1>2, ActiveIs DEF Control!IdleFires
  <2>2. Control!Reject /\ UNCHANGED <<known, disposed, blamed>>
    BY <1>2, <2>1 DEF Control!DaemonCloses, Control!unchangedByExecution
  <2> QED
    BY <1>2, <2>2, RejectKeeps
<1>3. CASE active = None /\ (Control!DaemonCloses \/ Control!IdleFires)
  <2>1. socket' = t /\ connection' = None /\ UNCHANGED <<job, waiting, waitingBytes, active, known, disposed, blamed>>
    BY <1>3 DEF Control!DaemonCloses, Control!IdleFires, Control!unchangedByExecution
  <2> HIDE DEF t
  <2> QED
    BY <1>1, <1>3, <2>1 DEF ControlInv
<1>4. CASE Control!Dispose
  <2>1. /\ job' = [r \in Requests |-> IF job[r] \in {"waiting", "active"} THEN "rejected" ELSE job[r]]
        /\ waiting' = <<>> /\ active' = None /\ socket' = t /\ connection' = None
        /\ UNCHANGED <<blamed, known>>
    BY <1>4 DEF Control!Dispose
  <2>4. Counted(waiting', waitingBytes')
    <3>1. waitingBytes' = waitingBytes - Control!Bytes(waiting)
      BY <1>4 DEF Control!Dispose
    <3>2. Control!Bytes(waiting) \in Nat /\ Control!Bytes(<<>>) = 0
      BY <1>0, EmptySeq, BytesAre
    <3> QED
      BY <1>0, <2>1, <3>1, <3>2 DEF Counted
  <2>2. /\ job' \in [Requests -> {"new", "waiting", "active", "resolved", "rejected", "busy"}]
        /\ \A r \in Requests : job'[r] # "active"
    BY <1>0, <2>1
  <2>3. waiting' \in Seq(Requests) /\ Len(waiting') <= MaxWaiting
    BY <1>0, <2>1
  <2> HIDE DEF t
  <2> QED
    BY <1>1, <2>1, <2>2, <2>3, <2>4 DEF ControlInv
<1> QED
  BY <1>2, <1>3, <1>4

LEMMA ControlStep ==
  ASSUME ControlInv, [Control!Next]_(Control!vars)
  PROVE  ControlInv'
<1>0. /\ job \in [Requests -> {"new", "waiting", "active", "resolved", "rejected", "busy"}]
      /\ \A r \in Requests : job[r] = "active" => r = active
      /\ waiting \in Seq(Requests) /\ Len(waiting) <= MaxWaiting /\ (waiting # <<>> => active # None)
      /\ Counted(waiting, waitingBytes)
  BY DEF ControlInv
<1>1. ASSUME NEW r \in Requests, Control!Deadline(r) PROVE ControlInv'
  BY <1>0, <1>1, StillKeeps DEF Control!Deadline
<1>2. ASSUME NEW r \in Requests, Control!ActiveTimesOut(r) PROVE ControlInv'
  <2>1. active # None /\ Control!Reject /\ UNCHANGED <<known, disposed, blamed>>
    BY <1>0, <1>2, RequestsAssumption DEF Control!ActiveTimesOut, Control!NoneAssumption
  <2> QED
    BY <2>1, RejectKeeps
<1>3. ASSUME NEW r \in Requests, Control!ZombieEnds(r) PROVE ControlInv'
  BY <1>0, <1>3, StillKeeps DEF Control!ZombieEnds
<1>4. ASSUME Control!BadAnswer PROVE ControlInv'
  BY <1>4, RejectKeeps DEF Control!BadAnswer, Control!unchangedByExecution
<1>5. ASSUME UNCHANGED Control!vars PROVE ControlInv'
  BY <1>0, <1>5, StillKeeps DEF Control!vars
<1> QED
  BY <1>1, <1>2, <1>3, <1>4, <1>5, AskKeeps, WaitingTimesOutKeeps, ExecutionKeeps, AnsweredKeeps, EndKeeps
     DEF Control!Next

LEMMA ControlBegins == Control!Init => ControlInv
<1> SUFFICES ASSUME Control!Init PROVE ControlInv
  OBVIOUS
<1>1. Control!NoSocket \in Control!Socket /\ \A e : Sound(Control!NoSocket, e, None, None, {})
  <2>1. Control!NoSocket \in [state : {"unused"}, checked : {FALSE}, idle : {FALSE}, frames : {<<>>}]
    BY DEF Control!NoSocket
  <2>2. <<>> \in Seq(Control!Frame)
    OBVIOUS
  <2> QED
    BY <2>1, <2>2 DEF Control!Socket, Sound
<1>2. MaxWaiting \in Nat /\ MaxBytes \in Nat /\ Control!Bytes(<<>>) = 0
  BY ControlAssumption, EmptySeq, BytesAre DEF Control!LimitsAssumption
<1> QED
  BY <1>1, <1>2 DEF ControlInv, Control!Init, Counted

\* The invariant: requests, queue and connection agree on the one request
\* that is active.
THEOREM ControlInvariance == Control!Spec => []ControlInv
<1>1. Control!Init => ControlInv
  BY ControlBegins
<1>2. ControlInv /\ [Control!Next]_(Control!vars) => ControlInv'
  BY ControlStep
<1> QED
  BY <1>1, <1>2, PTL DEF Control!Spec

\* Secrets go only to a daemon that has proved its build on that connection.
THEOREM OnlyCheckedDaemonsHear == Control!Spec => []DaemonChecked
<1>1. ControlInv => DaemonChecked
  <2> SUFFICES ASSUME ControlInv, NEW c \in Requests, NEW i \in DOMAIN socket[c].frames
               PROVE  LET f == socket[c].frames[i] IN f.info \/ f.job \in Exempt \/ c \in known
    BY DEF DaemonChecked, Control!DaemonChecked
  <2>1. Sound(socket[c], c, connection, active, known) /\ socket[c] \in Control!Socket
    BY DEF ControlInv
  <2>2. socket[c].frames # <<>>
    BY <2>1, SocketFields
  <2>3. PICK f \in Control!Frame :
          socket[c].frames = <<f>> /\ f.job = active /\ (f.info \/ active \in Exempt \/ c \in known)
    BY <2>1, <2>2 DEF Sound
  <2>4. i = 1
    BY <2>3
  <2> QED
    BY <2>3, <2>4
<1> QED
  BY <1>1, ControlInvariance, PTL

\* The queue's bytes are counted and its limits kept, whichever way requests
\* leave it; at most one frame is under way, the active request's; no other
\* connection stays open, and none after dispose(); and no request fails for
\* another's timeout or for the idle timer.
THEOREM ConnectionIsKept == Control!Spec => []ConnectionKept
<1>1. ControlInv => Control!OneInFlight
  <2> SUFFICES ASSUME ControlInv, NEW c \in Requests, socket[c].frames # <<>>
               PROVE  c = connection /\ Len(socket[c].frames) = 1 /\ Head(socket[c].frames).job = active
    BY DEF Control!OneInFlight
  <2>1. Sound(socket[c], c, connection, active, known)
    BY DEF ControlInv
  <2> QED
    BY <2>1, OneFrame DEF Sound
<1>2. ControlInv => Control!OneConnection
  BY RequestsAssumption DEF ControlInv, Control!OneConnection, Control!Live, Control!NoneAssumption, Sound
<1>3. ControlInv => Control!QueueAccounting /\ Control!NoCollateral
  BY DEF ControlInv, Counted, Control!QueueAccounting, Control!NoCollateral
<1>4. ControlInv => ConnectionKept
  BY <1>1, <1>2, <1>3 DEF ConnectionKept, Control!ConnectionKept
<1> QED
  BY <1>4, ControlInvariance, PTL

-----------------------------------------------------------------------------
\* Whichever part a behaviour of the checked specification is of, it is a behaviour of
\* every part's own, so all that is proved of them holds of it.
THEOREM PartsAreSafe ==
  PartsSafety => [](DaemonChecked /\ ConnectionKept) /\ ResetForgets /\ ServiceKept
<1>1. PartsInit => Init /\ Control!Init
  BY DEF PartsInit
<1>2. [PartsNext]_allVars => [Next]_vars /\ [Control!Next]_(Control!vars)
  <2> SUFFICES ASSUME [PartsNext]_allVars PROVE [Next]_vars /\ [Control!Next]_(Control!vars)
    OBVIOUS
  <2>1. (Next \/ UNCHANGED vars) /\ (Control!Next \/ UNCHANGED controlVars)
    BY DEF PartsNext, allVars
  <2> QED
    BY <2>1 DEF controlVars, Control!vars
<1>3. PartsSafety => Spec /\ Control!Spec
  BY <1>1, <1>2, PTL DEF PartsSafety, Spec, Control!Spec
<1> QED
  BY <1>3, OnlyCheckedDaemonsHear, ConnectionIsKept, ResetIsForgotten, SharedServiceIsKept, PTL

=============================================================================
