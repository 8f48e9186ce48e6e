------------------------ MODULE AccessAndLoginsProofs ------------------------
(***************************************************************************)
(* Proofs about the parts of MCAepCredentials, for any processes, programs *)
(* and bounds: that logins keep what they were granted (AuthFlows), that   *)
(* MCP servers and logins are kept apart from what a reset has removed     *)
(* (SessionReset), that a factor said to open the vault does               *)
(* (VaultFactors), and that those who hold the vault and those who ask it  *)
(* know each other (WindowsClient, BrokerIdentity, ListenerOwner).         *)
(*                                                                         *)
(* Each part has an inductive invariant that says what every process       *)
(* involved knows about the others at each of its steps, proved under the  *)
(* part's own specification; the last theorem puts them together for the   *)
(* specification that TLC checks.                                          *)
(***************************************************************************)
EXTENDS MCAepCredentials, AepCredentialsProofs
-----------------------------------------------------------------------------
(* AuthFlows.                                                               *)

\* A command has the tokens it was granted until it ends, and the code it polls
\* for; tokens that are not stored yet are of a session nobody has stored, revoked
\* or remembered, and a session that is about to be revoked is not the stored one.
Holding == {"prior", "store", "clearKey", "clearPending", "revoke"}
Storing == {"prior", "store"}

Credible(f) ==
  /\ f.tokens # 0 <=> f.at \in Holding
  /\ f.at \in Holding \cup {"announce", "poll"} => f.code # 0
  /\ f.code # 0 => code[f.code] # "unused"
  /\ f.at = "announce" => code[f.code] # "exchanged" /\ pending # f.code
  /\ f.at \in Holding \ Storing => f.code \in stowed /\ (f.prior = 0 \/ f.prior # auth)
  /\ f.at = "revoke" => pending # f.code
  /\ f.at \in Storing => f.tokens \notin {auth, f.prior} \cup rebound
  /\ f.prior <= granted /\ f.tokens <= granted

\* Of two commands, one that stores tokens has them to itself, and nobody else
\* knows of a code that is not recorded yet.
Apart(f, g) ==
  /\ f.at \in Storing => g.prior # f.tokens /\ (g.at \in Storing => g.tokens # f.tokens)
  /\ f.at = "announce" => g.code # f.code

FlowsInv ==
  /\ Flows!TypeOK
  /\ auth <= granted
  /\ \A s \in rebound : s <= granted
  /\ auth \notin rebound
  /\ pending # 0 => code[pending] # "unused"
  /\ \A p \in Procs : Credible(flow[p])
  /\ \A p, q \in Procs : p # q => Apart(flow[p], flow[q])
  /\ Flows!LoginKept

\* What the type of the state says of each variable.
LEMMA FlowsTypes ==
  ASSUME FlowsInv
  PROVE  /\ auth \in 0..MaxSessions /\ apiKey \in BOOLEAN /\ pending \in {0} \cup Codes
         /\ code \in [Codes -> {"unused", "waiting", "approved", "denied", "exchanged"}]
         /\ live \subseteq 1..MaxSessions /\ granted \in 0..MaxSessions
         /\ flow \in [Procs -> Flows!Flow] /\ \A p \in Procs : flow[p] \in Flows!Flow
         /\ begun \in 0..MaxLogins /\ crashes \in 0..MaxCrashes
         /\ stowed \subseteq Codes /\ dropped \subseteq Codes /\ rebound \subseteq 1..MaxSessions
         /\ MaxSessions \in Nat \ {0} /\ MaxLogins \in Nat /\ MaxCrashes \in Nat /\ 0 \notin Codes
BY FlowsAssumption
DEF FlowsInv, Flows!TypeOK, Flows!Sessions, Flows!Nothing, Flows!BoundsAssumption, Flows!CodesAssumption

\* And of each part of a command.
LEMMA FlowTypes ==
  ASSUME NEW f \in Flows!Flow
  PROVE  /\ f.code \in {0} \cup Codes
         /\ f.prior \in {0} \cup 1..MaxSessions /\ f.tokens \in {0} \cup 1..MaxSessions
         /\ f.at \in Flows!Labels
BY DEF Flows!Flow, Flows!Nothing, Flows!Sessions

\* What a step of one command that grants, revokes and records nothing has to leave true.
LEMMA MildStep ==
  ASSUME FlowsInv, NEW p \in Procs, NEW x \in Flows!Flow,
         flow' = [flow EXCEPT ![p] = x],
         UNCHANGED <<code, granted, rebound, stowed>>,
         auth' \in {auth, 0}, pending' \in {pending, 0}, apiKey' \in BOOLEAN, live' \subseteq live,
         dropped \subseteq dropped', dropped' \subseteq Codes,
         begun' \in 0..MaxLogins, crashes' \in 0..MaxCrashes,
         x.at \in Storing => x.tokens = flow[p].tokens /\ flow[p].at \in Storing,
         x.prior \in {flow[p].prior, auth, 0},
         x.at # "announce",
         x.code \in {flow[p].code, pending, 0},
         x.tokens # 0 => x.code = flow[p].code,
         x.tokens = 0 /\ flow[p].tokens # 0 => flow[p].code \in dropped' \/ flow[p].at = "revoke",
         flow'[p] = x => Credible(flow[p])'
  PROVE  FlowsInv'
<1> USE FlowsTypes
<1>1. /\ flow' \in [Procs -> Flows!Flow] /\ flow'[p] = x
      /\ \A q \in Procs \ {p} : flow'[q] = flow[q]
  OBVIOUS
<1>2. Flows!TypeOK'
  BY <1>1 DEF FlowsInv, Flows!TypeOK, Flows!Sessions, Flows!Nothing
<1>3. ASSUME NEW q \in Procs \ {p} PROVE Credible(flow[q])'
  <2>1. flow'[q] = flow[q] /\ Credible(flow[q])
    BY <1>1 DEF FlowsInv
  <2> QED BY <2>1, FlowTypes DEF Credible, Holding, Storing
<1>4. ASSUME NEW q \in Procs \ {p} PROVE Apart(flow[q], flow[p])' /\ Apart(flow[p], flow[q])'
  <2>1. flow'[q] = flow[q] /\ Credible(flow[q]) /\ Apart(flow[q], flow[p]) /\ Apart(flow[p], flow[q])
    BY <1>1 DEF FlowsInv
  <2>2. flow'[p] = x
    BY <1>1
  <2>3. Apart(flow[q], x)
    BY <2>1, FlowTypes DEF Apart, Credible, Holding, Storing
  <2>4. Apart(x, flow[q])
    BY <2>1 DEF Apart
  <2> QED BY <2>1, <2>2, <2>3, <2>4 DEF Apart
<1>5. ASSUME NEW q \in Procs, NEW r \in Procs, q # r PROVE Apart(flow[q], flow[r])'
  <2>1. CASE q = p \/ r = p
    BY <1>4, <1>5, <2>1
  <2>2. CASE q # p /\ r # p
    BY <1>1, <1>5, <2>2 DEF FlowsInv, Apart
  <2> QED BY <2>1, <2>2
<1>6. ASSUME NEW c \in Codes, Flows!InHand(c)
      PROVE  Flows!InHand(c)' \/ c \in dropped' \/ (c \in stowed /\ c # pending)
  <2>1. PICK q \in Procs : flow[q].code = c /\ flow[q].tokens # 0
    BY <1>6 DEF Flows!InHand, Flows!Nothing
  <2>2. CASE q # p \/ x.tokens # 0
    BY <1>1, <2>1, <2>2 DEF Flows!InHand, Flows!Nothing
  <2>3. CASE q = p /\ x.tokens = 0
    <3>1. Credible(flow[p])
      BY DEF FlowsInv
    <3> QED BY <2>1, <2>3, <3>1 DEF Credible, Holding, Storing
  <2> QED BY <2>2, <2>3
<1>7. Flows!LoginKept'
  BY <1>6 DEF FlowsInv, Flows!LoginKept, Flows!GrantKept, Flows!NoStalePending, Flows!Nothing
<1>8. /\ (auth <= granted)' /\ (auth \notin rebound)' /\ (\A s \in rebound : s <= granted)'
      /\ (pending # 0 => code[pending] # "unused")'
  BY DEF FlowsInv
<1> QED BY <1>1, <1>2, <1>3, <1>5, <1>7, <1>8 DEF FlowsInv

\* A command ends: what it had is stored, lost, or was never there.
LEMMA FlowEnds ==
  ASSUME FlowsInv, NEW p \in Procs, Flows!End(p),
         UNCHANGED <<code, granted, rebound, stowed>>,
         auth' \in {auth, 0}, pending' \in {pending, 0}, apiKey' \in BOOLEAN, live' \subseteq live,
         dropped \subseteq dropped', dropped' \subseteq Codes,
         begun' \in 0..MaxLogins, crashes' \in 0..MaxCrashes,
         flow[p].tokens # 0 => flow[p].code \in dropped' \/ flow[p].at = "revoke"
  PROVE  FlowsInv'
<1> USE FlowsTypes
<1>1. /\ Flows!NoFlow \in Flows!Flow /\ Flows!NoFlow.at = "idle" /\ Flows!NoFlow.code = 0
      /\ Flows!NoFlow.prior = 0 /\ Flows!NoFlow.tokens = 0
  BY DEF Flows!NoFlow, Flows!Flow, Flows!Labels, Flows!Nothing
<1>2. flow' = [flow EXCEPT ![p] = Flows!NoFlow]
  BY DEF Flows!End
<1>3. flow'[p] = Flows!NoFlow => Credible(flow[p])'
  BY <1>1 DEF Credible, Holding, Storing, FlowsInv
<1> QED BY <1>1, <1>2, <1>3, MildStep DEF Storing

\* A command begins, or goes from one step to the next, and touches no tokens.
LEMMA FlowGoes ==
  ASSUME FlowsInv, NEW p \in Procs, NEW x \in Flows!Flow, flow' = [flow EXCEPT ![p] = x],
         UNCHANGED <<code, granted, rebound, stowed, dropped>>,
         auth' \in {auth, 0}, pending' \in {pending, 0}, apiKey' \in BOOLEAN, live' \subseteq live,
         begun' \in 0..MaxLogins, crashes' \in 0..MaxCrashes,
         x.tokens = flow[p].tokens,
         x.prior \in {flow[p].prior, auth, 0},
         x.code \in {flow[p].code, pending, 0},
         x.tokens # 0 => x.code = flow[p].code,
         x.at \in Storing => flow[p].at \in Storing,
         x.at \in Holding <=> flow[p].at \in Holding,
         x.at \in Holding \ Storing => flow[p].at \in Holding \ Storing /\ x.prior = flow[p].prior,
         x.at = "poll" => x.code # 0,
         x.at # "announce",
         x.at = "revoke" => pending' = 0
  PROVE  FlowsInv'
<1> USE FlowsTypes
<1>1. Credible(flow[p])
  BY DEF FlowsInv
<1>2. flow'[p] = x => Credible(flow[p])'
  BY <1>1, FlowTypes DEF Credible, Holding, Storing, FlowsInv
<1>3. x.tokens = 0 /\ flow[p].tokens # 0 => FALSE
  OBVIOUS
<1> QED BY <1>2, <1>3, MildStep

\* Every step of a login, a logout, the server or the kernel keeps FlowsInv
\* (auth/poll.ts, auth-login.ts, auth-logout.ts).
THEOREM FlowsInvariance == Flows!Spec => []FlowsInv
<1>1. Flows!Init => FlowsInv
  <2> SUFFICES ASSUME Flows!Init PROVE FlowsInv
    OBVIOUS
  <2>1. /\ auth = 1 /\ apiKey = FALSE /\ pending = 0 /\ code = [c \in Codes |-> "unused"] /\ live = {1}
        /\ granted = 1 /\ begun = 0 /\ crashes = 0 /\ stowed = {} /\ dropped = {} /\ rebound = {}
        /\ flow = [p \in Procs |-> Flows!NoFlow]
    BY DEF Flows!Init, Flows!Nothing
  <2>2. /\ Flows!NoFlow \in Flows!Flow /\ Flows!NoFlow.at = "idle" /\ Flows!NoFlow.code = 0
        /\ Flows!NoFlow.prior = 0 /\ Flows!NoFlow.tokens = 0
    BY DEF Flows!NoFlow, Flows!Flow, Flows!Labels, Flows!Nothing
  <2>3. MaxSessions \in Nat \ {0} /\ MaxLogins \in Nat /\ MaxCrashes \in Nat
    BY FlowsAssumption DEF Flows!BoundsAssumption
  <2>4. Flows!TypeOK
    <3>1. 1 \in 1..MaxSessions /\ 1 \in 0..MaxSessions /\ 0 \in 0..MaxLogins /\ 0 \in 0..MaxCrashes
      BY <2>3
    <3>2. flow \in [Procs -> Flows!Flow]
      BY <2>1, <2>2
    <3>3. code \in [Codes -> {"unused", "waiting", "approved", "denied", "exchanged"}]
      BY <2>1
    <3> QED BY <2>1, <3>1, <3>2, <3>3 DEF Flows!TypeOK, Flows!Sessions, Flows!Nothing
  <2>5. \A p \in Procs : flow[p] = Flows!NoFlow
    BY <2>1
  <2>6. Flows!LoginKept
    BY <2>1 DEF Flows!LoginKept, Flows!GrantKept, Flows!NoStalePending, Flows!Nothing
  <2>7. \A p \in Procs : Credible(flow[p])
    BY <2>1, <2>2, <2>5 DEF Credible, Holding, Storing
  <2>8. \A p, q \in Procs : Apart(flow[p], flow[q])
    BY <2>2, <2>5 DEF Apart, Storing
  <2> QED BY <2>1, <2>4, <2>6, <2>7, <2>8 DEF FlowsInv
<1>2. FlowsInv /\ [Flows!Next]_(Flows!vars) => FlowsInv'
  <2> SUFFICES ASSUME FlowsInv, [Flows!Next]_(Flows!vars)
               PROVE FlowsInv'
    OBVIOUS
  <2> USE FlowsTypes
  <2>a. ASSUME NEW p \in Procs PROVE Credible(flow[p])
    BY DEF FlowsInv
  <2>b. ASSUME NEW p \in Procs, Flows!Command(p)
        PROVE  begun' \in 0..MaxLogins /\ flow[p].at = "idle" /\ flow[p].tokens = 0
    BY <2>a, <2>b DEF Flows!Command, Flows!At, Credible, Holding, Storing
  <2>c. ASSUME NEW p \in Procs, NEW x \in Flows!Flow, flow' = [flow EXCEPT ![p] = x], Flows!Command(p),
               UNCHANGED <<Flows!settings, Flows!server, crashes, Flows!history>>,
               x.tokens = 0, x.prior \in {auth, 0}, x.code \in {pending, 0}, x.at \notin Holding,
               x.at = "poll" => x.code # 0, x.at # "announce"
        PROVE  FlowsInv'
    <3>1. flow[p].at \notin Holding \cup Storing /\ x.at \notin Holding \cup Storing
      BY <2>b, <2>c DEF Holding, Storing
    <3>2. x.at # "revoke"
      BY <2>c DEF Holding
    <3> QED BY <2>b, <2>c, <3>1, <3>2, FlowGoes DEF Flows!settings, Flows!server, Flows!history
  <2>d. /\ Flows!NoFlow \in Flows!Flow /\ Flows!NoFlow.at = "idle" /\ Flows!NoFlow.code = 0
        /\ Flows!NoFlow.prior = 0 /\ Flows!NoFlow.tokens = 0
    BY DEF Flows!NoFlow, Flows!Flow, Flows!Labels, Flows!Nothing
  <2>e. auth \in {0} \cup 1..MaxSessions
    OBVIOUS
  <2>1. ASSUME NEW p \in Procs, Flows!Begin(p) PROVE FlowsInv'
    <3>1. CASE Flows!BeginLogin(p)
      <4>1. PICK kind \in {"tty", "agent"}, ask \in {0, auth} :
              flow' = [flow EXCEPT ![p] = [Flows!NoFlow EXCEPT !.kind = kind, !.at = "start", !.prior = ask]]
        BY <3>1 DEF Flows!BeginLogin, Flows!Nothing
      <4> DEFINE x == [Flows!NoFlow EXCEPT !.kind = kind, !.at = "start", !.prior = ask]
      <4>2. x \in Flows!Flow /\ x.at = "start" /\ x.prior = ask /\ x.tokens = 0 /\ x.code = 0
        BY <2>d, <2>e DEF Flows!Flow, Flows!Labels, Flows!Nothing, Flows!Sessions
      <4>3. Flows!Command(p) /\ UNCHANGED <<Flows!settings, Flows!server, crashes, Flows!history>>
        BY <3>1 DEF Flows!BeginLogin
      <4> HIDE DEF x
      <4> QED BY <2>c, <4>1, <4>2, <4>3 DEF x, Holding, Storing
    <3>2. CASE Flows!BeginStatus(p)
      <4> DEFINE x == [Flows!NoFlow EXCEPT !.kind = "status", !.at = "poll", !.code = pending]
      <4>1. flow' = [flow EXCEPT ![p] = x] /\ pending # 0
        BY <3>2 DEF Flows!BeginStatus, Flows!Nothing
      <4>2. x \in Flows!Flow /\ x.at = "poll" /\ x.prior = 0 /\ x.tokens = 0 /\ x.code = pending
        BY <2>d DEF Flows!Flow, Flows!Labels, Flows!Nothing
      <4>3. Flows!Command(p) /\ UNCHANGED <<Flows!settings, Flows!server, crashes, Flows!history>>
        BY <3>2 DEF Flows!BeginStatus
      <4> HIDE DEF x
      <4> QED BY <2>c, <4>1, <4>2, <4>3 DEF Holding, Storing
    <3>3. CASE Flows!BeginApiKey(p)
      <4> DEFINE x == [Flows!NoFlow EXCEPT !.kind = "apiKey", !.at = "probe"]
      <4>1. flow' = [flow EXCEPT ![p] = x]
        BY <3>3 DEF Flows!BeginApiKey
      <4>2. x \in Flows!Flow /\ x.at = "probe" /\ x.prior = 0 /\ x.tokens = 0 /\ x.code = 0
        BY <2>d DEF Flows!Flow, Flows!Labels
      <4>3. Flows!Command(p) /\ UNCHANGED <<Flows!settings, Flows!server, crashes, Flows!history>>
        BY <3>3 DEF Flows!BeginApiKey
      <4> HIDE DEF x
      <4> QED BY <2>c, <4>1, <4>2, <4>3 DEF Holding, Storing
    <3>4. CASE Flows!BeginLogout(p)
      <4> DEFINE at == IF auth = 0 THEN "outAuth" ELSE "outRevoke"
                 x == [Flows!NoFlow EXCEPT !.kind = "logout", !.prior = auth, !.at = at]
      <4>1. flow' = [flow EXCEPT ![p] = x]
        BY <3>4 DEF Flows!BeginLogout, Flows!Nothing
      <4>2. at \in {"outAuth", "outRevoke"}
        OBVIOUS
      <4> HIDE DEF at
      <4>3. x \in Flows!Flow /\ x.at = at /\ x.prior = auth /\ x.tokens = 0 /\ x.code = 0
        BY <2>d, <2>e, <4>2 DEF Flows!Flow, Flows!Labels, Flows!Nothing, Flows!Sessions
      <4>4. Flows!Command(p) /\ UNCHANGED <<Flows!settings, Flows!server, crashes, Flows!history>>
        BY <3>4 DEF Flows!BeginLogout
      <4> HIDE DEF x
      <4> QED BY <2>c, <4>1, <4>2, <4>3, <4>4 DEF Holding, Storing
    <3> QED BY <2>1, <3>1, <3>2, <3>3, <3>4 DEF Flows!Begin
  \* The flow of p with another label.
  <2>f. ASSUME NEW p \in Procs, NEW at \in Flows!Labels
        PROVE  LET x == [flow[p] EXCEPT !.at = at] IN
               /\ x \in Flows!Flow /\ x.at = at /\ x.code = flow[p].code
               /\ x.prior = flow[p].prior /\ x.tokens = flow[p].tokens
    BY DEF Flows!Flow
  <2>g. ASSUME NEW p \in Procs, NEW at \in Flows!Labels, Flows!Goto(p, at),
               UNCHANGED <<code, granted, rebound, stowed, dropped, begun, crashes>>,
               auth' \in {auth, 0}, pending' \in {pending, 0}, apiKey' \in BOOLEAN, live' \subseteq live,
               at \in Holding <=> flow[p].at \in Holding,
               at \in Holding => at \notin Storing /\ flow[p].at \notin Storing,
               at \notin {"announce", "poll"},
               at = "revoke" => pending' = 0
        PROVE  FlowsInv'
    <3> DEFINE x == [flow[p] EXCEPT !.at = at]
    <3>1. flow' = [flow EXCEPT ![p] = x]
      BY <2>g DEF Flows!Goto
    <3>2. /\ x \in Flows!Flow /\ x.at = at /\ x.code = flow[p].code
          /\ x.prior = flow[p].prior /\ x.tokens = flow[p].tokens
      BY <2>f
    <3> HIDE DEF x
    <3>3. Storing \subseteq Holding
      BY DEF Storing, Holding
    <3> QED BY <2>g, <3>1, <3>2, <3>3, FlowGoes
  \* What is left to show of a step of p that changes more than that.
  <2>h. ASSUME NEW p \in Procs, NEW x \in Flows!Flow, flow' = [flow EXCEPT ![p] = x],
               Flows!TypeOK', \A q \in Procs : Credible(flow[q])',
               (auth <= granted)', (\A s \in rebound : s <= granted)', (auth \notin rebound)',
               (pending # 0 => code[pending] # "unused")', Flows!LoginKept',
               \A q \in Procs \ {p} : Apart(flow[q], x) /\ Apart(x, flow[q])
        PROVE  FlowsInv'
    <3>1. flow'[p] = x /\ \A q \in Procs \ {p} : flow'[q] = flow[q]
      BY <2>h
    <3>2. ASSUME NEW q \in Procs, NEW r \in Procs, q # r PROVE Apart(flow[q], flow[r])'
      <4>1. CASE q # p /\ r # p
        BY <3>1, <3>2, <4>1 DEF FlowsInv, Apart
      <4>2. CASE q = p \/ r = p
        BY <2>h, <3>1, <3>2, <4>2 DEF Apart
      <4> QED BY <4>1, <4>2
    <3> QED BY <2>h, <3>2 DEF FlowsInv
  <2>i. ASSUME NEW p \in Procs, NEW x \in Flows!Flow, flow' = [flow EXCEPT ![p] = x]
        PROVE  /\ flow' \in [Procs -> Flows!Flow] /\ flow'[p] = x /\ \A q \in Procs \ {p} : flow'[q] = flow[q]
    BY <2>i
  <2>2. ASSUME NEW p \in Procs, Flows!InitiateDeviceAuth(p) PROVE FlowsInv'
    <3>1. PICK c \in Codes :
            /\ code[c] = "unused" /\ code' = [code EXCEPT ![c] = "waiting"]
            /\ flow' = [flow EXCEPT ![p] = [flow[p] EXCEPT !.code = c,
                                            !.at = IF flow[p].kind = "agent" THEN "announce" ELSE "poll"]]
      BY <2>2 DEF Flows!InitiateDeviceAuth
    <3> DEFINE at == IF flow[p].kind = "agent" THEN "announce" ELSE "poll"
               x == [flow[p] EXCEPT !.code = c, !.at = at]
    <3>2. /\ flow[p].at = "start" /\ flow[p].tokens = 0
          /\ UNCHANGED <<Flows!settings, live, granted, Flows!bounds, Flows!history>>
      BY <2>2, <2>a DEF Flows!InitiateDeviceAuth, Flows!At, Credible, Holding, Storing
    <3>3. flow' = [flow EXCEPT ![p] = x] /\ at \in {"announce", "poll"}
      BY <3>1
    <3> HIDE DEF at
    <3>4. /\ x \in Flows!Flow /\ x.at = at /\ x.code = c /\ x.tokens = 0 /\ x.prior = flow[p].prior
      BY <3>2, <3>3 DEF Flows!Flow, Flows!Labels
    <3> HIDE DEF x
    <3>5. flow' \in [Procs -> Flows!Flow] /\ flow'[p] = x /\ \A q \in Procs \ {p} : flow'[q] = flow[q]
      BY <2>i, <3>3, <3>4
    <3>6. Flows!TypeOK'
      BY <3>1, <3>2, <3>5 DEF FlowsInv, Flows!TypeOK, Flows!settings, Flows!bounds, Flows!history
    <3>7. c # 0 /\ pending # c
      BY <3>1 DEF FlowsInv
    <3>8. Credible(flow[p])'
      BY <2>a, <3>1, <3>2, <3>3, <3>4, <3>5, <3>7 DEF Credible, Holding, Storing, Flows!settings, Flows!history
    <3>9. ASSUME NEW q \in Procs \ {p}
          PROVE  Credible(flow[q])' /\ Apart(flow[q], x) /\ Apart(x, flow[q])
      <4>1. Credible(flow[q]) /\ Apart(flow[q], flow[p]) /\ flow'[q] = flow[q]
        BY <3>5 DEF FlowsInv
      <4>2. flow[q].at = "announce" => flow[q].code # 0
        BY <4>1 DEF Credible, Holding
      <4>3. flow[q].code # c
        BY <3>1, <3>7, <4>1 DEF Credible
      <4>4. Credible(flow[q])'
        BY <3>1, <3>2, <4>1, <4>3, FlowTypes DEF Credible, Flows!settings, Flows!history
      <4> QED BY <3>3, <3>4, <4>1, <4>3, <4>4 DEF Apart, Storing
    <3>10. Flows!LoginKept'
      <4>1. \A d \in Codes : Flows!InHand(d) => Flows!InHand(d)'
        BY <3>2, <3>5 DEF Flows!InHand, Flows!Nothing
      <4>2. \A d \in Codes : code'[d] = "exchanged" => code[d] = "exchanged"
        BY <3>1
      <4> QED BY <3>2, <4>1, <4>2
          DEF FlowsInv, Flows!LoginKept, Flows!GrantKept, Flows!NoStalePending, Flows!Nothing, Flows!settings, Flows!history
    <3>11. (pending # 0 => code[pending] # "unused")'
      BY <3>1, <3>2, <3>7 DEF FlowsInv, Flows!settings
    <3>12. (auth <= granted)' /\ (\A s \in rebound : s <= granted)' /\ (auth \notin rebound)'
      BY <3>2 DEF FlowsInv, Flows!settings, Flows!history
    <3> QED BY <2>h, <3>3, <3>4, <3>6, <3>8, <3>9, <3>10, <3>11, <3>12
  <2>3. ASSUME NEW p \in Procs, Flows!SetPendingDeviceAuth(p) PROVE FlowsInv'
    <3>1. /\ flow[p].at = "announce" /\ pending' = flow[p].code /\ flow[p].tokens = 0
          /\ Flows!Goto(p, "poll") \/ Flows!End(p)
          /\ UNCHANGED <<auth, apiKey, Flows!server, Flows!bounds, Flows!history>>
      BY <2>3, <2>a DEF Flows!SetPendingDeviceAuth, Flows!At, Credible, Holding, Storing
    <3>2. PICK x \in Flows!Flow :
            /\ flow' = [flow EXCEPT ![p] = x] /\ x.at \in {"poll", "idle"} /\ x.tokens = 0
            /\ x.prior \in {0, flow[p].prior} /\ x.code \in {0, flow[p].code}
            /\ x.at = "poll" => x.code = flow[p].code
      <4>1. CASE Flows!End(p)
        BY <2>d, <4>1 DEF Flows!End
      <4>2. CASE Flows!Goto(p, "poll")
        <5> DEFINE y == [flow[p] EXCEPT !.at = "poll"]
        <5>1. /\ y \in Flows!Flow /\ y.at = "poll" /\ y.code = flow[p].code
              /\ y.prior = flow[p].prior /\ y.tokens = flow[p].tokens
          BY <2>f DEF Flows!Labels
        <5>2. flow' = [flow EXCEPT ![p] = y]
          BY <4>2 DEF Flows!Goto
        <5> HIDE DEF y
        <5> QED BY <3>1, <5>1, <5>2
      <4> QED BY <3>1, <4>1, <4>2
    <3>3. flow' \in [Procs -> Flows!Flow] /\ flow'[p] = x /\ \A q \in Procs \ {p} : flow'[q] = flow[q]
      BY <2>i, <3>2
    <3>4. flow[p].code \in Codes /\ code[flow[p].code] \notin {"unused", "exchanged"}
      BY <2>a, <3>1, FlowTypes DEF Credible, Holding
    <3>5. Flows!TypeOK'
      BY <3>1, <3>3, <3>4 DEF FlowsInv, Flows!TypeOK, Flows!server, Flows!bounds, Flows!history
    <3>6. Credible(flow[p])'
      BY <2>a, <3>1, <3>2, <3>3, FlowTypes DEF Credible, Holding, Storing, FlowsInv, Flows!server, Flows!history
    <3>7. ASSUME NEW q \in Procs \ {p}
          PROVE  Credible(flow[q])' /\ Apart(flow[q], x) /\ Apart(x, flow[q])
      <4>1. Credible(flow[q]) /\ Apart(flow[q], flow[p]) /\ Apart(flow[p], flow[q]) /\ flow'[q] = flow[q]
        BY <3>3 DEF FlowsInv
      <4>2. flow[q].code # flow[p].code
        BY <3>1, <4>1 DEF Apart
      <4>3. Credible(flow[q])'
        BY <3>1, <4>1, <4>2 DEF Credible, Flows!server, Flows!history
      <4>4. Apart(flow[q], x)
        BY <3>2, <4>1 DEF Apart, Credible, Holding, Storing
      <4> QED BY <3>2, <4>1, <4>3, <4>4 DEF Apart, Storing
    <3>8. Flows!LoginKept'
      <4>1. \A d \in Codes : Flows!InHand(d) => Flows!InHand(d)'
        BY <3>1, <3>3 DEF Flows!InHand, Flows!Nothing
      <4> QED BY <3>1, <3>4, <4>1
          DEF FlowsInv, Flows!LoginKept, Flows!GrantKept, Flows!NoStalePending, Flows!Nothing, Flows!server, Flows!history
    <3>9. /\ (auth <= granted)' /\ (\A s \in rebound : s <= granted)' /\ (auth \notin rebound)'
          /\ (pending # 0 => code[pending] # "unused")'
      BY <3>1, <3>4 DEF FlowsInv, Flows!server, Flows!history
    <3> QED BY <2>h, <3>2, <3>5, <3>6, <3>7, <3>8, <3>9
  <2>4. ASSUME NEW p \in Procs, Flows!PollGranted(p) PROVE FlowsInv'
    <3>1. PICK c \in Codes :
          /\ flow[p].at = "poll" /\ flow[p].tokens = 0 /\ c = flow[p].code /\ code[c] = "approved"
          /\ granted < MaxSessions /\ granted' = granted + 1 /\ live' = live \cup {granted + 1}
          /\ code' = [code EXCEPT ![c] = "exchanged"]
          /\ UNCHANGED <<Flows!settings, Flows!bounds, stowed, rebound>>
      BY <2>4, <2>a, FlowTypes DEF Flows!PollGranted, Flows!At, Credible, Holding, Storing
    <3>2. PICK x \in Flows!Flow :
            /\ flow' = [flow EXCEPT ![p] = x]
            /\ \/ /\ x.at \in Storing /\ x.tokens = granted + 1 /\ x.code = c /\ x.prior = flow[p].prior
                  /\ dropped' = dropped
               \/ /\ x.at = "idle" /\ x.tokens = 0 /\ x.code = 0 /\ x.prior = 0
                  /\ dropped' = dropped \cup {c}
      <4>1. CASE Flows!End(p) /\ dropped' = dropped \cup {c}
        BY <3>1, <2>d, <4>1 DEF Flows!End
      <4>2. CASE /\ flow' = [flow EXCEPT ![p] = [flow[p] EXCEPT !.tokens = granted + 1,
                                  !.at = IF flow[p].kind = "status" THEN "prior" ELSE "store"]]
                 /\ dropped' = dropped
        <5> DEFINE at == IF flow[p].kind = "status" THEN "prior" ELSE "store"
                   y == [flow[p] EXCEPT !.tokens = granted + 1, !.at = at]
        <5>1. at \in Storing /\ at \in Flows!Labels /\ granted + 1 \in 1..MaxSessions
          BY <3>1 DEF Storing, Flows!Labels
        <5> HIDE DEF at
        <5>2. /\ y \in Flows!Flow /\ y.at = at /\ y.code = c /\ y.prior = flow[p].prior /\ y.tokens = granted + 1
          BY <3>1, <5>1 DEF Flows!Flow, Flows!Sessions, Flows!Nothing
        <5>3. flow' = [flow EXCEPT ![p] = y]
          BY <4>2 DEF at
        <5> HIDE DEF y
        <5> QED BY <4>2, <5>1, <5>2, <5>3
      <4> QED BY <2>4, <3>1, <4>1, <4>2 DEF Flows!PollGranted
    <3>3. flow' \in [Procs -> Flows!Flow] /\ flow'[p] = x /\ \A q \in Procs \ {p} : flow'[q] = flow[q]
      BY <2>i, <3>2
    <3>4. Flows!TypeOK'
      <4>1. granted' \in 0..MaxSessions /\ live' \subseteq 1..MaxSessions
        BY <3>1
      <4>2. code' \in [Codes -> {"unused", "waiting", "approved", "denied", "exchanged"}]
        BY <3>1
      <4>3. dropped' \subseteq Codes
        BY <3>1, <3>2
      <4> QED BY <3>1, <3>3, <4>1, <4>2, <4>3 DEF FlowsInv, Flows!TypeOK, Flows!settings, Flows!bounds, Flows!Sessions
    <3>5. auth <= granted /\ auth \notin rebound /\ \A s \in rebound : s <= granted
      BY DEF FlowsInv
    <3>6. x.at \in Storing => flow[p].prior <= granted /\ granted + 1 \notin {auth, flow[p].prior} \cup rebound
      BY <2>a, <3>5, FlowTypes DEF Credible
    <3>7. Credible(flow[p])'
      <4>1. CASE x.at \in Storing
        <5>1. x.tokens = granted + 1 /\ x.code = c /\ x.prior = flow[p].prior
          BY <3>2, <4>1 DEF Storing
        <5> QED BY <3>1, <3>3, <3>6, <4>1, <5>1, FlowTypes DEF Credible, Holding, Storing, Flows!settings
      <4>2. CASE x.at \notin Storing
        BY <3>1, <3>2, <3>3, <4>2 DEF Credible, Holding, Storing
      <4> QED BY <4>1, <4>2
    <3>8. ASSUME NEW q \in Procs \ {p}
          PROVE  Credible(flow[q])' /\ Apart(flow[q], x) /\ Apart(x, flow[q])
      <4>1. Credible(flow[q]) /\ Apart(flow[q], flow[p]) /\ flow'[q] = flow[q]
        BY <3>3 DEF FlowsInv
      <4>2. flow[q].prior <= granted /\ flow[q].tokens <= granted
        BY <4>1 DEF Credible
      <4>3. flow[q].at = "announce" => flow[q].code # c
        BY <3>1, <4>1 DEF Apart
      <4>4. Credible(flow[q])'
        BY <3>1, <4>1, <4>2, <4>3, FlowTypes DEF Credible, Flows!settings
      <4>5. Apart(x, flow[q])
        BY <3>2, <4>2, FlowTypes DEF Apart, Storing
      <4>6. flow[q].at \in Storing => flow[q].tokens # 0 /\ flow[q].tokens # granted + 1
        BY <4>1, <4>2, FlowTypes DEF Credible, Holding, Storing
      <4>7. flow[q].at = "announce" => flow[q].code # 0
        BY <4>1 DEF Credible, Holding
      <4>8. Apart(flow[q], x)
        BY <3>2, <4>1, <4>3, <4>6, <4>7 DEF Apart
      <4> QED BY <4>4, <4>5, <4>8
    <3>9. Flows!LoginKept'
      <4>1. \A d \in Codes : Flows!InHand(d) => Flows!InHand(d)'
        BY <3>1, <3>3 DEF Flows!InHand, Flows!Nothing
      <4>2. Flows!InHand(c)' \/ c \in dropped'
        BY <3>1, <3>2, <3>3 DEF Flows!InHand, Flows!Nothing
      <4>3. dropped \subseteq dropped' /\ \A d \in Codes \ {c} : code'[d] = code[d]
        BY <3>1, <3>2
      <4>4. stowed' = stowed /\ pending' = pending
        BY <3>1 DEF Flows!settings
      <4>5. Flows!GrantKept'
        BY <4>1, <4>2, <4>3, <4>4 DEF FlowsInv, Flows!LoginKept, Flows!GrantKept
      <4>6. Flows!NoStalePending'
        <5>1. CASE pending = c
          BY <4>2, <4>4, <5>1 DEF Flows!NoStalePending
        <5>2. CASE pending # c
          BY <4>1, <4>3, <4>4, <5>2 DEF FlowsInv, Flows!LoginKept, Flows!NoStalePending, Flows!Nothing
        <5> QED BY <5>1, <5>2
      <4> QED BY <4>5, <4>6 DEF Flows!LoginKept
    <3>10. /\ (auth <= granted)' /\ (\A s \in rebound : s <= granted)' /\ (auth \notin rebound)'
           /\ (pending # 0 => code[pending] # "unused")'
      BY <3>1, <3>5 DEF FlowsInv, Flows!settings
    <3> QED BY <2>h, <3>2, <3>4, <3>7, <3>8, <3>9, <3>10
  <2>5. ASSUME NEW p \in Procs, Flows!StoreTokens(p) PROVE FlowsInv'
    <3> DEFINE x == [flow[p] EXCEPT !.at = "clearKey"]
    <3>1. /\ flow[p].at = "store" /\ auth' = flow[p].tokens /\ stowed' = stowed \cup {flow[p].code}
          /\ flow' = [flow EXCEPT ![p] = x]
          /\ UNCHANGED <<apiKey, pending, Flows!server, Flows!bounds, dropped, rebound>>
      BY <2>5 DEF Flows!StoreTokens, Flows!At, Flows!Goto
    <3>2. /\ x \in Flows!Flow /\ x.at = "clearKey" /\ x.code = flow[p].code
          /\ x.prior = flow[p].prior /\ x.tokens = flow[p].tokens
      BY <2>f DEF Flows!Labels
    <3> HIDE DEF x
    <3>3. flow' \in [Procs -> Flows!Flow] /\ flow'[p] = x /\ \A q \in Procs \ {p} : flow'[q] = flow[q]
      BY <2>i, <3>1, <3>2
    <3>4. /\ flow[p].code \in Codes /\ flow[p].tokens # 0 /\ flow[p].tokens <= granted
          /\ flow[p].tokens \notin {auth, flow[p].prior} \cup rebound
      BY <2>a, <3>1, FlowTypes DEF Credible, Holding, Storing
    <3>5. Flows!TypeOK'
      BY <3>1, <3>3, <3>4, FlowTypes
      DEF FlowsInv, Flows!TypeOK, Flows!server, Flows!bounds, Flows!Sessions, Flows!Nothing
    <3>6. Credible(flow[p])'
      BY <2>a, <3>1, <3>2, <3>3, <3>4 DEF Credible, Holding, Storing, Flows!server
    <3>7. ASSUME NEW q \in Procs \ {p}
          PROVE  Credible(flow[q])' /\ Apart(flow[q], x) /\ Apart(x, flow[q])
      <4>1. Credible(flow[q]) /\ Apart(flow[q], flow[p]) /\ Apart(flow[p], flow[q]) /\ flow'[q] = flow[q]
        BY <3>3 DEF FlowsInv
      <4>2. flow[q].prior # auth' /\ (flow[q].at \in Storing => flow[q].tokens # auth')
        BY <3>1, <4>1 DEF Apart, Storing
      <4>3. Credible(flow[q])'
        BY <3>1, <4>1, <4>2 DEF Credible, Flows!server
      <4> QED BY <3>2, <4>1, <4>3 DEF Apart, Storing
    <3>8. Flows!LoginKept'
      <4>1. \A d \in Codes : Flows!InHand(d) => Flows!InHand(d)'
        BY <3>2, <3>3 DEF Flows!InHand, Flows!Nothing
      <4> QED BY <3>1, <4>1
          DEF FlowsInv, Flows!LoginKept, Flows!GrantKept, Flows!NoStalePending, Flows!Nothing, Flows!server
    <3>9. /\ (auth <= granted)' /\ (\A s \in rebound : s <= granted)' /\ (auth \notin rebound)'
          /\ (pending # 0 => code[pending] # "unused")'
      BY <3>1, <3>4 DEF FlowsInv, Flows!server
    <3> QED BY <2>h, <3>1, <3>2, <3>5, <3>6, <3>7, <3>8, <3>9
  <2>6. ASSUME NEW p \in Procs, Flows!RevokePrior(p) PROVE FlowsInv'
    <3>1. /\ flow[p].at = "revoke" /\ Flows!End(p) /\ live' \subseteq live
          /\ rebound' = rebound \/ (flow[p].prior # 0 /\ rebound' = rebound \cup {flow[p].prior})
          /\ UNCHANGED <<Flows!settings, code, granted, Flows!bounds, stowed, dropped>>
      BY <2>6 DEF Flows!RevokePrior, Flows!At, Flows!Nothing
    <3>2. CASE rebound' = rebound
      BY <3>1, <3>2, FlowEnds DEF Flows!settings, Flows!bounds
    <3>3. CASE flow[p].prior # 0 /\ rebound' = rebound \cup {flow[p].prior}
      <4> DEFINE x == Flows!NoFlow
      <4>1. flow' = [flow EXCEPT ![p] = x]
        BY <3>1 DEF Flows!End
      <4>2. x \in Flows!Flow /\ x.at = "idle" /\ x.code = 0 /\ x.prior = 0 /\ x.tokens = 0
        BY <2>d
      <4> HIDE DEF x
      <4>3. flow' \in [Procs -> Flows!Flow] /\ flow'[p] = x /\ \A q \in Procs \ {p} : flow'[q] = flow[q]
        BY <2>i, <4>1, <4>2
      <4>4. /\ flow[p].prior # auth /\ flow[p].prior <= granted /\ pending # flow[p].code
            /\ flow[p].code \in stowed
        BY <2>a, <3>1, <3>3 DEF Credible, Holding, Storing
      <4>5. Flows!TypeOK'
        BY <3>1, <3>3, <4>3, FlowTypes DEF FlowsInv, Flows!TypeOK, Flows!settings, Flows!bounds, Flows!Sessions
      <4>6. Credible(flow[p])'
        BY <4>2, <4>3, <3>1 DEF Credible, Holding, Storing
      <4>7. ASSUME NEW q \in Procs \ {p}
            PROVE  Credible(flow[q])' /\ Apart(flow[q], x) /\ Apart(x, flow[q])
        <5>1. Credible(flow[q]) /\ Apart(flow[q], flow[p]) /\ flow'[q] = flow[q]
          BY <4>3 DEF FlowsInv
        <5>2. flow[q].at \in Storing => flow[q].tokens # flow[p].prior
          BY <5>1 DEF Apart
        <5>3. Credible(flow[q])'
          BY <3>1, <3>3, <5>1, <5>2 DEF Credible, Flows!settings
        <5> QED BY <4>2, <5>1, <5>3 DEF Apart, Credible, Holding, Storing
      <4>8. Flows!LoginKept'
        <5>1. \A d \in Codes : Flows!InHand(d) => Flows!InHand(d)' \/ d = flow[p].code
          BY <4>3 DEF Flows!InHand, Flows!Nothing
        <5> QED BY <3>1, <4>4, <5>1
            DEF FlowsInv, Flows!LoginKept, Flows!GrantKept, Flows!NoStalePending, Flows!Nothing, Flows!settings
      <4>9. /\ (auth <= granted)' /\ (\A s \in rebound : s <= granted)' /\ (auth \notin rebound)'
            /\ (pending # 0 => code[pending] # "unused")'
        BY <3>1, <3>3, <4>4 DEF FlowsInv, Flows!settings
      <4> QED BY <2>h, <4>1, <4>2, <4>5, <4>6, <4>7, <4>8, <4>9
    <3> QED BY <3>1, <3>2, <3>3
  <2>7. ASSUME NEW p \in Procs, Flows!InitiateFailed(p) \/ Flows!PollEnds(p) PROVE FlowsInv'
    <3>1. /\ Flows!End(p) /\ flow[p].tokens = 0
          /\ UNCHANGED <<Flows!settings, Flows!server, Flows!bounds, Flows!history>>
      BY <2>7, <2>a DEF Flows!InitiateFailed, Flows!PollEnds, Flows!At, Credible, Holding, Storing
    <3> QED BY <3>1, FlowEnds DEF Flows!settings, Flows!server, Flows!bounds, Flows!history
  <2>8. ASSUME NEW p \in Procs, Flows!PollPending(p) PROVE FlowsInv'
    <3>1. /\ flow[p].at = "poll" /\ flow[p].tokens = 0
          /\ UNCHANGED <<Flows!settings, Flows!server, Flows!bounds, Flows!history>>
      BY <2>8, <2>a DEF Flows!PollPending, Flows!At, Credible, Holding, Storing
    <3>2. CASE pending = 0
      <4>1. Flows!End(p)
        BY <2>8, <3>2 DEF Flows!PollPending, Flows!Nothing
      <4> QED BY <3>1, <4>1, FlowEnds DEF Flows!settings, Flows!server, Flows!bounds, Flows!history
    <3>3. CASE pending # 0
      <4> DEFINE x == [flow[p] EXCEPT !.code = pending]
      <4>1. flow' = [flow EXCEPT ![p] = x]
        BY <2>8, <3>3 DEF Flows!PollPending, Flows!Nothing
      <4>2. /\ x \in Flows!Flow /\ x.at = "poll" /\ x.code = pending /\ x.tokens = 0 /\ x.prior = flow[p].prior
        BY <3>1 DEF Flows!Flow, Flows!Nothing
      <4> HIDE DEF x
      <4> QED BY <3>1, <3>3, <4>1, <4>2, FlowGoes
          DEF Holding, Storing, Flows!settings, Flows!server, Flows!bounds, Flows!history
    <3> QED BY <3>2, <3>3
  <2>9. ASSUME NEW p \in Procs, Flows!Cancel(p) PROVE FlowsInv'
    <3>1. /\ Flows!End(p) /\ dropped' = dropped \cup {flow[p].code} /\ flow[p].at = "store"
          /\ UNCHANGED <<Flows!settings, Flows!server, Flows!bounds, stowed, rebound>>
      BY <2>9 DEF Flows!Cancel, Flows!At
    <3>2. flow[p].code \in Codes
      BY <2>a, <3>1, FlowTypes DEF Credible, Holding
    <3> QED BY <3>1, <3>2, FlowEnds DEF Flows!settings, Flows!server, Flows!bounds
  <2>10. ASSUME NEW p \in Procs, Flows!ReadPrior(p) PROVE FlowsInv'
    <3> DEFINE x == [flow[p] EXCEPT !.prior = auth, !.at = "store"]
    <3>1. /\ flow' = [flow EXCEPT ![p] = x] /\ flow[p].at = "prior"
          /\ UNCHANGED <<Flows!settings, Flows!server, Flows!bounds, Flows!history>>
      BY <2>10 DEF Flows!ReadPrior, Flows!At
    <3>2. /\ x \in Flows!Flow /\ x.at = "store" /\ x.code = flow[p].code /\ x.tokens = flow[p].tokens
          /\ x.prior = auth
      BY <2>e DEF Flows!Flow, Flows!Labels, Flows!Nothing, Flows!Sessions
    <3> HIDE DEF x
    <3> QED BY <3>1, <3>2, FlowGoes DEF Holding, Storing, Flows!settings, Flows!server, Flows!bounds, Flows!history
  <2>11. ASSUME NEW p \in Procs, Flows!ClearApiKey(p) \/ Flows!ClearPendingDeviceAuth(p) PROVE FlowsInv'
    <3>1. \/ flow[p].at = "clearKey" /\ Flows!Goto(p, "clearPending") /\ apiKey' = FALSE /\ pending' = pending
          \/ flow[p].at = "clearPending" /\ Flows!Goto(p, "revoke") /\ pending' = 0 /\ apiKey' = apiKey
      BY <2>11 DEF Flows!ClearApiKey, Flows!ClearPendingDeviceAuth, Flows!At, Flows!Nothing
    <3>2. UNCHANGED <<auth, Flows!server, Flows!bounds, Flows!history>>
      BY <2>11 DEF Flows!ClearApiKey, Flows!ClearPendingDeviceAuth
    <3> QED BY <2>g, <3>1, <3>2 DEF Holding, Storing, Flows!Labels, Flows!server, Flows!bounds, Flows!history
  <2>12. ASSUME NEW p \in Procs, Flows!ApiKeyLogin(p) \/ Flows!Logout(p) PROVE FlowsInv'
    <3>1. /\ flow[p].at \notin Holding /\ flow[p].tokens = 0
          /\ \/ Flows!End(p)
             \/ \E at \in {"keyAuth", "keyPending", "keySet", "outAuth", "outKey", "outPending", "outReset"} :
                  Flows!Goto(p, at)
      BY <2>12, <2>a
      DEF Flows!ApiKeyLogin, Flows!Probe, Flows!KeyClearsAuth, Flows!KeyClearsPending, Flows!SetApiKey,
          Flows!Logout, Flows!LogoutRevokes, Flows!LogoutClearsAuth, Flows!LogoutClearsKey, Flows!LogoutClearsPending,
          Flows!LogoutResets, Flows!At, Credible, Holding, Storing
    <3>2. /\ UNCHANGED <<code, granted, rebound, stowed, dropped, begun, crashes>>
          /\ auth' \in {auth, 0} /\ pending' \in {pending, 0} /\ apiKey' \in BOOLEAN /\ live' \subseteq live
      BY <2>12
      DEF Flows!ApiKeyLogin, Flows!Probe, Flows!KeyClearsAuth, Flows!KeyClearsPending, Flows!SetApiKey,
          Flows!Logout, Flows!LogoutRevokes, Flows!LogoutClearsAuth, Flows!LogoutClearsKey, Flows!LogoutClearsPending,
          Flows!LogoutResets, Flows!Nothing, Flows!settings, Flows!server, Flows!bounds, Flows!history
    <3>3. CASE Flows!End(p)
      BY <3>1, <3>2, <3>3, FlowEnds
    <3>4. ASSUME NEW at \in {"keyAuth", "keyPending", "keySet", "outAuth", "outKey", "outPending", "outReset"},
                 Flows!Goto(p, at)
          PROVE  FlowsInv'
      BY <2>g, <3>1, <3>2, <3>4 DEF Holding, Flows!Labels
    <3> QED BY <3>1, <3>3, <3>4
  <2>13. ASSUME NEW p \in Procs, Flows!Crash(p) PROVE FlowsInv'
    <3>1. /\ Flows!End(p) /\ crashes' \in 0..MaxCrashes
          /\ dropped' = IF flow[p].tokens = 0 THEN dropped ELSE dropped \cup {flow[p].code}
          /\ UNCHANGED <<Flows!settings, Flows!server, begun, stowed, rebound>>
      BY <2>13 DEF Flows!Crash, Flows!Nothing
    <3>2. flow[p].tokens # 0 => flow[p].code \in Codes
      BY <2>a, FlowTypes DEF Credible, Holding, Storing
    <3> QED BY <3>1, <3>2, FlowEnds DEF Flows!settings, Flows!server
  \* What is left to show of a step of none of the commands.
  <2>j. ASSUME UNCHANGED <<flow, stowed, dropped, rebound, begun, crashes>>, apiKey' = apiKey,
               Flows!TypeOK', granted <= granted', auth' \in {auth, granted + 1}, auth' <= granted',
               pending' \in {pending, 0},
               \A c \in Codes : (code'[c] = "unused") = (code[c] = "unused"),
               \A c \in Codes : (code'[c] = "exchanged") = (code[c] = "exchanged")
        PROVE  FlowsInv'
    <3>1. auth <= granted /\ auth \notin rebound /\ \A s \in rebound : s <= granted
      BY DEF FlowsInv
    <3>0. granted' \in Nat
      BY <2>j DEF Flows!TypeOK
    <3>2. ASSUME NEW p \in Procs PROVE Credible(flow[p])'
      <4>1. flow[p].prior <= granted /\ flow[p].tokens <= granted
        BY <2>a DEF Credible
      <4>2. flow[p].prior <= granted' /\ flow[p].tokens <= granted'
        BY <2>j, <3>0, <4>1, FlowTypes
      <4>3. flow[p].prior # granted + 1 /\ flow[p].tokens # granted + 1
        BY <4>1, FlowTypes
      <4>4. flow[p].code # 0 => flow[p].code \in Codes
        BY FlowTypes
      <4>5. PICK n : n = granted + 1
        OBVIOUS
      <4>6. auth' \in {auth, n} /\ flow[p].prior # n /\ flow[p].tokens # n
        BY <2>j, <4>3, <4>5
      <4>7. /\ flow[p].at \in Holding \ Storing => flow[p].prior = 0 \/ flow[p].prior # auth'
            /\ flow[p].at \in Storing => flow[p].tokens \notin {auth', flow[p].prior} \cup rebound'
        BY <2>a, <2>j, <4>6 DEF Credible
      <4>a. flow[p].code # 0 => /\ (code'[flow[p].code] = "unused") = (code[flow[p].code] = "unused")
                                /\ (code'[flow[p].code] = "exchanged") = (code[flow[p].code] = "exchanged")
        BY <2>j, <4>4
      <4>b. flow[p].at \in Holding => flow[p].code # 0
        BY <2>a, FlowTypes DEF Credible
      <4>8. /\ flow[p].code # 0 => code'[flow[p].code] # "unused"
            /\ flow[p].at = "announce" => code'[flow[p].code] # "exchanged" /\ pending' # flow[p].code
            /\ flow[p].at = "revoke" => pending' # flow[p].code
        BY <2>a, <2>j, <4>a, <4>b DEF Credible, Holding
      <4> QED BY <2>a, <2>j, <4>2, <4>7, <4>8 DEF Credible
    <3>3. \A p, q \in Procs : p # q => Apart(flow[p], flow[q])'
      BY <2>j DEF FlowsInv, Apart
    <3>4. \A c : Flows!InHand(c)' <=> Flows!InHand(c)
      BY <2>j DEF Flows!InHand
    <3>5. Flows!LoginKept'
      <4>1. Flows!GrantKept'
        BY <2>j, <3>4 DEF FlowsInv, Flows!LoginKept, Flows!GrantKept
      <4>2. Flows!NoStalePending'
        <5>1. pending # 0 => pending \in Codes
          OBVIOUS
        <5> QED BY <2>j, <3>4, <5>1 DEF FlowsInv, Flows!LoginKept, Flows!NoStalePending, Flows!Nothing
      <4> QED BY <4>1, <4>2 DEF Flows!LoginKept
    <3>6. /\ (auth <= granted)' /\ (\A s \in rebound : s <= granted)' /\ (auth \notin rebound)'
      BY <2>j, <3>0, <3>1
    <3>7. (pending # 0 => code[pending] # "unused")'
      <4>1. pending # 0 => pending \in Codes
        OBVIOUS
      <4> QED BY <2>j, <4>1 DEF FlowsInv
    <3> QED BY <2>j, <3>2, <3>3, <3>5, <3>6, <3>7 DEF FlowsInv
  <2>14. ASSUME Flows!RefreshStored PROVE FlowsInv'
    <3>1. /\ granted < MaxSessions /\ auth' = granted + 1 /\ granted' = granted + 1
          /\ live' = (live \ {auth}) \cup {granted + 1}
          /\ UNCHANGED <<apiKey, pending, code, flow, Flows!bounds, Flows!history>>
      BY <2>14 DEF Flows!RefreshStored
    <3>2. Flows!TypeOK'
      BY <3>1 DEF FlowsInv, Flows!TypeOK, Flows!bounds, Flows!history, Flows!Sessions, Flows!Nothing
    <3> QED BY <2>j, <3>1, <3>2 DEF Flows!bounds, Flows!history
  <2>15. ASSUME Flows!PendingExpires PROVE FlowsInv'
    <3>1. Flows!TypeOK'
      BY <2>15 DEF FlowsInv, Flows!PendingExpires, Flows!TypeOK, Flows!server, Flows!bounds, Flows!history, Flows!Nothing
    <3> QED BY <2>15, <2>j, <3>1 DEF FlowsInv, Flows!PendingExpires, Flows!server, Flows!bounds, Flows!history, Flows!Nothing
  <2>16. ASSUME NEW c \in Codes, Flows!Answer(c) PROVE FlowsInv'
    <3>1. Flows!TypeOK'
      BY <2>16 DEF FlowsInv, Flows!Answer, Flows!TypeOK, Flows!settings, Flows!bounds, Flows!history
    <3> QED BY <2>16, <2>j, <3>1 DEF FlowsInv, Flows!Answer, Flows!settings, Flows!bounds, Flows!history
  <2>17. CASE UNCHANGED Flows!vars
    <3>1. Flows!TypeOK'
      BY <2>17 DEF FlowsInv, Flows!TypeOK, Flows!vars, Flows!settings, Flows!server, Flows!bounds, Flows!history
    <3> QED BY <2>17, <2>j, <3>1 DEF FlowsInv, Flows!vars, Flows!settings, Flows!server, Flows!bounds, Flows!history
  <2> QED BY <2>1, <2>2, <2>3, <2>4, <2>5, <2>6, <2>7, <2>8, <2>9, <2>10, <2>11, <2>12, <2>13, <2>14, <2>15, <2>16,
             <2>17 DEF Flows!Next, Flows!DeviceLogin
<1> QED BY <1>1, <1>2, PTL DEF Flows!Spec

-----------------------------------------------------------------------------
(* SessionReset.                                                            *)

\* The generation that the next process to look will read.
Generation == IF file = Resets!NoFile THEN Resets!NoMark ELSE data[file].mark

\* A login that is on its way to be saved.
Saving == {"unlock", "put", "commit"}

\* What only an MCP server does.
Serving == {"load", "serving", "check", "prepare", "use"}

\* A path names nothing only before the first process and after a reset that is
\* not over, no database has a generation that was not made yet, and the vault
\* has no tokens but those of the logins.
Kept ==
  /\ file <= Len(data)
  /\ file = Resets!NoFile => torn \/ Len(data) = 0
  /\ \A f \in 1..Len(data) : data[f].mark <= marks
  /\ resets <= marks
  /\ secrets \subseteq 1..Len(era)

\* A server that would pass the check has the database of the path, and has it
\* since the last reset that left its generation there; the database that a login
\* is saved in is the path's, unless a reset was under way or has begun since.
Faithful(p, c) ==
  /\ c.handle <= Len(data) /\ c.mark <= marks /\ c.since <= resets /\ c.checked <= resets
  /\ c.at \in {"new", "load", "wipe", "sidecar", "local"} => c.handle = Resets!NoFile
  /\ c.at \in Saving => c.handle # Resets!NoFile
  /\ c.at \in Serving => p \in Servers
  /\ p \in Servers /\ c.mark = Generation /\ ~torn /\ c.handle # Resets!NoFile =>
       c.handle = file /\ (astray \/ c.since = resets)
  /\ p \in Servers /\ c.at = "use" /\ c.told => c.checked = c.since
  /\ c.at \in Saving /\ c.alone /\ c.checked = resets => c.handle = file /\ ~Resets!UnderWay

ResetsInv ==
  /\ Resets!TypeOK
  /\ Kept
  /\ \A p \in Resets!Processes : Faithful(p, proc[p])

Record == [mark : Resets!Marks, session : {Resets!NoSession} \cup Resets!Sessions]

\* The elements of a sequence.
LEMMA Elements ==
  ASSUME NEW S, NEW s \in Seq(S)
  PROVE  \A n \in 1..Len(s) : s[n] \in S
OBVIOUS

\* What the type of the state says of each variable.
LEMMA ResetsTypes ==
  ASSUME ResetsInv
  PROVE  /\ shared \in BOOLEAN /\ ready \in BOOLEAN /\ torn \in BOOLEAN /\ astray \in BOOLEAN
         /\ file \in 0..MaxFiles
         /\ data \in Seq(Record) /\ Len(data) \in 0..MaxFiles
         /\ \A f \in 1..Len(data) : data[f] \in Record /\ data[f].mark \in 0..MaxMarks
         /\ secrets \subseteq 1..MaxSaved
         /\ proc \in [Resets!Processes -> Resets!Process]
         /\ \A p \in Resets!Processes : proc[p] \in Resets!Process
         /\ marks \in 0..MaxMarks /\ resets \in 0..MaxMarks
         /\ era \in Seq(0..MaxMarks) /\ Len(era) \in 0..MaxSaved
         /\ MaxFiles \in Nat \ {0} /\ MaxMarks \in Nat /\ MaxSaved \in Nat
         /\ Servers \cap Commands = {}
<1> USE ResetsAssumption DEF Resets!BoundsAssumption, Resets!NoFile, Resets!Files
<1>1. Resets!TypeOK
  BY DEF ResetsInv
<1>2. data \in Seq(Record) /\ Len(data) <= MaxFiles
  BY <1>1 DEF Resets!TypeOK, Record
<1>3. \A f \in 1..Len(data) : data[f] \in Record
  BY <1>2
<1>4. \A r \in Record : r.mark \in 0..MaxMarks
  BY DEF Record, Resets!Marks
<1>5. Len(data) \in 0..MaxFiles
  BY <1>2
<1>6. /\ secrets \subseteq 1..MaxSaved /\ marks \in 0..MaxMarks /\ resets \in 0..MaxMarks
      /\ era \in Seq(0..MaxMarks) /\ Len(era) <= MaxSaved
  BY <1>1 DEF Resets!TypeOK, Resets!Sessions, Resets!Marks
<1>7. Len(era) \in 0..MaxSaved
  BY <1>6
<1>8. file \in 0..MaxFiles
  BY <1>1 DEF Resets!TypeOK
<1> QED BY <1>1, <1>2, <1>3, <1>4, <1>5, <1>6, <1>7, <1>8 DEF Resets!TypeOK

\* The bounds, which are not of the state.
LEMMA ResetBounds ==
  /\ MaxFiles \in Nat \ {0} /\ MaxMarks \in Nat /\ MaxSaved \in Nat /\ 0 \in 0..MaxMarks
  /\ Servers \cap Commands = {}
BY ResetsAssumption DEF Resets!BoundsAssumption

\* What the type of a process says of each of its parts.
LEMMA ProcessTypes ==
  ASSUME NEW c \in Resets!Process
  PROVE  /\ c.at \in Resets!Labels /\ c.handle \in 0..MaxFiles /\ c.mark \in 0..MaxMarks
         /\ c.session \in 0..MaxSaved /\ c.since \in 0..MaxMarks /\ c.checked \in 0..MaxMarks
         /\ c.invalid \in BOOLEAN /\ c.unread \in BOOLEAN /\ c.told \in BOOLEAN /\ c.alone \in BOOLEAN
         /\ c.op \in {"none", "use", "login"}
BY ResetsAssumption
DEF Resets!Process, Resets!NoFile, Resets!Files, Resets!Marks, Resets!Sessions, Resets!NoSession, Resets!BoundsAssumption

\* To open the path changes no database there was and no generation that anybody reads.
LEMMA Opening ==
  ASSUME ResetsInv, Resets!CanOpen
  PROVE  /\ Resets!Ensured \in Seq(Record) /\ Len(Resets!Ensured) \in 1..MaxFiles
         /\ Len(data) <= Len(Resets!Ensured)
         /\ Resets!Path \in 1..Len(Resets!Ensured)
         /\ file = Resets!Path \/ (file = 0 /\ (torn \/ Len(data) = 0))
         /\ \A f \in 1..Len(data) : Resets!Ensured[f] = data[f]
         /\ Resets!Ensured[Resets!Path].mark = Generation
         /\ \A f \in 1..Len(Resets!Ensured) : Resets!Ensured[f] \in Record /\ Resets!Ensured[f].mark <= marks
<1> USE ResetsTypes DEF Resets!NoFile
<1>1. file <= Len(data) /\ (file = 0 => torn \/ Len(data) = 0) /\ \A f \in 1..Len(data) : data[f].mark <= marks
  BY DEF ResetsInv, Kept
<1>2. CASE file # 0
  BY <1>1, <1>2 DEF Resets!Ensured, Resets!Path, Generation
<1>3. CASE file = 0
  <2>1. Resets!Empty \in Record /\ Resets!Empty.mark = 0
    BY DEF Resets!Empty, Record, Resets!NoMark, Resets!NoSession, Resets!Marks
  <2>2. /\ Resets!Ensured = Append(data, Resets!Empty) /\ Resets!Path = Len(data) + 1
        /\ Len(data) + 1 <= MaxFiles
    BY <1>3 DEF Resets!Ensured, Resets!Path, Resets!CanOpen
  <2>3. /\ Append(data, Resets!Empty) \in Seq(Record) /\ Len(Append(data, Resets!Empty)) = Len(data) + 1
        /\ \A f \in 1..Len(data) : Append(data, Resets!Empty)[f] = data[f]
        /\ Append(data, Resets!Empty)[Len(data) + 1] = Resets!Empty
    BY <2>1
  <2>4. Generation = 0
    BY <1>3 DEF Generation, Resets!NoMark
  <2>5. \A f \in 1..(Len(data) + 1) : f \in 1..Len(data) \/ f = Len(data) + 1
    OBVIOUS
  <2> QED BY <1>1, <1>3, <2>1, <2>2, <2>3, <2>4, <2>5
<1> QED BY <1>2, <1>3

\* What a step of one process that begins no reset and goes on with none leaves true.
LEMMA PlainStep ==
  ASSUME ResetsInv, NEW p \in Resets!Processes, NEW x \in Resets!Process,
         proc' = [proc EXCEPT ![p] = x],
         UNCHANGED <<shared, marks, resets, torn, astray>>,
         data' \in Seq(Record), Len(data') <= MaxFiles, Len(data) <= Len(data'),
         \A f \in 1..Len(data') : data'[f].mark <= marks,
         file' \in 0..Len(data'), file' = 0 => Len(data') = Len(data), Generation' = Generation,
         file' = file \/ (file = 0 /\ (torn \/ Len(data) = 0)),
         ready' \in BOOLEAN, era' \in Seq(0..MaxMarks), Len(era') <= MaxSaved, secrets' \subseteq 1..Len(era'),
         x.at \in {"wipe", "sidecar", "local"} => proc[p].at \in {"wipe", "sidecar", "local"},
         Resets!UnderWay' => Resets!UnderWay,
         proc'[p] = x => Faithful(p, proc[p])'
  PROVE  ResetsInv'
<1> USE ResetsTypes
<1>1. /\ proc' \in [Resets!Processes -> Resets!Process] /\ proc'[p] = x
      /\ \A q \in Resets!Processes \ {p} : proc'[q] = proc[q]
  OBVIOUS
<1>2. Resets!TypeOK'
  <2>1. secrets' \subseteq 1..MaxSaved
    OBVIOUS
  <2>2. file' \in {0} \cup 1..MaxFiles
    OBVIOUS
  <2> QED BY <1>1, <2>1, <2>2
      DEF ResetsInv, Resets!TypeOK, Record, Resets!NoFile, Resets!Files, Resets!Marks, Resets!Sessions, Resets!NoSession
<1>3. Kept'
  <2>1. file' = 0 => torn \/ Len(data') = 0
    BY DEF ResetsInv, Kept, Resets!NoFile
  <2>2. resets <= marks
    BY DEF ResetsInv, Kept
  <2> QED BY <2>1, <2>2 DEF Kept, Resets!NoFile
<1>4. ASSUME NEW q \in Resets!Processes, q # p PROVE Faithful(q, proc[q])'
  <2>1. proc'[q] = proc[q] /\ proc[q] \in Resets!Process /\ Faithful(q, proc[q])
    BY <1>1, <1>4 DEF ResetsInv
  <2>2. proc[q].handle # 0 => torn \/ file' = file
    BY <2>1, ProcessTypes DEF Faithful
  <2>3. Resets!UnderWay \/ ~torn
    BY DEF Resets!UnderWay
  <2> HIDE DEF Resets!UnderWay
  <2>4. proc[q].handle <= Len(data')
    BY <2>1, ProcessTypes DEF Faithful
  <2> QED BY <2>1, <2>2, <2>3, <2>4 DEF Faithful, Resets!NoFile
<1> QED BY <1>1, <1>2, <1>3, <1>4 DEF ResetsInv

Marking == {"wipe", "sidecar", "local"}

\* A process that is not in a reset puts none under way.
LEMMA NoneBegins ==
  ASSUME ResetsInv, NEW p \in Resets!Processes, NEW x,
         proc' = [proc EXCEPT ![p] = x], x.at \notin Marking, torn' = torn
  PROVE  Resets!UnderWay' => Resets!UnderWay
<1>1. /\ proc'[p] = x /\ \A q \in Resets!Processes \ {p} : proc'[q] = proc[q]
  BY ResetsTypes
<1> QED BY <1>1 DEF Resets!UnderWay, Marking

\* A step that opens the path.
LEMMA OpeningStep ==
  ASSUME ResetsInv, Resets!CanOpen, NEW p \in Resets!Processes, NEW x \in Resets!Process,
         proc' = [proc EXCEPT ![p] = x],
         data' = Resets!Ensured, file' = Resets!Path,
         UNCHANGED <<shared, secrets, ready, marks, era, resets, torn, astray>>,
         x.handle \in {0, proc[p].handle, Resets!Path},
         x.mark <= marks, x.since <= resets, x.checked <= resets,
         x.at \in Serving => p \in Servers,
         x.at \notin Marking, x.at \in {"new", "load"} => x.handle = 0, x.at \in Saving => x.handle # 0,
         p \in Servers /\ x.mark = Generation /\ ~torn /\ x.handle # 0 =>
           x.handle = Resets!Path /\ (astray \/ x.since = resets),
         p \in Servers /\ x.at = "use" /\ x.told => x.checked = x.since,
         x.at \in Saving /\ x.alone /\ x.checked = resets => x.handle = Resets!Path /\ ~Resets!UnderWay
  PROVE  ResetsInv'
<1> USE ResetsTypes, Opening
<1>1. Generation' = Generation
  BY DEF Generation, Resets!NoFile
<1>2. Resets!UnderWay' => Resets!UnderWay
  BY NoneBegins
<1>3. x.handle <= Len(data')
  <2>1. proc[p].handle <= Len(data) /\ proc[p].handle \in 0..MaxFiles
    BY ProcessTypes DEF ResetsInv, Faithful
  <2> QED BY <2>1
<1> HIDE DEF Resets!UnderWay
<1>4. ASSUME proc'[p] = x PROVE Faithful(p, proc[p])'
  BY <1>1, <1>2, <1>3, <1>4 DEF Faithful, Marking, Resets!NoFile
<1>5. /\ data' \in Seq(Record) /\ Len(data') <= MaxFiles /\ Len(data) <= Len(data')
      /\ \A f \in 1..Len(data') : data'[f].mark <= marks
      /\ file' \in 0..Len(data') /\ file' # 0
      /\ file' = file \/ (file = 0 /\ (torn \/ Len(data) = 0))
  OBVIOUS
<1>6. secrets' \subseteq 1..Len(era')
  BY DEF ResetsInv, Kept
<1>7. file' = 0 => Len(data') = Len(data)
  BY <1>5
<1>8. ready' \in BOOLEAN /\ era' \in Seq(0..MaxMarks) /\ Len(era') <= MaxSaved
  OBVIOUS
<1>9. x.at \in {"wipe", "sidecar", "local"} => proc[p].at \in {"wipe", "sidecar", "local"}
  BY DEF Marking
<1>10. proc'[p] = x => Faithful(p, proc[p])'
  BY <1>4
<1> HIDE ResetsTypes, Opening
<1> QED BY <1>1, <1>2, <1>5, <1>6, <1>7, <1>8, <1>9, <1>10, PlainStep

\* A step that opens nothing and writes no generation.
LEMMA QuietStep ==
  ASSUME ResetsInv, NEW p \in Resets!Processes, NEW x \in Resets!Process,
         proc' = [proc EXCEPT ![p] = x],
         UNCHANGED <<shared, file, marks, resets, torn, astray>>,
         data' = data \/ (/\ data' \in Seq(Record) /\ Len(data') = Len(data)
                          /\ \A f \in 1..Len(data) : data'[f].mark = data[f].mark),
         ready' \in BOOLEAN, era' \in Seq(0..MaxMarks), Len(era') <= MaxSaved, secrets' \subseteq 1..Len(era'),
         x.handle \in {0, proc[p].handle}, x.mark \in {0, proc[p].mark},
         x.since <= resets, x.checked <= resets,
         x.handle # 0 => x.mark = proc[p].mark /\ x.since = proc[p].since,
         x.at \in Serving => p \in Servers, x.at \in Marking => proc[p].at \in Marking,
         x.at \in Marking \cup {"new", "load"} => x.handle = 0, x.at \in Saving => x.handle # 0,
         x.at # "use",
         x.at \in Saving => proc[p].at \in Saving /\ x.alone = proc[p].alone /\ x.checked = proc[p].checked
  PROVE  ResetsInv'
<1> USE ResetsTypes
<1>0. /\ proc'[p] = x /\ \A q \in Resets!Processes \ {p} : proc'[q] = proc[q]
      /\ proc[p] \in Resets!Process /\ Faithful(p, proc[p])
  BY DEF ResetsInv
<1>1. Generation' = Generation
  <2>1. file # 0 => file \in 1..Len(data)
    BY DEF ResetsInv, Kept
  <2> QED BY <2>1 DEF Generation, Resets!NoFile
<1>2. Resets!UnderWay' => Resets!UnderWay
  BY <1>0 DEF Resets!UnderWay, Marking
<1> HIDE DEF Resets!UnderWay
<1>3. /\ data' \in Seq(Record) /\ Len(data') = Len(data)
      /\ \A f \in 1..Len(data) : data'[f].mark = data[f].mark
  OBVIOUS
<1>4. ASSUME proc'[p] = x PROVE Faithful(p, proc[p])'
  <2>0. /\ proc[p].handle <= Len(data) /\ proc[p].mark <= marks /\ 0 <= Len(data) /\ 0 <= marks
    BY <1>0, ProcessTypes DEF Faithful
  <2>1. x.handle <= Len(data') /\ x.mark <= marks
    BY <1>3, <2>0
  <2>2. p \in Servers /\ x.mark = Generation /\ ~torn /\ x.handle # 0 =>
          x.handle = file /\ (astray \/ x.since = resets)
    BY <1>0, ProcessTypes DEF Faithful, Resets!NoFile
  <2>3. x.at \in Saving /\ x.alone /\ x.checked = resets => x.handle = file /\ ~Resets!UnderWay
    BY <1>0 DEF Faithful, Resets!NoFile
  <2> QED BY <1>1, <1>2, <1>4, <2>1, <2>2, <2>3 DEF Faithful, Resets!NoFile, Marking
<1>5. /\ \A f \in 1..Len(data') : data'[f].mark <= marks
      /\ file' \in 0..Len(data')
  <2>1. file <= Len(data) /\ \A f \in 1..Len(data) : data[f].mark <= marks
    BY DEF ResetsInv, Kept
  <2>2. \A f \in 1..Len(data') : data'[f].mark <= marks
    BY <1>3, <2>1
  <2>3. file' \in 0..Len(data')
    BY <1>3, <2>1, ResetsTypes
  <2> QED BY <2>2, <2>3
<1>6. data' \in Seq(Record) /\ Len(data') <= MaxFiles /\ Len(data) <= Len(data') /\ Len(data') = Len(data)
  BY <1>3
<1>9. x.at \in {"wipe", "sidecar", "local"} => proc[p].at \in {"wipe", "sidecar", "local"}
  BY DEF Marking
<1>10. proc'[p] = x => Faithful(p, proc[p])'
  BY <1>4
<1> HIDE ResetsTypes
<1> QED BY <1>1, <1>2, <1>5, <1>6, <1>9, <1>10, PlainStep

\* Where a process can be.
LEMMA LabelSet ==
  /\ "new" \in Resets!Labels /\ "load" \in Resets!Labels /\ "serving" \in Resets!Labels /\ "check" \in Resets!Labels
  /\ "prepare" \in Resets!Labels /\ "use" \in Resets!Labels /\ "unlock" \in Resets!Labels /\ "put" \in Resets!Labels
  /\ "commit" \in Resets!Labels /\ "invalidate" \in Resets!Labels /\ "wipe" \in Resets!Labels
  /\ "sidecar" \in Resets!Labels /\ "local" \in Resets!Labels /\ "over" \in Resets!Labels
BY DEF Resets!Labels

\* What is left of a process whose command has ended.
LEMMA EndedProcess ==
  ASSUME ResetsInv, NEW p \in Resets!Processes
  PROVE  /\ Resets!Ended(p) \in Resets!Process /\ Resets!Over \in Resets!Process
         /\ Resets!Ended(p).at = "over" \/ (Resets!Ended(p).at = "serving" /\ p \in Servers)
         /\ Resets!Over.at = "over"
         /\ Resets!Ended(p).handle \in {0, proc[p].handle} /\ Resets!Over.handle = 0
         /\ Resets!Ended(p).mark \in {0, proc[p].mark} /\ Resets!Over.mark = 0
         /\ Resets!Ended(p).since \in {0, proc[p].since} /\ Resets!Over.since = 0
         /\ Resets!Ended(p).checked = 0 /\ Resets!Over.checked = 0
         /\ Resets!Ended(p).handle # 0 => /\ Resets!Ended(p).mark = proc[p].mark
                                          /\ Resets!Ended(p).since = proc[p].since
<1> DEFINE e == [proc[p] EXCEPT !.at = "serving", !.op = "none", !.session = Resets!NoSession, !.checked = 0,
                               !.told = FALSE, !.alone = FALSE]
<1>1. /\ Resets!Over \in Resets!Process /\ Resets!Over.at = "over" /\ Resets!Over.handle = 0
      /\ Resets!Over.mark = 0 /\ Resets!Over.since = 0 /\ Resets!Over.checked = 0
  BY ResetBounds, LabelSet DEF Resets!Over, Resets!NewProcess, Resets!Process, Resets!NoFile, Resets!NoMark, Resets!NoSession,
         Resets!Marks
<1>2. /\ e \in Resets!Process /\ e.at = "serving" /\ e.handle = proc[p].handle /\ e.mark = proc[p].mark
      /\ e.since = proc[p].since /\ e.checked = 0
  <2>1. proc[p] \in Resets!Process
    BY ResetsTypes
  <2> QED BY ResetBounds, LabelSet, <2>1 DEF Resets!Process, Resets!NoSession
<1>3. Resets!Ended(p) = Resets!Over \/ (Resets!Ended(p) = e /\ p \in Servers)
  BY DEF Resets!Ended
<1> HIDE DEF e
<1> QED BY <1>1, <1>2, <1>3

\* The look at the generation that comes before a command of a server.
LEMMA AssertStep ==
  ASSUME ResetsInv, NEW p \in Servers, NEW next \in {"prepare", "use", "put"}, Resets!Assert(p, next)
  PROVE  ResetsInv'
<1> USE DEF Resets!NoFile
<1>0. p \in Resets!Processes /\ proc[p] \in Resets!Process /\ Faithful(p, proc[p])
  BY ResetsTypes DEF ResetsInv, Resets!Processes
<1>a. /\ resets \in 0..MaxMarks /\ marks \in 0..MaxMarks
      /\ proc[p].handle <= Len(data) /\ proc[p].mark <= marks /\ proc[p].since <= resets
  BY <1>0, ResetsTypes DEF Faithful
<1>1. /\ Resets!CanOpen /\ data' = Resets!Ensured /\ file' = Resets!Path
      /\ UNCHANGED <<shared, secrets, ready, marks, era, resets, torn, astray>>
      /\ proc' = [proc EXCEPT ![p] =
             IF (proc[p].invalid \/ Resets!ResetGeneration(p) # proc[p].mark) \/ proc[p].unread
             THEN [Resets!Ended(p) EXCEPT !.invalid = proc[p].invalid \/ Resets!ResetGeneration(p) # proc[p].mark]
             ELSE Resets!Looked([Resets!Opened(proc[p]) EXCEPT !.at = next])]
  BY DEF Resets!Assert, Resets!Set
<1>2. Resets!ResetGeneration(p) = Generation /\ Resets!Path \in 1..MaxFiles
  BY ResetsTypes, <1>1, Opening DEF Resets!ResetGeneration
<1>3. CASE (proc[p].invalid \/ Resets!ResetGeneration(p) # proc[p].mark) \/ proc[p].unread
  <2> DEFINE x == [Resets!Ended(p) EXCEPT !.invalid = proc[p].invalid \/ Resets!ResetGeneration(p) # proc[p].mark]
  <2>1. proc' = [proc EXCEPT ![p] = x]
    BY <1>1, <1>3
  <2>2. (proc[p].invalid \/ Resets!ResetGeneration(p) # proc[p].mark) \in BOOLEAN
    OBVIOUS
  <2>3. /\ x \in Resets!Process /\ x.at = Resets!Ended(p).at /\ x.handle = Resets!Ended(p).handle
        /\ x.mark = Resets!Ended(p).mark /\ x.since = Resets!Ended(p).since /\ x.checked = 0
    BY ResetBounds, LabelSet, <1>0, <2>2, EndedProcess DEF Resets!Process
  <2> HIDE DEF x
  <2>4. x.mark = Generation /\ ~torn /\ x.handle # 0 => x.handle = Resets!Path /\ (astray \/ x.since = resets)
    <3>1. x.handle # 0 => x.handle = proc[p].handle /\ x.mark = proc[p].mark /\ x.since = proc[p].since
      BY <1>0, <2>3, EndedProcess
    <3>2. x.handle # 0 /\ ~torn => file = Resets!Path
      BY <1>0, <1>1, <3>1, Opening, ProcessTypes DEF Faithful
    <3> QED BY <1>0, <3>1, <3>2 DEF Faithful
  <2>5. x.mark <= marks /\ x.since <= resets /\ x.handle \in {0, proc[p].handle}
    BY <1>0, <1>a, <2>3, EndedProcess
  <2>6. x.at \in {"over", "serving"}
    BY <1>0, <2>3, EndedProcess
  <2>7. x.at \notin Marking \cup Saving \cup {"new", "load", "use"} /\ x.checked <= resets
    BY <1>a, <2>3, <2>6 DEF Marking, Saving
  <2> QED BY <1>0, <1>1, <2>1, <2>3, <2>4, <2>5, <2>7, OpeningStep
<1>4. CASE ~((proc[p].invalid \/ Resets!ResetGeneration(p) # proc[p].mark) \/ proc[p].unread)
  <2>1. PICK h, n : /\ h = IF proc[p].handle = 0 THEN Resets!Path ELSE proc[p].handle
                    /\ n = IF proc[p].handle = 0 THEN resets ELSE proc[p].since
    OBVIOUS
  <2>2. h \in 1..MaxFiles /\ n \in 0..MaxMarks /\ n <= resets
    BY ResetsTypes, <1>0, <1>2, <2>1, ProcessTypes DEF Faithful
  <2>3. /\ Resets!Opened(proc[p]) \in Resets!Process /\ Resets!Opened(proc[p]).handle = h
        /\ Resets!Opened(proc[p]).since = n /\ Resets!Opened(proc[p]).mark = proc[p].mark
    BY ResetBounds, <1>0, <1>a, <1>2, <2>1 DEF Resets!Opened, Resets!Process, Resets!Files
  <2> DEFINE x == [[Resets!Opened(proc[p]) EXCEPT !.at = next] EXCEPT
                    !.checked = resets, !.told = ~torn /\ ~astray, !.alone = ~Resets!UnderWay]
  <2>4. proc' = [proc EXCEPT ![p] = x]
    BY <1>1, <1>4 DEF Resets!Looked
  <2>5. (~torn /\ ~astray) \in BOOLEAN /\ (~Resets!UnderWay) \in BOOLEAN
    OBVIOUS
  <2>6. /\ x \in Resets!Process /\ x.at = next /\ x.handle = h /\ x.mark = proc[p].mark /\ x.since = n
        /\ x.checked = resets /\ (x.told => ~torn /\ ~astray) /\ (x.alone => ~Resets!UnderWay)
    BY ResetBounds, LabelSet, <1>a, <2>3, <2>5 DEF Resets!Process
  <2> HIDE DEF x
  <2>7. ~torn => h = Resets!Path /\ (astray \/ n = resets)
    <3>1. CASE proc[p].handle = 0
      BY <2>1, <3>1
    <3>2. CASE proc[p].handle # 0
      <4>1. ~torn => proc[p].handle = file /\ (astray \/ proc[p].since = resets)
        BY <1>0, <1>2, <1>4, <3>2 DEF Faithful
      <4>2. ~torn => file = Resets!Path
        BY <1>1, <3>2, <4>1, Opening
      <4> QED BY <2>1, <3>2, <4>1, <4>2
    <3> QED BY <3>1, <3>2
  <2>8. ~Resets!UnderWay => ~torn
    BY DEF Resets!UnderWay
  <2>9. x.mark <= marks /\ x.handle \in {proc[p].handle, Resets!Path} /\ x.handle # 0 /\ x.checked <= resets
    BY <1>a, <2>1, <2>2, <2>6
  <2>10. x.at \notin Marking \cup {"new", "load"}
    BY <2>6 DEF Marking
  <2>11. p \in Servers /\ x.at = "use" /\ x.told => x.checked = x.since
    BY <2>6, <2>7
  <2>12. ~torn => x.handle = Resets!Path /\ (astray \/ x.since = resets)
    BY <2>6, <2>7
  <2>13. x.at \in Saving /\ x.alone /\ x.checked = resets => x.handle = Resets!Path /\ ~Resets!UnderWay
    BY <2>6, <2>8, <2>12
  <2> QED BY <1>0, <1>1, <2>2, <2>4, <2>6, <2>9, <2>10, <2>11, <2>12, <2>13, OpeningStep
<1> QED BY <1>3, <1>4

\* Every step of an MCP server, a login or a reset keeps ResetsInv, killed wherever
\* it may be (cli.tsx, storage.ts, vault-files.ts).
THEOREM ResetsInvariance == Resets!Spec => []ResetsInv
<1>1. Resets!Init => ResetsInv
  <2> SUFFICES ASSUME Resets!Init PROVE ResetsInv
    OBVIOUS
  <2>1. Resets!NewProcess \in Resets!Process
    BY ResetBounds, LabelSet, ResetsAssumption DEF Resets!NewProcess, Resets!Process, Resets!NoFile, Resets!NoMark,
       Resets!NoSession, Resets!Marks, Resets!BoundsAssumption
  <2>2. Resets!TypeOK
    <3>1. [p \in Resets!Processes |-> Resets!NewProcess] \in [Resets!Processes -> Resets!Process]
      BY <2>1
    <3>2. Len(<<>>) = 0 /\ Len(<<>>) <= MaxFiles /\ Len(<<>>) <= MaxSaved
      BY ResetBounds
    <3>3. <<>> \in Seq([mark : Resets!Marks, session : {Resets!NoSession} \cup Resets!Sessions])
      OBVIOUS
    <3>4. <<>> \in Seq(0..MaxMarks)
      OBVIOUS
    <3>5. 0 \in Resets!Marks
      BY ResetBounds DEF Resets!Marks
    <3> QED BY <3>1, <3>2, <3>3, <3>4, <3>5, ResetBounds
    DEF Resets!Init, Resets!TypeOK, Resets!NoFile, Resets!Marks, Resets!BoundsAssumption
  <2>3. Kept
    BY DEF Resets!Init, Kept, Resets!NoFile
  <2>4. ASSUME NEW p \in Resets!Processes PROVE Faithful(p, proc[p])
    BY ResetBounds, LabelSet DEF Resets!Init, Faithful, Resets!NewProcess, Resets!NoFile, Resets!NoMark, Saving, Serving
  <2> QED BY <2>2, <2>3, <2>4 DEF ResetsInv
<1>2. ResetsInv /\ [Resets!Next]_(Resets!vars) => ResetsInv'
  <2> SUFFICES ASSUME ResetsInv, [Resets!Next]_(Resets!vars) PROVE ResetsInv'
    OBVIOUS
  <2> USE DEF Resets!NoFile
  <2>a. \A p \in Resets!Processes : /\ proc[p] \in Resets!Process /\ Faithful(p, proc[p])
                                    /\ proc[p].since <= resets /\ proc[p].checked <= resets /\ proc[p].mark <= marks
    BY ResetsTypes DEF ResetsInv, Faithful
  <2>b. secrets \subseteq 1..Len(era) /\ resets <= marks
    BY DEF ResetsInv, Kept
  <2>c. ready \in BOOLEAN /\ era \in Seq(0..MaxMarks) /\ Len(era) <= MaxSaved
    BY ResetsTypes
  <2>d. resets \in 0..MaxMarks /\ marks \in 0..MaxMarks
    BY ResetsTypes
  <2>1. ASSUME NEW p \in Resets!Processes, Resets!Capture(p) PROVE ResetsInv'
    <3> DEFINE x == [proc[p] EXCEPT !.at = "load", !.mark = Resets!ResetGeneration(p)]
    <3>1. /\ Resets!CanOpen /\ proc' = [proc EXCEPT ![p] = x] /\ data' = Resets!Ensured /\ file' = Resets!Path
          /\ UNCHANGED <<shared, secrets, ready, marks, era, resets, torn, astray>> /\ proc[p].at = "new" /\ p \in Servers
      BY <2>1 DEF Resets!Capture, Resets!Set
    <3>2. Generation \in Resets!Marks /\ Generation <= marks /\ Resets!ResetGeneration(p) = Generation
      BY <3>1, Opening DEF Resets!ResetGeneration, Record
    <3>3. proc[p].handle = 0
      BY <2>a, <3>1 DEF Faithful
    <3>4. /\ x \in Resets!Process /\ x.at = "load" /\ x.mark = Generation /\ x.handle = 0
          /\ x.since = proc[p].since /\ x.checked = proc[p].checked
      BY ResetBounds, LabelSet, <2>a, <3>2, <3>3 DEF Resets!Process
    <3> HIDE DEF x
    <3> QED BY <2>a, <3>1, <3>2, <3>4, OpeningStep DEF Marking, Saving, Serving
  <2>2. ASSUME NEW p \in Resets!Processes, Resets!Load(p) PROVE ResetsInv'
    <3>1. PICK unread \in BOOLEAN :
            /\ Resets!CanOpen /\ proc' = [proc EXCEPT ![p] = [Resets!Opened(proc[p]) EXCEPT !.at = "serving", !.unread = unread]]
            /\ data' = Resets!Ensured /\ file' = Resets!Path
            /\ UNCHANGED <<shared, secrets, ready, marks, era, resets, torn, astray>> /\ proc[p].at = "load"
      BY <2>2 DEF Resets!Load, Resets!Set
    <3> DEFINE x == [[proc[p] EXCEPT !.handle = Resets!Path, !.since = resets] EXCEPT !.at = "serving", !.unread = unread]
    <3>2. proc[p].handle = 0 /\ p \in Servers
      BY <2>a, <3>1 DEF Faithful, Serving
    <3>3. proc' = [proc EXCEPT ![p] = x]
      BY <3>1, <3>2 DEF Resets!Opened
    <3>4. Resets!Path \in 1..MaxFiles
      BY ResetsTypes, <3>1, Opening
    <3>5. /\ x \in Resets!Process /\ x.at = "serving" /\ x.mark = proc[p].mark /\ x.handle = Resets!Path
          /\ x.since = resets /\ x.checked = proc[p].checked
      BY ResetBounds, LabelSet, <2>a, <2>d, <3>4 DEF Resets!Process, Resets!Files
    <3> HIDE DEF x
    <3>6. /\ x.mark <= marks /\ x.since <= resets /\ x.checked <= resets /\ x.handle # 0
          /\ x.at \notin Marking \cup Saving \cup {"new", "load", "use"}
      BY <2>a, <2>d, <3>4, <3>5 DEF Marking, Saving
    <3> QED BY <3>1, <3>2, <3>3, <3>5, <3>6, OpeningStep
  <2>3. ASSUME NEW p \in Resets!Processes, Resets!Call(p) PROVE ResetsInv'
    <3>1. PICK at \in {"check", "invalidate"}, op \in {"use", "login", proc[p].op} :
            /\ proc' = [proc EXCEPT ![p] = [proc[p] EXCEPT !.at = at, !.op = op]] /\ proc[p].at = "serving"
            /\ UNCHANGED <<shared, file, data, secrets, ready, marks, era, resets, torn, astray>>
      <4>1. [proc[p] EXCEPT !.at = "invalidate"] = [proc[p] EXCEPT !.at = "invalidate", !.op = proc[p].op]
        BY ResetBounds, LabelSet, <2>a DEF Resets!Process
      <4> QED BY <2>3, <4>1 DEF Resets!Call, Resets!Set
    <3> DEFINE x == [proc[p] EXCEPT !.at = at, !.op = op]
    <3>2. /\ x \in Resets!Process /\ x.at = at /\ x.handle = proc[p].handle /\ x.mark = proc[p].mark
          /\ x.since = proc[p].since /\ x.checked = proc[p].checked
      BY ResetBounds, LabelSet, <2>a, ProcessTypes DEF Resets!Process
    <3>3. proc' = [proc EXCEPT ![p] = x] /\ p \in Servers
      BY <2>a, <3>1 DEF Faithful, Serving
    <3> HIDE DEF x
    <3> QED BY <2>c, <2>a, <2>b, <3>1, <3>2, <3>3, QuietStep DEF Marking, Saving
  <2>4. ASSUME NEW p \in Resets!Processes, Resets!Check(p) PROVE ResetsInv'
    <3>1. p \in Servers
      BY <2>a, <2>4 DEF Resets!Check, Faithful, Serving
    <3> QED BY <2>4, <3>1, AssertStep DEF Resets!Check
  <2>5. ASSUME NEW p \in Resets!Processes, Resets!Prepare(p) PROVE ResetsInv'
    <3>1. p \in Servers
      BY <2>a, <2>5 DEF Resets!Prepare, Faithful, Serving
    <3>2. PICK next \in {"use", "put"} : Resets!Assert(p, next)
      BY <2>5 DEF Resets!Prepare
    <3> QED BY <3>1, <3>2, AssertStep
  <2>6. ASSUME NEW p \in Resets!Processes,
               Resets!PrepareFails(p) \/ Resets!Use(p) \/ Resets!PutFails(p) \/ Resets!WipeFails(p)
        PROVE  ResetsInv'
    <3>1. /\ proc' = [proc EXCEPT ![p] = Resets!Ended(p)]
          /\ UNCHANGED <<shared, file, data, secrets, ready, marks, era, resets, torn, astray>>
      BY <2>6 DEF Resets!PrepareFails, Resets!Use, Resets!PutFails, Resets!WipeFails, Resets!Set
    <3>2. Resets!Ended(p).since <= resets /\ Resets!Ended(p).checked <= resets
      BY ResetsTypes, <2>a, EndedProcess
    <3> QED BY <2>c, <2>a, <2>b, <3>1, <3>2, EndedProcess, QuietStep DEF Marking, Saving, Serving
  <2>7. ASSUME NEW p \in Resets!Processes, Resets!BeginLogin(p) PROVE ResetsInv'
    <3> DEFINE x == [[[proc[p] EXCEPT !.handle = Resets!Path, !.since = resets] EXCEPT !.at = "unlock"] EXCEPT
                      !.checked = resets, !.told = ~torn /\ ~astray, !.alone = ~Resets!UnderWay]
    <3>1. /\ Resets!CanOpen /\ data' = Resets!Ensured /\ file' = Resets!Path
          /\ UNCHANGED <<shared, secrets, ready, marks, era, resets, torn, astray>>
          /\ proc[p].at = "new" /\ p \in Commands
          /\ proc' = [proc EXCEPT ![p] = Resets!Looked([Resets!Opened(proc[p]) EXCEPT !.at = "unlock"])]
      BY <2>7 DEF Resets!BeginLogin, Resets!Set
    <3>2. proc[p].handle = 0
      BY <2>a, <3>1 DEF Faithful
    <3>3. proc' = [proc EXCEPT ![p] = x]
      BY <3>1, <3>2 DEF Resets!Opened, Resets!Looked
    <3>4. Resets!Path \in 1..MaxFiles
      BY ResetsTypes, <3>1, Opening
    <3>5. (~torn /\ ~astray) \in BOOLEAN /\ (~Resets!UnderWay) \in BOOLEAN
      OBVIOUS
    <3>6. /\ x \in Resets!Process /\ x.at = "unlock" /\ x.mark = proc[p].mark /\ x.handle = Resets!Path
          /\ x.since = resets /\ x.checked = resets /\ (x.alone => ~Resets!UnderWay)
      BY ResetBounds, LabelSet, <2>a, <2>d, <3>4, <3>5 DEF Resets!Process, Resets!Files
    <3>7. p \notin Servers
      BY ResetsTypes, <3>1
    <3> HIDE DEF x
    <3>8. /\ x.mark <= marks /\ x.since <= resets /\ x.checked <= resets /\ x.handle # 0
          /\ x.at \notin Marking \cup Serving \cup {"new", "load", "use"}
      BY <2>a, <2>d, <3>4, <3>6 DEF Marking, Serving
    <3> QED BY <3>1, <3>3, <3>6, <3>7, <3>8, OpeningStep
  <2>8. ASSUME NEW p \in Resets!Processes, Resets!Unlock(p) \/ Resets!Put(p) PROVE ResetsInv'
    <3>1. PICK at \in {"put", "commit"}, session_ \in 0..MaxSaved :
            /\ proc' = [proc EXCEPT ![p] = [proc[p] EXCEPT !.at = at, !.session = session_]]
            /\ proc[p].at \in {"unlock", "put"}
            /\ UNCHANGED <<shared, file, data, marks, resets, torn, astray>>
            /\ \/ ready' = TRUE /\ era' = era /\ secrets' = secrets
               \/ /\ ready' = ready /\ era' = Append(era, resets) /\ Len(era) + 1 <= MaxSaved
                  /\ secrets' = secrets \cup {Len(era) + 1}
      <4>1. CASE Resets!Unlock(p)
        <5>1. [proc[p] EXCEPT !.at = "put"] = [proc[p] EXCEPT !.at = "put", !.session = proc[p].session]
          BY ResetBounds, LabelSet, <2>a DEF Resets!Process
        <5> QED BY <2>a, <4>1, <5>1, ProcessTypes DEF Resets!Unlock, Resets!Set
      <4>2. CASE Resets!Put(p)
        <5>1. /\ proc[p].at = "put" /\ Len(era) < MaxSaved /\ secrets' = secrets \cup {Len(era) + 1}
              /\ era' = Append(era, resets)
              /\ proc' = [proc EXCEPT ![p] = [proc[p] EXCEPT !.at = "commit", !.session = Len(era) + 1]]
              /\ UNCHANGED <<shared, file, data, ready, marks, resets, torn, astray>>
          BY <4>2 DEF Resets!Put, Resets!Set
        <5>2. Len(era) + 1 \in 0..MaxSaved /\ Len(era) + 1 <= MaxSaved
          BY <5>1, ResetsTypes
        <5> QED BY <5>1, <5>2
      <4> QED BY <2>8, <4>1, <4>2
    <3> DEFINE x == [proc[p] EXCEPT !.at = at, !.session = session_]
    <3>2. /\ x \in Resets!Process /\ x.at = at /\ x.handle = proc[p].handle /\ x.mark = proc[p].mark
          /\ x.since = proc[p].since /\ x.checked = proc[p].checked /\ x.alone = proc[p].alone
      <4>1. proc[p] \in Resets!Process /\ session_ \in {0} \cup 1..MaxSaved /\ at \in Resets!Labels
        BY <2>a, LabelSet, ResetBounds
      <4> QED BY <4>1 DEF Resets!Process, Resets!NoSession, Resets!Sessions
    <3>3. proc' = [proc EXCEPT ![p] = x]
      BY <3>1
    <3>4. x.handle # 0
      BY <2>a, <3>1, <3>2 DEF Faithful, Saving
    <3>5. /\ ready' \in BOOLEAN /\ era' \in Seq(0..MaxMarks) /\ Len(era') <= MaxSaved
          /\ secrets' \subseteq 1..Len(era')
      <4>1. CASE era' = era /\ secrets' = secrets
        BY <2>b, <2>c, <3>1, <4>1
      <4>2. CASE era' = Append(era, resets) /\ Len(era) + 1 <= MaxSaved /\ secrets' = secrets \cup {Len(era) + 1}
        <5>1. era' \in Seq(0..MaxMarks) /\ Len(era') = Len(era) + 1
          BY ResetsTypes, <4>2
        <5> QED BY ResetsTypes, <2>b, <3>1, <4>2, <5>1
      <4> QED BY <3>1, <4>1, <4>2
    <3> HIDE DEF x
    <3> QED BY <2>c, <2>a, <3>1, <3>2, <3>3, <3>4, <3>5, QuietStep DEF Marking, Saving, Serving
  <2>9. ASSUME NEW p \in Resets!Processes, Resets!BeginReset(p) PROVE ResetsInv'
    <3> DEFINE x == [proc[p] EXCEPT !.at = "invalidate"]
    <3>1. /\ proc' = [proc EXCEPT ![p] = x] /\ proc[p].at = "new"
          /\ UNCHANGED <<shared, file, data, secrets, ready, marks, era, resets, torn, astray>>
      BY <2>9 DEF Resets!BeginReset, Resets!Set
    <3>2. /\ x \in Resets!Process /\ x.at = "invalidate" /\ x.handle = proc[p].handle /\ x.mark = proc[p].mark
          /\ x.since = proc[p].since /\ x.checked = proc[p].checked
      BY ResetBounds, LabelSet, <2>a DEF Resets!Process
    <3> HIDE DEF x
    <3> QED BY <2>c, <2>a, <2>b, <3>1, <3>2, QuietStep DEF Marking, Saving, Serving
  <2>10. ASSUME NEW p \in Resets!Processes, Resets!Sidecar(p) PROVE ResetsInv'
    <3> DEFINE x == [proc[p] EXCEPT !.at = "local"]
    <3>1. /\ proc' = [proc EXCEPT ![p] = x] /\ proc[p].at = "sidecar" /\ ready' = FALSE /\ secrets' = {}
          /\ UNCHANGED <<shared, file, data, marks, era, resets, torn, astray>>
      BY <2>10 DEF Resets!Sidecar, Resets!Set
    <3>2. /\ x \in Resets!Process /\ x.at = "local" /\ x.handle = proc[p].handle /\ x.mark = proc[p].mark
          /\ x.since = proc[p].since /\ x.checked = proc[p].checked /\ proc[p].handle = 0
      BY ResetBounds, LabelSet, <2>a, <3>1 DEF Resets!Process, Faithful
    <3> HIDE DEF x
    <3> QED BY <2>c, <2>a, <3>1, <3>2, QuietStep DEF Marking, Saving, Serving
  <2>11. ASSUME NEW p \in Resets!Processes, Resets!Crash(p) PROVE ResetsInv'
    <3>1. /\ proc' = [proc EXCEPT ![p] = Resets!Over]
          /\ UNCHANGED <<shared, file, data, secrets, ready, marks, era, resets, torn, astray>>
      BY <2>11 DEF Resets!Crash, Resets!Set
    <3>2. /\ Resets!Over \in Resets!Process /\ Resets!Over.handle = 0 /\ Resets!Over.mark = 0
          /\ Resets!Over.since <= resets /\ Resets!Over.checked <= resets
          /\ Resets!Over.at \notin Marking \cup Saving \cup Serving \cup {"new", "load", "use"}
      BY <2>d, EndedProcess DEF Marking, Saving, Serving
    <3> QED BY <2>b, <2>c, <3>1, <3>2, QuietStep
  <2>12. ASSUME NEW p \in Resets!Processes, Resets!Commit(p) PROVE ResetsInv'
    <3> DEFINE h == proc[p].handle
    <3>1. /\ proc[p].at = "commit" /\ data' = [data EXCEPT ![h].session = proc[p].session]
          /\ secrets' = secrets \ {data[h].session}
          /\ proc' = [proc EXCEPT ![p] = Resets!Ended(p)]
          /\ UNCHANGED <<shared, file, ready, marks, era, resets, torn, astray>>
      BY <2>12 DEF Resets!Commit, Resets!Set
    <3>2. h \in 1..Len(data) /\ data[h] \in Record
      BY ResetsTypes, <2>a, <3>1, ProcessTypes DEF Faithful, Saving
    <3>3. [data[h] EXCEPT !.session = proc[p].session] \in Record
      <4>1. proc[p].session \in {0} \cup 1..MaxSaved
        BY <2>a, ProcessTypes, ResetBounds
      <4> QED BY <3>2, <4>1 DEF Record, Resets!Sessions, Resets!NoSession
    <3>4. /\ data' \in Seq(Record) /\ Len(data') = Len(data)
          /\ \A f \in 1..Len(data) : data'[f].mark = data[f].mark
      BY ResetsTypes, <3>1, <3>2, <3>3 DEF Record
    <3>5. Resets!Ended(p).since <= resets /\ Resets!Ended(p).checked <= resets /\ secrets' \subseteq 1..Len(era)
      BY ResetsTypes, <2>a, <2>b, <3>1, EndedProcess
    <3> HIDE DEF h
    <3> QED BY <2>c, <2>a, <3>1, <3>4, <3>5, EndedProcess, QuietStep DEF Marking, Saving, Serving
  <2>13. ASSUME NEW p \in Resets!Processes, Resets!Wipe(p) PROVE ResetsInv'
    <3> DEFINE x == [proc[p] EXCEPT !.at = "sidecar"]
    <3>1. /\ proc' = [proc EXCEPT ![p] = x] /\ proc[p].at = "wipe" /\ secrets' = {}
          /\ file' = (IF shared THEN file ELSE 0) /\ torn' = (torn \/ ~shared)
          /\ UNCHANGED <<shared, data, ready, marks, era, resets, astray>>
      BY <2>13 DEF Resets!Wipe, Resets!Set
    <3>2. /\ x \in Resets!Process /\ x.at = "sidecar" /\ x.handle = 0 /\ x.mark = proc[p].mark
          /\ x.since = proc[p].since /\ x.checked = proc[p].checked
      BY ResetBounds, LabelSet, <2>a, <3>1 DEF Resets!Process, Faithful
    <3> HIDE DEF x
    <3>3. /\ proc' \in [Resets!Processes -> Resets!Process] /\ proc'[p] = x
          /\ \A q \in Resets!Processes \ {p} : proc'[q] = proc[q]
      BY ResetsTypes, <3>1, <3>2
    <3>4. Resets!UnderWay
      BY <3>1 DEF Resets!UnderWay
    <3>5. Resets!TypeOK'
      BY <3>1, <3>3 DEF ResetsInv, Resets!TypeOK, Resets!Files
    <3>6. Kept'
      <4>1. Kept /\ 0 <= Len(data)
        BY DEF ResetsInv
      <4> QED BY <3>1, <4>1 DEF Kept
    <3>7. ASSUME NEW q \in Resets!Processes PROVE Faithful(q, proc[q])'
      <4>1. CASE q = p
        BY <2>a, <3>1, <3>2, <3>3, <4>1 DEF Faithful, Saving, Serving
      <4>2. CASE q # p
        <5>1. proc'[q] = proc[q]
          BY <3>3, <4>2
        <5>2. shared => Generation' = Generation
          BY <3>1 DEF Generation
        <5>3. ~(proc[q].at \in Saving /\ proc[q].alone /\ proc[q].checked = resets)
          BY <2>a, <3>4 DEF Faithful
        <5> QED BY <2>a, <3>1, <5>1, <5>2, <5>3 DEF Faithful
      <4> QED BY <4>1, <4>2
    <3> QED BY <3>5, <3>6, <3>7 DEF ResetsInv
  <2>14. ASSUME NEW p \in Resets!Processes, Resets!InvalidateSessions(p) PROVE ResetsInv'
    <3> DEFINE x == [proc[p] EXCEPT !.at = "wipe", !.handle = 0]
    <3>1. PICK into : into = IF proc[p].handle = 0 THEN Resets!Path ELSE proc[p].handle
      OBVIOUS
    <3>2. /\ Resets!CanOpen /\ marks + 1 < MaxMarks /\ marks' = marks + 1 /\ resets' = resets + 1
          /\ data' = [Resets!Ensured EXCEPT ![into].mark = marks + 1] /\ file' = Resets!Path
          /\ astray' = (into # Resets!Path) /\ proc' = [proc EXCEPT ![p] = x]
          /\ UNCHANGED <<shared, secrets, ready, era, torn>>
      BY <2>14, <3>1 DEF Resets!InvalidateSessions, Resets!Set
    <3>3. /\ x \in Resets!Process /\ x.at = "wipe" /\ x.handle = 0 /\ x.mark = proc[p].mark
          /\ x.since = proc[p].since /\ x.checked = proc[p].checked
      BY ResetBounds, LabelSet, <2>a DEF Resets!Process
    <3> HIDE DEF x
    <3>4. /\ proc' \in [Resets!Processes -> Resets!Process] /\ proc'[p] = x
          /\ \A q \in Resets!Processes \ {p} : proc'[q] = proc[q]
      BY ResetsTypes, <3>2, <3>3
    <3>5. into \in 1..Len(Resets!Ensured)
      <4>1. proc[p].handle <= Len(data) /\ proc[p].handle \in 0..MaxFiles
        BY <2>a, ProcessTypes DEF Faithful
      <4> QED BY <3>1, <3>2, <4>1, Opening
    <3>6. [Resets!Ensured[into] EXCEPT !.mark = marks + 1] \in Record
      <4>1. Resets!Ensured[into] \in Record /\ marks + 1 \in 0..MaxMarks
        BY <2>d, <3>2, <3>5, Opening, ResetBounds
      <4> QED BY <4>1 DEF Record, Resets!Marks
    <3>7. /\ data' \in Seq(Record) /\ Len(data') = Len(Resets!Ensured)
          /\ \A f \in 1..Len(data') : data'[f].mark = IF f = into THEN marks + 1 ELSE Resets!Ensured[f].mark
      BY <3>2, <3>5, <3>6, Opening DEF Record
    <3>8. Generation' = IF into = Resets!Path THEN marks + 1 ELSE Generation
      BY <3>2, <3>7, Opening DEF Generation
    <3>9. Resets!TypeOK'
      <4>1. marks' \in 0..MaxMarks /\ resets' \in 0..MaxMarks /\ file' \in 1..MaxFiles /\ Len(data') <= MaxFiles
        BY ResetsTypes, <2>b, <3>2, <3>7, Opening
      <4> QED BY <3>2, <3>4, <3>7, <4>1 DEF ResetsInv, Resets!TypeOK, Resets!Files, Resets!Marks, Record
    <3>10. Kept'
      <4>1. file' \in 1..Len(data') /\ \A f \in 1..Len(data') : data'[f].mark <= marks + 1
        <5>1. file' \in 1..Len(data')
          BY <3>2, <3>7, Opening
        <5>2. ASSUME NEW f \in 1..Len(data') PROVE data'[f].mark <= marks + 1
          <6>1. Resets!Ensured[f].mark <= marks /\ Resets!Ensured[f].mark \in 0..MaxMarks
            BY <3>2, <3>7, Opening DEF Record, Resets!Marks
          <6>2. data'[f].mark = IF f = into THEN marks + 1 ELSE Resets!Ensured[f].mark
            BY <3>7
          <6> QED BY <2>d, <6>1, <6>2
        <5> QED BY <5>1, <5>2
      <4> QED BY ResetsTypes, <2>b, <3>2, <4>1 DEF Kept
    <3>11. ASSUME NEW q \in Resets!Processes PROVE Faithful(q, proc[q])'
      <4>1. /\ proc[q].handle <= Len(data) /\ proc[q].mark <= marks /\ proc[q].since <= resets
            /\ proc[q].checked <= resets
            /\ proc[q].handle \in 0..MaxFiles /\ proc[q].mark \in 0..MaxMarks /\ proc[q].since \in 0..MaxMarks
            /\ proc[q].checked \in 0..MaxMarks
        BY <2>a, ProcessTypes DEF Faithful
      <4>2. /\ proc[q].handle <= Len(data') /\ proc[q].mark <= marks' /\ proc[q].since <= resets'
            /\ proc[q].checked <= resets' /\ proc[q].checked # resets'
        BY ResetsTypes, <3>2, <3>7, <4>1, Opening, SMTT(30)
      <4>3. CASE q = p
        BY <3>3, <3>4, <4>2, <4>3, <2>a DEF Faithful, Saving, Serving
      <4>4. CASE q # p
        <5>1. proc'[q] = proc[q]
          BY <3>4, <4>4
        <5>2. q \in Servers /\ proc[q].mark = Generation' /\ ~torn /\ proc[q].handle # 0 =>
                proc[q].handle = file' /\ astray'
          <6>1. SUFFICES ASSUME q \in Servers, proc[q].mark = Generation', ~torn, proc[q].handle # 0
                         PROVE  proc[q].handle = file' /\ astray'
            OBVIOUS
          <6>2. into # Resets!Path
            BY ResetsTypes, <3>8, <4>1, <6>1
          <6>3. proc[q].handle = file
            BY <2>a, <3>8, <6>1, <6>2 DEF Faithful
          <6> QED BY <3>2, <4>1, <6>1, <6>2, <6>3, Opening
        <5> QED BY <2>a, <3>2, <4>2, <5>1, <5>2 DEF Faithful
      <4> QED BY <4>3, <4>4
    <3> QED BY <3>9, <3>10, <3>11 DEF ResetsInv
  <2>15. ASSUME NEW p \in Resets!Processes, Resets!ResetLocalState(p) PROVE ResetsInv'
    <3> DEFINE x == IF p \in Servers THEN Resets!Opened(Resets!Ended(p)) ELSE Resets!Over
               r == [Resets!Empty EXCEPT !.mark = marks + 1]
    <3>1. /\ Resets!CanOpen /\ marks < MaxMarks /\ marks' = marks + 1 /\ proc[p].at = "local"
          /\ data' = [Resets!Ensured EXCEPT ![Resets!Path] = r] /\ file' = Resets!Path
          /\ torn' = FALSE /\ astray' = FALSE /\ proc' = [proc EXCEPT ![p] = x]
          /\ UNCHANGED <<shared, secrets, ready, era, resets>>
      BY <2>15 DEF Resets!ResetLocalState, Resets!Set
    <3>2. r \in Record /\ r.mark = marks + 1
      BY ResetsTypes, <3>1 DEF Record, Resets!Empty, Resets!Marks, Resets!NoSession
    <3>3. /\ x \in Resets!Process /\ x.at \in {"serving", "over"} /\ (x.at = "serving" => p \in Servers)
          /\ x.handle \in {0, Resets!Path} /\ x.mark <= marks /\ x.since <= resets /\ x.checked = 0
      <4>1. proc[p].handle = 0
        BY <2>a, <3>1 DEF Faithful
      <4>2. Resets!Path \in 1..MaxFiles
        BY ResetsTypes, <3>1, Opening
      <4>3. /\ Resets!Ended(p) \in Resets!Process /\ Resets!Ended(p).handle = 0
            /\ Resets!Ended(p).mark <= marks /\ Resets!Ended(p).checked = 0
        <5>1. 0 <= marks /\ proc[p].mark <= marks
          BY <2>a, <2>d
        <5> QED BY <4>1, <5>1, EndedProcess
      <4>4. /\ Resets!Opened(Resets!Ended(p)) \in Resets!Process
            /\ Resets!Opened(Resets!Ended(p)).at = Resets!Ended(p).at
            /\ Resets!Opened(Resets!Ended(p)).handle = Resets!Path
            /\ Resets!Opened(Resets!Ended(p)).mark = Resets!Ended(p).mark
            /\ Resets!Opened(Resets!Ended(p)).since = resets
            /\ Resets!Opened(Resets!Ended(p)).checked = 0
        BY ResetBounds, LabelSet, <2>d, <4>2, <4>3 DEF Resets!Opened, Resets!Process, Resets!Files
      <4> QED BY ResetsTypes, <4>3, <4>4, EndedProcess
    <3> HIDE DEF x, r
    <3>4. /\ proc' \in [Resets!Processes -> Resets!Process] /\ proc'[p] = x
          /\ \A q \in Resets!Processes \ {p} : proc'[q] = proc[q]
      BY ResetsTypes, <3>1, <3>3
    <3>5. /\ data' \in Seq(Record) /\ Len(data') = Len(Resets!Ensured)
          /\ \A f \in 1..Len(data') : data'[f] = IF f = Resets!Path THEN r ELSE Resets!Ensured[f]
      BY <3>1, <3>2, Opening
    <3>6. Generation' = marks + 1
      BY <3>1, <3>2, <3>5, Opening DEF Generation
    <3>7. Resets!TypeOK'
      <4>1. marks' \in 0..MaxMarks /\ file' \in 1..MaxFiles /\ Len(data') <= MaxFiles
        BY ResetsTypes, <3>1, <3>5, Opening
      <4> QED BY <3>1, <3>4, <3>5, <4>1 DEF ResetsInv, Resets!TypeOK, Resets!Files, Resets!Marks, Record
    <3>8. Kept'
      <4>1. file' \in 1..Len(data') /\ \A f \in 1..Len(data') : data'[f].mark <= marks + 1
        <5>1. file' \in 1..Len(data')
          BY <3>1, <3>5, Opening
        <5>2. ASSUME NEW f \in 1..Len(data') PROVE data'[f].mark <= marks + 1
          <6>1. Resets!Ensured[f].mark <= marks /\ Resets!Ensured[f].mark \in 0..MaxMarks
            BY <3>1, <3>5, Opening DEF Record, Resets!Marks
          <6>2. data'[f] = IF f = Resets!Path THEN r ELSE Resets!Ensured[f]
            BY <3>5
          <6> QED BY <2>d, <3>2, <6>1, <6>2
        <5> QED BY <5>1, <5>2
      <4> QED BY ResetsTypes, <2>b, <3>1, <4>1 DEF Kept
    <3>9. ASSUME NEW q \in Resets!Processes PROVE Faithful(q, proc[q])'
      <4>1. /\ proc[q].handle <= Len(data) /\ proc[q].mark <= marks /\ proc[q].since <= resets
            /\ proc[q].handle \in 0..MaxFiles /\ proc[q].mark \in 0..MaxMarks
        BY <2>a, ProcessTypes DEF Faithful
      <4>2. proc[q].handle <= Len(data') /\ proc[q].mark <= marks' /\ proc[q].mark # Generation'
        BY ResetsTypes, <3>1, <3>5, <3>6, <4>1, Opening
      <4>3. CASE q = p
        <5>1. x.handle <= Len(data') /\ x.mark <= marks' /\ x.mark # Generation' /\ x.since <= resets' /\ x.checked <= resets'
          BY ResetsTypes, <3>1, <3>3, <3>5, <3>6, Opening, ProcessTypes
        <5> QED BY <3>1, <3>3, <3>4, <4>3, <5>1 DEF Faithful, Saving, Serving
      <4>4. CASE q # p
        <5>1. proc'[q] = proc[q]
          BY <3>4, <4>4
        <5>2. Resets!UnderWay
          BY <3>1 DEF Resets!UnderWay
        <5> QED BY <2>a, <3>1, <4>2, <5>1, <5>2 DEF Faithful
      <4> QED BY <4>3, <4>4
    <3> QED BY <3>7, <3>8, <3>9 DEF ResetsInv
  <2>16. CASE UNCHANGED Resets!vars
    <3>1. UNCHANGED <<shared, file, data, secrets, ready, proc, marks, era, resets, torn, astray>>
      BY <2>16 DEF Resets!vars
    <3> QED BY <3>1 DEF ResetsInv, Resets!TypeOK, Kept, Faithful, Generation, Resets!UnderWay
  <2> QED BY <2>1, <2>2, <2>3, <2>4, <2>5, <2>6, <2>7, <2>8, <2>9, <2>10, <2>11, <2>12, <2>13, <2>14, <2>15, <2>16
          DEF Resets!Next, Resets!Step
<1> QED BY <1>1, <1>2, PTL DEF Resets!Spec

-----------------------------------------------------------------------------
(* VaultFactors.                                                            *)

\* A command has what its next request needs, and one that has found its factor to
\* open the vault is right about the header with its salt, as long as nothing was
\* removed: there is a header then.
Informed(x) ==
  /\ x.at \notin {"idle", "lockOnly", "reset"} => x.factor # None
  /\ x.at \in {"rotateSalt", "rotate", "lock", "oldSalt", "old"} => x.previous # None
  /\ x.at \in {"unlock", "rotate", "old", "new", "opened", "confirm", "newOpened", "unlocked", "changed"}
       => x.salt # None

Right(x) ==
  /\ x.at \in {"opened", "confirm", "newOpened", "unlocked", "changed"}
  /\ ~x.outlived
  => /\ header # None
     /\ header.salt = x.salt => header.factor = x.factor

UnlocksInv ==
  /\ Unlocks!TypeOK
  /\ \A c \in Terminals : Informed(doing[c]) /\ Right(doing[c])

\* There is always a new salt to draw.
LEMMA SaltIsFresh ==
  ASSUME Unlocks!TypeOK
  PROVE  /\ Unlocks!FreshSalt \in Salts
         /\ header # None => header.salt # Unlocks!FreshSalt
         /\ \A c \in Terminals : doing[c].salt # Unlocks!FreshSalt
<1> USE SaltsAssumption DEF Unlocks!SaltsAssumption
<1> DEFINE of == [c \in Terminals |-> doing[c].salt]
           headers == IF header = None THEN None ELSE header.salt
<1>1. of \in [Terminals -> Salts \cup {None}] /\ \A c \in Terminals : of[c] = doing[c].salt
  BY DEF Unlocks!TypeOK, Unlocks!Command
<1>2. headers \in Salts \cup {None}
  BY DEF Unlocks!TypeOK, Unlocks!Header
<1>3. PICK s \in Salts : s # headers /\ \A c \in Terminals : of[c] # s
  <2> HIDE DEF of, headers
  <2> QED BY <1>1, <1>2
<1> QED BY <1>1, <1>3 DEF Unlocks!FreshSalt

\* What a request of one command has to leave true.
LEMMA OneRequest ==
  ASSUME UnlocksInv, NEW c \in Terminals, NEW x \in Unlocks!Command,
         doing' = [doing EXCEPT ![c] = x],
         header' \in Unlocks!Header \cup {None}, open' \in BOOLEAN,
         \/ header' = header
         \/ header = None /\ header' # None
         \/ header' # None /\ \A d \in Terminals : header'.salt # doing[d].salt,
         Informed(x), doing'[c] = x => Right(doing[c])'
  PROVE  UnlocksInv'
<1>1. doing' \in [Terminals -> Unlocks!Command] /\ doing'[c] = x /\ \A d \in Terminals \ {c} : doing'[d] = doing[d]
  BY DEF UnlocksInv, Unlocks!TypeOK
<1>2. ASSUME NEW d \in Terminals PROVE Informed(doing[d])'
  BY <1>1 DEF UnlocksInv, Informed
<1>3. ASSUME NEW d \in Terminals PROVE Right(doing[d])'
  <2>1. CASE d = c
    BY <1>1, <2>1 DEF Right
  <2>2. CASE d # c
    BY <1>1, <2>2 DEF UnlocksInv, Right
  <2> QED BY <2>1, <2>2
<1> QED BY <1>1, <1>2, <1>3 DEF UnlocksInv, Unlocks!TypeOK

\* Every request of a command that unlocks, rotates or resets the vault keeps
\* UnlocksInv, and so does a vault that locks itself (vault/index.ts).
THEOREM UnlocksInvariance == Unlocks!Spec => []UnlocksInv
<1>a. /\ Unlocks!Idle \in Unlocks!Command /\ Unlocks!Idle.at = "idle" /\ ~Unlocks!Idle.outlived
      /\ Unlocks!Idle.salt = None
  BY DEF Unlocks!Idle, Unlocks!Command
<1>1. Unlocks!Init => UnlocksInv
  <2> SUFFICES ASSUME Unlocks!Init PROVE UnlocksInv
    OBVIOUS
  <2>1. header = None /\ open = FALSE /\ doing = [c \in Terminals |-> Unlocks!Idle]
    BY DEF Unlocks!Init
  <2>2. ASSUME NEW c \in Terminals PROVE doing[c] = Unlocks!Idle
    BY <2>1
  <2>3. Unlocks!TypeOK
    BY <1>a, <2>1 DEF Unlocks!TypeOK
  <2> QED BY <1>a, <2>2, <2>3 DEF UnlocksInv, Informed, Right
<1>2. UnlocksInv /\ [Unlocks!Next]_unlockVars => UnlocksInv'
  <2> SUFFICES ASSUME UnlocksInv, [Unlocks!Next]_unlockVars
               PROVE UnlocksInv'
    OBVIOUS
  <2> USE SaltsAssumption DEF Unlocks!SaltsAssumption
  <2>a. /\ header \in Unlocks!Header \cup {None} /\ open \in BOOLEAN
        /\ doing \in [Terminals -> Unlocks!Command]
    BY DEF UnlocksInv, Unlocks!TypeOK
  <2>b. ASSUME NEW c \in Terminals PROVE doing[c] \in Unlocks!Command /\ Informed(doing[c]) /\ Right(doing[c])
    BY <2>a DEF UnlocksInv
  <2>c. ASSUME NEW c \in Terminals, UNCHANGED header, open' \in BOOLEAN, doing' = [doing EXCEPT ![c] = Unlocks!Idle]
        PROVE  UnlocksInv'
    <3>1. Informed(Unlocks!Idle) /\ (doing'[c] = Unlocks!Idle => Right(doing[c])')
      BY <1>a DEF Informed, Right, Unlocks!Idle
    <3> QED BY <1>a, <2>a, <2>c, <3>1, OneRequest
  <2>d. ASSUME NEW c \in Terminals, UNCHANGED header, open' \in BOOLEAN, Unlocks!Go(c, "idle")
        PROVE  UnlocksInv'
    BY <2>a, <2>c, <2>d DEF Unlocks!Go
  \* The command goes on with nothing learnt.
  <2>e. ASSUME NEW c \in Terminals, UNCHANGED header, open' \in BOOLEAN,
               NEW at \in {"salt", "confirm", "relock", "closed", "oldSalt", "newSalt", "lock", "unlocked", "changed"},
               Unlocks!Go(c, at),
               doing[c].at \notin {"idle", "lockOnly", "reset"},
               at \in {"lock", "oldSalt"} => doing[c].at \in {"rotate", "lock"},
               at \in {"confirm", "unlocked", "changed"} => doing[c].at \in {"opened", "confirm", "newOpened"}
        PROVE  UnlocksInv'
    <3> DEFINE x == [doing[c] EXCEPT !.at = at]
    <3>0. at # "idle"
      OBVIOUS
    <3>1. doing' = [doing EXCEPT ![c] = x]
      BY <2>a, <2>e, <3>0 DEF Unlocks!Go
    <3>2. /\ x \in Unlocks!Command /\ x.at = at /\ x.factor = doing[c].factor /\ x.previous = doing[c].previous
          /\ x.salt = doing[c].salt /\ x.outlived = doing[c].outlived
      BY <2>b DEF Unlocks!Command
    <3> HIDE DEF x
    <3>3. Informed(x)
      BY <2>b, <2>e, <3>2 DEF Informed
    <3>4. (doing'[c] = x => Right(doing[c])')
      BY <2>b, <2>e, <3>2 DEF Right
    <3> QED BY <2>a, <2>e, <3>1, <3>2, <3>3, <3>4, OneRequest
  <2>1. ASSUME NEW c \in Terminals, Unlocks!Begin(c) PROVE UnlocksInv'
    <3>0. UNCHANGED <<header, open>>
      BY <2>1 DEF Unlocks!Begin
    <3>1. ASSUME NEW at \in {"lockOnly", "reset"}, doing' = [doing EXCEPT ![c] = [Unlocks!Idle EXCEPT !.at = at]]
          PROVE UnlocksInv'
      <4> DEFINE x == [Unlocks!Idle EXCEPT !.at = at]
      <4>1. x \in Unlocks!Command /\ x.at = at
        BY <1>a DEF Unlocks!Command
      <4> HIDE DEF x
      <4>2. Informed(x) /\ (doing'[c] = x => Right(doing[c])')
        BY <4>1 DEF Informed, Right
      <4> QED BY <2>a, <3>0, <3>1, <4>1, <4>2, OneRequest DEF x
    <3>2. ASSUME NEW f \in Factors,
                 doing' = [doing EXCEPT ![c] = [Unlocks!Idle EXCEPT !.at = "status", !.factor = f]]
          PROVE UnlocksInv'
      <4> DEFINE x == [Unlocks!Idle EXCEPT !.at = "status", !.factor = f]
      <4>1. x \in Unlocks!Command /\ x.at = "status" /\ x.factor = f /\ f # None
        BY <1>a DEF Unlocks!Command
      <4> HIDE DEF x
      <4>2. Informed(x) /\ (doing'[c] = x => Right(doing[c])')
        BY <4>1 DEF Informed, Right
      <4> QED BY <2>a, <3>0, <3>2, <4>1, <4>2, OneRequest DEF x
    <3>3. ASSUME NEW f \in Factors, NEW g \in Factors,
                 doing' = [doing EXCEPT ![c] = [Unlocks!Idle EXCEPT !.at = "rotateSalt", !.factor = f, !.previous = g]]
          PROVE UnlocksInv'
      <4> DEFINE x == [Unlocks!Idle EXCEPT !.at = "rotateSalt", !.factor = f, !.previous = g]
      <4>1. /\ x \in Unlocks!Command /\ x.at = "rotateSalt" /\ x.factor = f /\ f # None /\ x.previous = g
            /\ g # None
        BY <1>a DEF Unlocks!Command
      <4> HIDE DEF x
      <4>2. Informed(x) /\ (doing'[c] = x => Right(doing[c])')
        BY <4>1 DEF Informed, Right
      <4> QED BY <2>a, <3>0, <3>3, <4>1, <4>2, OneRequest DEF x
    <3> QED BY <2>1, <3>1, <3>2, <3>3 DEF Unlocks!Begin
  <2>2. ASSUME NEW c \in Terminals, Unlocks!Look(c) PROVE UnlocksInv'
    BY <2>2, <2>a, <2>d, <2>e DEF Unlocks!Look
  <2>3. ASSUME NEW c \in Terminals, Unlocks!ReadSalt(c) PROVE UnlocksInv'
    <3> DEFINE s == Unlocks!UnlockSalt
               at == Unlocks!NextAfterSalt[doing[c].at]
               x == [doing[c] EXCEPT !.at = at, !.salt = s, !.outlived = FALSE]
    <3>1. s \in Salts /\ s # None
      BY <2>a, SaltIsFresh DEF UnlocksInv, Unlocks!UnlockSalt, Unlocks!Header
    <3>2. \/ doing[c].at = "salt" /\ at = "unlock"
          \/ doing[c].at = "rotateSalt" /\ at = "rotate"
          \/ doing[c].at = "oldSalt" /\ at = "old"
          \/ doing[c].at = "newSalt" /\ at = "new"
      BY <2>3 DEF Unlocks!ReadSalt, Unlocks!NextAfterSalt
    <3>3. doing' = [doing EXCEPT ![c] = x] /\ UNCHANGED <<header, open>>
      BY <2>3, <2>a DEF Unlocks!ReadSalt
    <3> HIDE DEF s, at
    <3>4. /\ x \in Unlocks!Command /\ x.at = at /\ x.factor = doing[c].factor /\ x.previous = doing[c].previous
          /\ x.salt = s
      BY <2>b, <3>1, <3>2 DEF Unlocks!Command
    <3> HIDE DEF x
    <3>5. Informed(x) /\ (doing'[c] = x => Right(doing[c])')
      BY <2>b, <3>1, <3>2, <3>4 DEF Informed, Right
    <3> QED BY <2>a, <3>3, <3>4, <3>5, OneRequest
  <2>4. ASSUME NEW c \in Terminals, Unlocks!Unlock(c) PROVE UnlocksInv'
    <3>0. doing[c].at \in {"unlock", "old", "new"}
      BY <2>4 DEF Unlocks!Unlock, Unlocks!NextAfterUnlock
    <3>1. CASE Unlocks!Opens(Unlocks!Tried(c), doing[c].salt)
      <4> DEFINE f == Unlocks!Tried(c)
                 s == doing[c].salt
                 at == Unlocks!NextAfterUnlock[doing[c].at]
                 x == [doing[c] EXCEPT !.at = at]
      <4>1. f \in Factors /\ s \in Salts
        BY <2>b, <3>0 DEF Unlocks!Tried, Informed, Unlocks!Command
      <4>2. \/ doing[c].at = "unlock" /\ at = "opened" /\ f = doing[c].factor
            \/ doing[c].at = "old" /\ at = "oldOpened"
            \/ doing[c].at = "new" /\ at = "newOpened" /\ f = doing[c].factor
        BY <3>0 DEF Unlocks!NextAfterUnlock, Unlocks!Tried
      <4>3. /\ header' = [factor |-> f, salt |-> s] /\ open' = TRUE
            /\ doing' = [doing EXCEPT ![c] = x]
            /\ header = None \/ header = [factor |-> f, salt |-> s]
        BY <2>4, <2>a, <3>1, <4>2 DEF Unlocks!Unlock, Unlocks!Go, Unlocks!Opens
      <4> HIDE DEF f, at
      <4>4. /\ x \in Unlocks!Command /\ x.at = at /\ x.factor = doing[c].factor /\ x.previous = doing[c].previous
            /\ x.salt = s /\ x.outlived = doing[c].outlived
        BY <2>b, <4>2 DEF Unlocks!Command
      <4> HIDE DEF x
      <4>5. header' \in Unlocks!Header /\ header' # None /\ header'.factor = f /\ header'.salt = s
        BY <4>1, <4>3 DEF Unlocks!Header
      <4>6. Informed(x) /\ (doing'[c] = x => Right(doing[c])')
        BY <2>b, <4>2, <4>4, <4>5 DEF Informed, Right
      <4> QED BY <2>a, <4>3, <4>4, <4>5, <4>6, OneRequest
    <3>2. CASE ~Unlocks!Opens(Unlocks!Tried(c), doing[c].salt)
      BY <2>4, <2>a, <2>d, <2>e, <3>0, <3>2 DEF Unlocks!Unlock
    <3> QED BY <3>1, <3>2
  <2>5. ASSUME NEW c \in Terminals, Unlocks!Opened(c) PROVE UnlocksInv'
    BY <2>5, <2>a, <2>d, <2>e DEF Unlocks!Opened
  <2>6. ASSUME NEW c \in Terminals, Unlocks!Confirm(c) PROVE UnlocksInv'
    BY <2>6, <2>a, <2>d, <2>e DEF Unlocks!Confirm
  <2>7. ASSUME NEW c \in Terminals, Unlocks!Rotate(c) PROVE UnlocksInv'
    <3>1. CASE header = [factor |-> doing[c].previous, salt |-> doing[c].salt]
      <4> DEFINE s == Unlocks!FreshSalt
                 x == [doing[c] EXCEPT !.at = "lock"]
      <4>1. s \in Salts /\ \A d \in Terminals : doing[d].salt # s
        BY SaltIsFresh DEF UnlocksInv
      <4>2. /\ header' = [factor |-> doing[c].factor, salt |-> s] /\ open' = TRUE
            /\ doing' = [doing EXCEPT ![c] = x] /\ doing[c].at = "rotate"
        BY <2>7, <2>a, <3>1 DEF Unlocks!Rotate, Unlocks!Go
      <4>3. doing[c].factor \in Factors
        BY <2>b, <4>2 DEF Informed, Unlocks!Command
      <4> HIDE DEF s
      <4>4. /\ x \in Unlocks!Command /\ x.at = "lock" /\ x.factor = doing[c].factor
            /\ x.previous = doing[c].previous
        BY <2>b DEF Unlocks!Command
      <4> HIDE DEF x
      <4>5. header' \in Unlocks!Header /\ header' # None /\ header'.salt = s
        BY <4>1, <4>2, <4>3 DEF Unlocks!Header
      <4>6. Informed(x) /\ (doing'[c] = x => Right(doing[c])')
        BY <2>b, <4>2, <4>4 DEF Informed, Right
      <4> QED BY <2>a, <4>1, <4>2, <4>4, <4>5, <4>6, OneRequest
    <3>2. CASE header # [factor |-> doing[c].previous, salt |-> doing[c].salt]
      BY <2>7, <2>a, <2>d, <3>2 DEF Unlocks!Rotate, Unlocks!Fail
    <3> QED BY <3>1, <3>2
  <2>8. ASSUME NEW c \in Terminals, Unlocks!Lock(c) PROVE UnlocksInv'
    <3>1. \/ doing[c].at = "lock" /\ Unlocks!Go(c, "oldSalt")
          \/ Unlocks!Go(c, "idle")
      BY <2>8 DEF Unlocks!Lock, Unlocks!NextAfterLock
    <3>2. UNCHANGED header /\ open' \in BOOLEAN
      BY <2>8 DEF Unlocks!Lock
    <3> QED BY <2>d, <2>e, <3>1, <3>2
  <2>9. ASSUME NEW c \in Terminals, Unlocks!StillClosed(c) PROVE UnlocksInv'
    BY <2>9, <2>a, <2>d, <2>e DEF Unlocks!StillClosed
  <2>10. ASSUME NEW c \in Terminals, Unlocks!Reset(c) PROVE UnlocksInv'
    <3>1. /\ header' = None /\ open' = FALSE
          /\ doing' = [d \in Terminals |->
               IF d = c THEN Unlocks!Idle ELSE [doing[d] EXCEPT !.outlived = doing[d].salt # None]]
      BY <2>10 DEF Unlocks!Reset
    <3>2. ASSUME NEW d \in Terminals
          PROVE  doing'[d] \in Unlocks!Command /\ Informed(doing[d])' /\ Right(doing[d])'
      <4>1. CASE d = c
        BY <1>a, <3>1, <4>1 DEF Informed, Right
      <4>2. CASE d # c
        <5> DEFINE o == doing[d].salt # None
                   x == [doing[d] EXCEPT !.outlived = o]
        <5>1. o \in BOOLEAN /\ doing'[d] = x
          BY <3>1, <4>2
        <5>2. (o <=> doing[d].salt # None)
          OBVIOUS
        <5> HIDE DEF o
        <5>3. /\ x \in Unlocks!Command /\ x.at = doing[d].at /\ x.factor = doing[d].factor
              /\ x.previous = doing[d].previous /\ x.salt = doing[d].salt /\ x.outlived = o
          BY <2>b, <5>1 DEF Unlocks!Command
        <5> HIDE DEF x
        <5> QED BY <2>b, <5>1, <5>2, <5>3 DEF Informed, Right
      <4> QED BY <4>1, <4>2
    <3>3. Unlocks!TypeOK'
      <4>1. doing' \in [Terminals -> Unlocks!Command]
        BY <3>1, <3>2
      <4> QED BY <3>1, <4>1 DEF Unlocks!TypeOK
    <3> QED BY <3>2, <3>3 DEF UnlocksInv
  <2>11. ASSUME NEW c \in Terminals, Unlocks!Lost(c) PROVE UnlocksInv'
    BY <2>11, <2>a, <2>d DEF Unlocks!Lost, Unlocks!Fail
  <2>12. CASE Unlocks!LockItself \/ UNCHANGED unlockVars
    BY <2>12, <2>a DEF Unlocks!LockItself, unlockVars, UnlocksInv, Unlocks!TypeOK, Informed, Right
  <2> QED BY <2>1, <2>2, <2>3, <2>4, <2>5, <2>6, <2>7, <2>8, <2>9, <2>10, <2>11, <2>12 DEF Unlocks!Next
<1> QED BY <1>1, <1>2, PTL DEF Unlocks!Spec, unlockVars, Unlocks!vars

-----------------------------------------------------------------------------
(* WindowsClient.                                                           *)

\* A process: the service control manager knows of it while its main thread runs, its
\* runtime thread serves the pipe it owns, and one that serves the pipe unknown to
\* the service control manager has been told to end.
Serves(p) == process[p].runtime \in {"listening", "serving"}

Lives(p) ==
  /\ process[p].main # "none" => scm.process = p /\ process[p].pid # Nobody
  /\ process[p].runtime # "none" => process[p].pid # Nobody
  /\ process[p].stopped => process[p].runtime = "none"
  /\ Serves(p) <=> owner = p
  /\ process[p].runtime \in {"boot", "listening", "serving"} => scm.process = p \/ process[p].stop

\* A connection: what was checked is true of the process at its other end.
Checked(c) ==
  /\ client[c].at \in {"start", "wait"} => ~client[c].checked
  /\ client[c].at \in {"verify", "handshake", "info", "send"} => client[c].conn # Nobody
  /\ client[c].at = "send" /\ client[c].method \in Windows!Guarded => client[c].checked
  /\ client[c].checked =>
       /\ client[c].conn # Nobody
       /\ process[client[c].conn].pid # Nobody => process[client[c].conn].exe = Mine

WindowsInv ==
  /\ Windows!TypeOK
  /\ scm.state = "stopped" <=> scm.process = Nobody
  /\ told \subseteq {Mine}
  /\ \A p \in Instances : Lives(p)
  /\ \A c \in Connections : Checked(c)

\* What the type of the state says of each variable.
LEMMA WindowsTypes ==
  ASSUME WindowsInv
  PROVE  /\ process \in [Instances -> Windows!Process]
         /\ client \in [Connections -> Windows!Client]
         /\ owner \in Instances \cup {Nobody}
         /\ scm \in [state : {"stopped", "start", "running", "stop"}, process : Instances \cup {Nobody}]
         /\ incidents \in 0..MaxIncidents
BY DEF WindowsInv, Windows!TypeOK

\* The commands are not concerned, or one has asked for the service to be started.
Asking ==
  \/ client' = client
  \/ \E c \in Connections : /\ client[c].at = "start"
                            /\ client' = [client EXCEPT ![c] = [client[c] EXCEPT !.at = "wait"]]

\* What a step of one process, and of the service control manager about it, has to leave true.
LEMMA OneProcess ==
  ASSUME WindowsInv, NEW p \in Instances, NEW x \in Windows!Process,
         process' = [process EXCEPT ![p] = x],
         UNCHANGED <<installed, told>>, Asking, incidents' \in 0..MaxIncidents,
         x.exe = process[p].exe \/ x.pid = Nobody \/ p \in Windows!Unused,
         x.pid # Nobody => process[p].pid # Nobody \/ p \in Windows!Unused,
         owner' \in Instances \cup {Nobody},
         \A q \in Instances \ {p} : owner' = q <=> owner = q,
         scm' \in [state : {"stopped", "start", "running", "stop"}, process : Instances \cup {Nobody}],
         scm'.state = "stopped" <=> scm'.process = Nobody,
         \A q \in Instances \ {p} : scm.process = q => scm'.process = q,
         Lives(p)'
  PROVE  WindowsInv'
<1> USE WindowsTypes
<1>1. process' \in [Instances -> Windows!Process] /\ process'[p] = x /\ \A q \in Instances \ {p} : process'[q] = process[q]
  OBVIOUS
<1>3. ASSUME NEW q \in Instances \ {p} PROVE Lives(q)'
  BY <1>1 DEF WindowsInv, Lives, Serves
<1>4. /\ client' \in [Connections -> Windows!Client]
      /\ \A c \in Connections :
           /\ client'[c].conn = client[c].conn /\ client'[c].checked = client[c].checked
           /\ client'[c].method = client[c].method
           /\ client'[c].at = client[c].at \/ (client'[c].at = "wait" /\ client[c].at = "start")
  <2>1. CASE client' = client
    BY <2>1
  <2>2. ASSUME NEW c \in Connections, client[c].at = "start",
               client' = [client EXCEPT ![c] = [client[c] EXCEPT !.at = "wait"]]
        PROVE  <1>4!1 /\ <1>4!2
    <3> DEFINE x0 == [client[c] EXCEPT !.at = "wait"]
    <3>1. /\ x0 \in Windows!Client /\ x0.at = "wait" /\ x0.conn = client[c].conn
          /\ x0.checked = client[c].checked /\ x0.method = client[c].method
      BY DEF Windows!Client
    <3> HIDE DEF x0
    <3>2. client' = [client EXCEPT ![c] = x0]
      BY <2>2 DEF x0
    <3> QED BY <2>2, <3>1, <3>2
  <2> QED BY <2>1, <2>2 DEF Asking
<1>2. Windows!TypeOK'
  BY <1>1, <1>4 DEF WindowsInv, Windows!TypeOK
<1>5. ASSUME NEW c \in Connections PROVE Checked(c)'
  <2>1. client[c].conn \in Instances \cup {Nobody}
    BY DEF Windows!Client
  <2>2. CASE client[c].conn = p
    <3>1. p \notin Windows!Unused
      BY <2>2 DEF Windows!Unused
    <3> QED BY <1>1, <1>4, <2>2, <3>1 DEF WindowsInv, Checked
  <2> QED BY <1>1, <1>4, <2>1, <2>2 DEF WindowsInv, Checked
<1> QED BY <1>2, <1>3, <1>5 DEF WindowsInv

\* What a step of one command on its connection has to leave true.
LEMMA OneCommand ==
  ASSUME WindowsInv, NEW c \in Connections, NEW x \in Windows!Client,
         client' = [client EXCEPT ![c] = x],
         UNCHANGED <<installed, owner, incidents, scm, process>>,
         told' \subseteq {Mine}, told' \subseteq Releases \cup {Other},
         Checked(c)'
  PROVE  WindowsInv'
<1>1. client' \in [Connections -> Windows!Client] /\ \A d \in Connections \ {c} : client'[d] = client[d]
  BY WindowsTypes
<1>2. ASSUME NEW d \in Connections \ {c} PROVE Checked(d)'
  BY <1>1 DEF WindowsInv, Checked
<1> QED BY <1>1, <1>2 DEF WindowsInv, Windows!TypeOK, Lives, Serves

\* Every step of the service control manager, the service's threads and the commands
\* keeps WindowsInv (vault-windows-service.ts, vault_peer_windows.c).
THEOREM WindowsInvariance == Windows!Spec => []WindowsInv
<1>1. Windows!Init => WindowsInv
  BY WindowsAssumption
  DEF Windows!Init, WindowsInv, Windows!TypeOK, Windows!ConstantsAssumption, Windows!NoProcess, Windows!NoRequest,
      Windows!Process, Windows!Client, Windows!Methods, Lives, Serves, Checked
<1>2. WindowsInv /\ [Windows!Next]_windowsVars => WindowsInv'
  <2> SUFFICES ASSUME WindowsInv, [Windows!Next]_windowsVars
               PROVE WindowsInv'
    OBVIOUS
  <2> USE WindowsTypes, WindowsAssumption DEF Windows!ConstantsAssumption
  <2>a. /\ Windows!NoProcess \in Windows!Process
        /\ Windows!NoProcess.exe = Other /\ Windows!NoProcess.pid = Nobody
        /\ Windows!NoProcess.main = "none" /\ Windows!NoProcess.runtime = "none" /\ ~Windows!NoProcess.stopped
    BY DEF Windows!NoProcess, Windows!Process
  <2>b. ASSUME NEW p \in Instances PROVE process[p] \in Windows!Process /\ Lives(p)
    BY DEF WindowsInv
  <2>1. ASSUME NEW p \in Instances, Windows!Dispatch(p) PROVE WindowsInv'
    <3> DEFINE x == [process[p] EXCEPT !.main = "waiting", !.ready = FALSE, !.stopped = FALSE, !.stop = FALSE]
    <3>1. x \in Windows!Process /\ process' = [process EXCEPT ![p] = x]
      BY <2>1, <2>b, ZenonT(60) DEF Windows!Dispatch, Windows!Process
    <3>2. /\ x.main = "waiting" /\ ~x.stopped /\ ~x.stop /\ x.exe = process[p].exe /\ x.pid = process[p].pid
          /\ x.runtime = process[p].runtime
      BY <2>b DEF Windows!Process
    <3>3. process'[p] = x
      BY <3>1
    <3> HIDE DEF x
    <3>4. UNCHANGED <<installed, scm, owner, told, client, incidents>> /\ process[p].main = "boot"
      BY <2>1 DEF Windows!Dispatch
    <3>5. Lives(p)'
      BY <2>b, <3>2, <3>3, <3>4 DEF Lives, Serves
    <3> QED BY <2>b, <3>1, <3>2, <3>4, <3>5, OneProcess DEF WindowsInv, Asking
  <2>2. ASSUME NEW p \in Instances, Windows!Running(p) PROVE WindowsInv'
    <3> DEFINE x == [process[p] EXCEPT !.main = "running"]
    <3>1. x \in Windows!Process /\ process' = [process EXCEPT ![p] = x]
      BY <2>2, <2>b DEF Windows!Running, Windows!Process
    <3>2. /\ x.main = "running" /\ x.exe = process[p].exe /\ x.pid = process[p].pid /\ x.stop = process[p].stop
          /\ x.runtime = process[p].runtime /\ x.stopped = process[p].stopped
      BY <2>b DEF Windows!Process
    <3>3. process'[p] = x
      BY <3>1
    <3> HIDE DEF x
    <3>4. /\ UNCHANGED <<installed, owner, told, client, incidents>> /\ process[p].main = "waiting"
          /\ scm' = [state |-> "running", process |-> p]
      BY <2>2, <2>b DEF Windows!Running, Windows!Report, Lives
    <3>5. Lives(p)'
      BY <2>b, <3>2, <3>3, <3>4 DEF Lives, Serves
    <3> QED BY <2>b, <3>1, <3>2, <3>4, <3>5, OneProcess DEF WindowsInv, Lives, Asking
  <2>c. ASSUME NEW p \in Instances, NEW x \in Windows!Process, Windows!Report(p, "stopped"),
               process' = [process EXCEPT ![p] = x],
               UNCHANGED <<installed, owner, told, client, incidents>>,
               x.exe = process[p].exe \/ x.pid = Nobody,
               x.pid # Nobody => process[p].pid # Nobody,
               x.main = "none", x.runtime # "none" => x.pid # Nobody /\ ~x.stopped,
               x.runtime = process[p].runtime, process[p].runtime \in {"boot", "listening", "serving"} => x.stop
        PROVE  WindowsInv'
    <3>1. /\ scm.process = p => scm' = [state |-> "stopped", process |-> Nobody]
          /\ scm.process # p => scm' = scm
      BY <2>c DEF Windows!Report
    <3>2. process'[p] = x
      BY <2>c
    <3>3. Lives(p)'
      BY <2>b, <2>c, <3>2 DEF Lives, Serves
    <3>4. /\ scm' \in [state : {"stopped", "start", "running", "stop"}, process : Instances \cup {Nobody}]
          /\ scm'.state = "stopped" <=> scm'.process = Nobody
          /\ \A q \in Instances \ {p} : scm.process = q => scm'.process = q
      BY <3>1 DEF WindowsInv
    <3> QED BY <2>c, <3>3, <3>4, OneProcess DEF Asking
  <2>3. ASSUME NEW p \in Instances, Windows!NotReady(p) PROVE WindowsInv'
    <3> DEFINE y == [process[p] EXCEPT !.main = "none", !.stop = TRUE]
    <3>1. y \in Windows!Process
      BY <2>b DEF Windows!Process
    <3>2. /\ y.main = "none" /\ y.stop /\ y.exe = process[p].exe /\ y.pid = process[p].pid
          /\ y.runtime = process[p].runtime /\ y.stopped = process[p].stopped
      BY <2>b DEF Windows!Process
    <3>3. process' = [process EXCEPT ![p] = Windows!Exited(p, y)]
      BY <2>3 DEF Windows!NotReady
    <3>4. /\ UNCHANGED <<installed, owner, told, client, incidents>> /\ Windows!Report(p, "stopped")
          /\ process[p].main = "waiting"
      BY <2>3 DEF Windows!NotReady
    <3> HIDE DEF y
    <3>5. CASE y.runtime = "none"
      <4>1. Windows!Exited(p, y) = Windows!NoProcess
        BY <3>2, <3>5 DEF Windows!Exited
      <4> QED BY <2>a, <2>c, <3>2, <3>3, <3>4, <3>5, <4>1
    <3>6. CASE y.runtime # "none"
      <4>1. Windows!Exited(p, y) = y
        BY <3>6 DEF Windows!Exited
      <4> QED BY <2>b, <2>c, <3>1, <3>2, <3>3, <3>4, <3>6, <4>1 DEF Lives
    <3> QED BY <3>5, <3>6
  <2>4. ASSUME NEW p \in Instances, Windows!Stopped(p) PROVE WindowsInv'
    <3> DEFINE y == [process[p] EXCEPT !.main = "none"]
    <3>1. y.main = "none" /\ y.runtime = "none" /\ process[p].runtime = "none"
      BY <2>4, <2>b DEF Windows!Stopped, Windows!Process, Lives
    <3>2. Windows!Exited(p, y) = Windows!NoProcess
      BY <3>1 DEF Windows!Exited
    <3>3. /\ process' = [process EXCEPT ![p] = Windows!NoProcess]
          /\ UNCHANGED <<installed, owner, told, client, incidents>> /\ Windows!Report(p, "stopped")
      BY <2>4, <3>2 DEF Windows!Stopped
    <3> QED BY <2>a, <2>c, <3>1, <3>3
  <2>5. ASSUME NEW p \in Instances, Windows!Listen(p) PROVE WindowsInv'
    <3> DEFINE r == IF owner = Nobody THEN "listening" ELSE "ending"
               x == [process[p] EXCEPT !.runtime = r]
    <3>1. x \in Windows!Process /\ process' = [process EXCEPT ![p] = x]
      BY <2>5, <2>b DEF Windows!Listen, Windows!Process
    <3>2. /\ x.main = process[p].main /\ x.exe = process[p].exe /\ x.pid = process[p].pid /\ x.stop = process[p].stop
          /\ x.runtime = r /\ x.stopped = process[p].stopped
      BY <2>b DEF Windows!Process
    <3>3. process'[p] = x
      BY <3>1
    <3> HIDE DEF x
    <3>4. /\ UNCHANGED <<installed, scm, told, client, incidents>> /\ process[p].runtime = "boot"
          /\ owner' = IF owner = Nobody THEN p ELSE owner
      BY <2>5 DEF Windows!Listen
    <3>5. Lives(p)'
      <4>1. CASE owner = Nobody
        BY <2>b, <3>2, <3>3, <3>4, <4>1 DEF Lives, Serves
      <4>2. CASE owner # Nobody
        BY <2>b, <3>2, <3>3, <3>4, <4>2 DEF Lives, Serves
      <4> QED BY <4>1, <4>2
    <3> QED BY <2>b, <3>1, <3>2, <3>4, <3>5, OneProcess DEF WindowsInv, Asking
  <2>6. ASSUME NEW p \in Instances, Windows!Ready(p) PROVE WindowsInv'
    <3> DEFINE x == [process[p] EXCEPT !.runtime = "serving", !.ready = TRUE]
    <3>1. x \in Windows!Process /\ process' = [process EXCEPT ![p] = x]
      BY <2>6, <2>b DEF Windows!Ready, Windows!Process
    <3>2. /\ x.main = process[p].main /\ x.exe = process[p].exe /\ x.pid = process[p].pid /\ x.stop = process[p].stop
          /\ x.runtime = "serving" /\ x.stopped = process[p].stopped
      BY <2>b DEF Windows!Process
    <3>3. process'[p] = x
      BY <3>1
    <3> HIDE DEF x
    <3>4. UNCHANGED <<installed, scm, owner, told, client, incidents>> /\ process[p].runtime = "listening"
      BY <2>6 DEF Windows!Ready
    <3>5. Lives(p)'
      BY <2>b, <3>2, <3>3, <3>4 DEF Lives, Serves
    <3> QED BY <2>b, <3>1, <3>2, <3>4, <3>5, OneProcess DEF WindowsInv, Asking
  <2>d. ASSUME NEW p \in Instances, process[p].runtime = "serving", Windows!ClosePipe(p),
               UNCHANGED <<installed, scm, told, client>>, incidents' \in 0..MaxIncidents
        PROVE  WindowsInv'
    <3> DEFINE x == [process[p] EXCEPT !.runtime = "ending"]
    <3>1. x \in Windows!Process /\ process' = [process EXCEPT ![p] = x] /\ owner' = Nobody
      BY <2>d, <2>b DEF Windows!ClosePipe, Windows!Process
    <3>2. /\ x.main = process[p].main /\ x.exe = process[p].exe /\ x.pid = process[p].pid /\ x.stop = process[p].stop
          /\ x.runtime = "ending" /\ x.stopped = process[p].stopped
      BY <2>b DEF Windows!Process
    <3>3. process'[p] = x
      BY <3>1
    <3> HIDE DEF x
    <3>4. owner = p
      BY <2>b, <2>d DEF Lives, Serves
    <3>5. Lives(p)'
      BY <2>b, <2>d, <3>1, <3>2, <3>3 DEF Lives, Serves
    <3> QED BY <2>b, <2>d, <3>1, <3>2, <3>4, <3>5, OneProcess DEF WindowsInv, Asking
  <2>7. ASSUME NEW p \in Instances, Windows!Poll(p) PROVE WindowsInv'
    BY <2>7, <2>d DEF Windows!Poll
  <2>8. ASSUME NEW p \in Instances, Windows!CompleteStop(p) PROVE WindowsInv'
    <3> DEFINE y == [process[p] EXCEPT !.runtime = "none", !.stopped = TRUE]
    <3>1. y \in Windows!Process
      BY <2>b DEF Windows!Process
    <3>2. /\ y.main = process[p].main /\ y.exe = process[p].exe /\ y.pid = process[p].pid
          /\ y.runtime = "none" /\ y.stop = process[p].stop
      BY <2>b DEF Windows!Process
    <3>3. /\ process' = [process EXCEPT ![p] = Windows!Exited(p, y)]
          /\ UNCHANGED <<installed, scm, owner, told, client, incidents>> /\ process[p].runtime = "ending"
      BY <2>8 DEF Windows!CompleteStop
    <3> HIDE DEF y
    <3>4. PICK x \in Windows!Process : /\ x = Windows!Exited(p, y)
                                       /\ x.runtime = "none" /\ (x.exe = y.exe \/ x.pid = Nobody)
                                       /\ x.main = y.main /\ (x.main # "none" => x.pid = y.pid)
                                       /\ (x.pid # Nobody => x.pid = y.pid)
      <4>1. CASE y.main = "none"
        BY <2>a, <3>2, <4>1 DEF Windows!Exited
      <4>2. CASE y.main # "none"
        BY <3>1, <3>2, <4>2 DEF Windows!Exited
      <4> QED BY <4>1, <4>2
    <3>5. process' = [process EXCEPT ![p] = x] /\ process'[p] = x
      BY <3>3, <3>4
    <3>6. Lives(p)'
      BY <2>b, <3>2, <3>3, <3>4, <3>5 DEF Lives, Serves
    <3> QED BY <2>b, <3>2, <3>3, <3>4, <3>5, <3>6, OneProcess DEF WindowsInv, Asking
  <2>e. Windows!Event => incidents' \in 0..MaxIncidents
    BY DEF Windows!Event
  <2>9. ASSUME NEW p \in Instances, Windows!Fails(p) PROVE WindowsInv'
    BY <2>9, <2>d, <2>e DEF Windows!Fails
  <2>10. ASSUME NEW p \in Instances, Windows!Killed(p) PROVE WindowsInv'
    <3>1. /\ process' = [process EXCEPT ![p] = Windows!NoProcess] /\ process'[p] = Windows!NoProcess
          /\ owner' = IF owner = p THEN Nobody ELSE owner
          /\ UNCHANGED <<installed, told, client>> /\ incidents' \in 0..MaxIncidents
      BY <2>10, <2>e DEF Windows!Killed
    <3>2. /\ scm.process = p => scm' = [state |-> "stopped", process |-> Nobody]
          /\ scm.process # p => scm' = scm
      BY <2>10 DEF Windows!Killed, Windows!Report
    <3>3. Lives(p)'
      BY <2>a, <3>1 DEF Lives, Serves
    <3>4. /\ scm' \in [state : {"stopped", "start", "running", "stop"}, process : Instances \cup {Nobody}]
          /\ scm'.state = "stopped" <=> scm'.process = Nobody
          /\ \A q \in Instances \ {p} : scm.process = q => scm'.process = q
      BY <3>2 DEF WindowsInv
    <3>5. owner' \in Instances \cup {Nobody} /\ \A q \in Instances \ {p} : owner' = q <=> owner = q
      BY <3>1
    <3> QED BY <2>a, <3>1, <3>3, <3>4, <3>5, OneProcess DEF Asking
  <2>f. ASSUME NEW p \in Windows!Unused, NEW exe \in Releases \cup {Other}, NEW pid \in Pids,
               NEW main \in {"boot", "none"}, Windows!Launched(p, exe, main, pid),
               UNCHANGED <<installed, owner, told>>, Asking, incidents' \in 0..MaxIncidents,
               scm' \in [state : {"stopped", "start", "running", "stop"}, process : Instances \cup {Nobody}],
               scm'.state = "stopped" <=> scm'.process = Nobody,
               \A q \in Instances \ {p} : scm.process = q => scm'.process = q,
               main = "boot" => scm'.process = p
        PROVE  WindowsInv'
    <3> DEFINE x == [Windows!NoProcess EXCEPT !.exe = exe, !.pid = pid, !.main = main, !.runtime = main]
    <3>1. /\ p \in Instances /\ process[p].pid = Nobody
          /\ x \in Windows!Process /\ process' = [process EXCEPT ![p] = x] /\ process'[p] = x
      BY <2>f, <2>a DEF Windows!Launched, Windows!Unused, Windows!Alive, Windows!Process
    <3>2. x.pid = pid /\ x.main = main /\ x.runtime = main /\ ~x.stopped
      BY DEF Windows!NoProcess
    <3> HIDE DEF x
    <3>3. owner # p
      BY <2>b, <3>1 DEF Lives, Serves
    <3>4. Lives(p)'
      BY <2>b, <2>f, <3>1, <3>2, <3>3 DEF Lives, Serves
    <3> QED BY <2>f, <3>1, <3>2, <3>4, OneProcess
  <2>11. ASSUME NEW p \in Instances, Windows!Unrelated(p) PROVE WindowsInv'
    <3>1. /\ p \in Windows!Unused /\ UNCHANGED <<installed, scm, owner, told, client>>
          /\ incidents' \in 0..MaxIncidents
          /\ \E exe \in Releases \cup {Other}, pid \in Pids : Windows!Launched(p, exe, "none", pid)
      BY <2>11, <2>e DEF Windows!Unrelated, Windows!FreePids
    <3> QED BY <2>f, <3>1 DEF WindowsInv, Asking
  <2>12. ASSUME Windows!StopControl PROVE WindowsInv'
    <3> DEFINE p == scm.process
               x == [process[p] EXCEPT !.stop = TRUE]
    <3>1. p \in Instances
      BY <2>12 DEF Windows!StopControl, WindowsInv
    <3>2. x \in Windows!Process /\ process' = [process EXCEPT ![p] = x] /\ process'[p] = x
      BY <2>12, <2>b, <3>1 DEF Windows!StopControl, Windows!Process
    <3>3. /\ x.main = process[p].main /\ x.exe = process[p].exe /\ x.pid = process[p].pid /\ x.stop
          /\ x.runtime = process[p].runtime /\ x.stopped = process[p].stopped
      BY <2>b, <3>1 DEF Windows!Process
    <3>4. /\ UNCHANGED <<installed, owner, told, client>> /\ incidents' \in 0..MaxIncidents
          /\ scm'.state = "stop" /\ scm'.process = p
          /\ scm' \in [state : {"stopped", "start", "running", "stop"}, process : Instances \cup {Nobody}]
      BY <2>12, <2>e DEF Windows!StopControl
    <3> HIDE DEF x
    <3>5. Lives(p)'
      BY <2>b, <3>1, <3>2, <3>3, <3>4 DEF Lives, Serves
    <3> QED BY <2>b, <3>1, <3>2, <3>3, <3>4, <3>5, OneProcess DEF WindowsInv, Asking
  <2>13. ASSUME Windows!Install PROVE WindowsInv'
    BY <2>13, <2>e DEF Windows!Install, WindowsInv, Windows!TypeOK, Lives, Serves, Checked
  <2>g. ASSUME NEW c \in Connections PROVE client[c] \in Windows!Client /\ Checked(c)
    BY DEF WindowsInv
  <2>h. ASSUME NEW c \in Connections, NEW x \in Windows!Client, client' = [client EXCEPT ![c] = x],
               UNCHANGED <<installed, owner, incidents, scm, process, told>>,
               x.at \in {"verify", "handshake", "info", "send"} => x.conn # Nobody,
               x.at \in {"start", "wait"} => ~x.checked,
               x.at = "send" /\ x.method \in Windows!Guarded => x.checked,
               x.checked => x.conn # Nobody /\ (process[x.conn].pid # Nobody => process[x.conn].exe = Mine)
        PROVE  WindowsInv'
    <3>1. client'[c] = x
      BY <2>h
    <3>2. Checked(c)'
      BY <2>h, <3>1 DEF Checked
    <3>3. told' \subseteq {Mine} /\ told' \subseteq Releases \cup {Other}
      BY <2>h DEF WindowsInv, Windows!TypeOK
    <3> QED BY <2>h, <3>2, <3>3, OneCommand
  <2>i. ASSUME NEW x \in Windows!Client
        PROVE  /\ Windows!Retired(x) \in Windows!Client
               /\ Windows!Retired(x).at = "idle" /\ Windows!Retired(x).method = "vault.status"
               /\ Windows!Retired(x).conn = Nobody /\ ~Windows!Retired(x).checked
    BY DEF Windows!Retired, Windows!Client, Windows!Methods
  <2>j. ASSUME NEW c \in Connections, Windows!Fail(c), UNCHANGED <<installed, owner, incidents>>
        PROVE  WindowsInv'
    <3> DEFINE x == Windows!Retired(client[c])
    <3>1. client' = [client EXCEPT ![c] = x] /\ UNCHANGED <<scm, process, told>>
      BY <2>j DEF Windows!Fail
    <3>2. x \in Windows!Client /\ x.at = "idle" /\ ~x.checked
      BY <2>g, <2>i
    <3> HIDE DEF x
    <3> QED BY <2>j, <2>h, <3>1, <3>2
  <2>k. ASSUME NEW c \in Connections, NEW at \in {"handshake", "info", "send"}, Windows!Go(c, at),
               UNCHANGED <<installed, owner, incidents>>,
               client[c].at \in {"verify", "handshake"},
               at = "send" => at = Windows!AfterConnect(client[c])
        PROVE  WindowsInv'
    <3> DEFINE x == [client[c] EXCEPT !.at = at]
    <3>1. client' = [client EXCEPT ![c] = x] /\ UNCHANGED <<scm, process, told>>
      BY <2>k, <2>g DEF Windows!Go
    <3>2. /\ x \in Windows!Client /\ x.at = at /\ x.method = client[c].method /\ x.conn = client[c].conn
          /\ x.checked = client[c].checked
      BY <2>g DEF Windows!Client
    <3> HIDE DEF x
    <3>3. x.at = "send" /\ x.method \in Windows!Guarded => x.checked
      BY <2>k, <2>g, <3>2 DEF Windows!AfterConnect, Windows!Client
    <3> QED BY <2>k, <2>g, <2>h, <3>1, <3>2, <3>3 DEF Checked
  <2>14. ASSUME NEW c \in Connections, Windows!Begin(c) PROVE WindowsInv'
    <3>1. UNCHANGED <<installed, scm, process, owner, told, incidents>>
      BY <2>14 DEF Windows!Begin
    <3>2. PICK m \in Windows!Methods :
            \/ client' = [client EXCEPT ![c] = [Windows!Retired(client[c]) EXCEPT !.at = "start", !.method = m]]
            \/ /\ client[c].conn # Nobody
               /\ LET x == [client[c] EXCEPT !.method = m]
                  IN client' = [client EXCEPT ![c] = [x EXCEPT !.at = Windows!AfterConnect(x)]]
      BY <2>14, <2>g DEF Windows!Begin
    <3>3. CASE client' = [client EXCEPT ![c] = [Windows!Retired(client[c]) EXCEPT !.at = "start", !.method = m]]
      <4> DEFINE r == Windows!Retired(client[c])
                 x == [r EXCEPT !.at = "start", !.method = m]
      <4>1. r \in Windows!Client /\ ~r.checked
        BY <2>g, <2>i
      <4> HIDE DEF r
      <4>2. x \in Windows!Client /\ x.at = "start" /\ ~x.checked
        BY <4>1 DEF Windows!Client
      <4> HIDE DEF x
      <4> QED BY <2>h, <3>1, <3>3, <4>2 DEF x, r
    <3>4. CASE /\ client[c].conn # Nobody
               /\ LET x == [client[c] EXCEPT !.method = m]
                  IN client' = [client EXCEPT ![c] = [x EXCEPT !.at = Windows!AfterConnect(x)]]
      <4> DEFINE y == [client[c] EXCEPT !.method = m]
                 at == Windows!AfterConnect(y)
                 x == [y EXCEPT !.at = at]
      <4>0. client' = [client EXCEPT ![c] = x]
        BY <3>4
      <4>1. /\ y \in Windows!Client /\ y.method = m /\ y.conn = client[c].conn
            /\ y.checked = client[c].checked
        BY <2>g DEF Windows!Client
      <4>2. at \in {"info", "send"} /\ (at = "send" /\ m \in Windows!Guarded => y.checked)
        BY <4>1 DEF Windows!AfterConnect, Windows!Client
      <4> HIDE DEF y, at
      <4>3. /\ x \in Windows!Client /\ x.at = at /\ x.method = m /\ x.conn = client[c].conn
            /\ x.checked = client[c].checked
        BY <4>1, <4>2 DEF Windows!Client
      <4> HIDE DEF x
      <4>4. /\ x.at \in {"verify", "handshake", "info", "send"} => x.conn # Nobody
            /\ x.at = "send" /\ x.method \in Windows!Guarded => x.checked
            /\ x.checked => x.conn # Nobody /\ (process[x.conn].pid # Nobody => process[x.conn].exe = Mine)
        BY <2>g, <3>4, <4>1, <4>2, <4>3 DEF Checked
      <4> QED BY <2>h, <3>1, <4>0, <4>2, <4>3, <4>4
    <3> QED BY <3>2, <3>3, <3>4
  <2>15. ASSUME NEW c \in Connections, Windows!Start(c) PROVE WindowsInv'
    <3> DEFINE x == [client[c] EXCEPT !.at = "wait"]
    <3>1. /\ client' = [client EXCEPT ![c] = x] /\ UNCHANGED <<told, installed, owner, incidents>>
          /\ client[c].at = "start"
      BY <2>15, <2>g DEF Windows!Start
    <3>2. CASE UNCHANGED <<scm, process>>
      <4>1. x \in Windows!Client /\ x.at = "wait" /\ x.checked = client[c].checked
        BY <2>g DEF Windows!Client
      <4> HIDE DEF x
      <4> QED BY <2>g, <2>h, <3>1, <3>2, <4>1 DEF Checked
    <3>3. CASE scm.state = "stopped"
      <4> DEFINE p == Windows!NextUnused
      <4>1. PICK pid \in Pids : /\ Windows!Unused # {}
                                /\ scm' = [state |-> "start", process |-> p]
                                /\ Windows!Launched(p, installed, "boot", pid)
        BY <2>15, <3>3 DEF Windows!Start, Windows!FreePids
      <4>2. p \in Windows!Unused /\ p \in Instances
        BY <4>1 DEF Windows!NextUnused, Windows!Unused
      <4>3. scm.process = Nobody
        BY <3>3 DEF WindowsInv
      <4>4. Asking
        BY <3>1 DEF Asking
      <4>5. installed \in Releases \cup {Other} /\ incidents' \in 0..MaxIncidents
        BY <3>1 DEF WindowsInv, Windows!TypeOK
      <4>6. UNCHANGED <<installed, owner, told>>
        BY <3>1
      <4> HIDE DEF p
      <4>7. /\ scm' \in [state : {"stopped", "start", "running", "stop"}, process : Instances \cup {Nobody}]
            /\ scm'.state = "stopped" <=> scm'.process = Nobody
            /\ \A q \in Instances \ {p} : scm.process = q => scm'.process = q
            /\ scm'.process = p
        BY <4>1, <4>2, <4>3
      <4> QED BY <2>f, <4>1, <4>2, <4>4, <4>5, <4>6, <4>7
    <3> QED BY <2>15, <3>2, <3>3 DEF Windows!Start
  <2>16. ASSUME NEW c \in Connections, Windows!NotStarted(c) PROVE WindowsInv'
    BY <2>16, <2>j DEF Windows!NotStarted
  <2>17. ASSUME NEW c \in Connections, Windows!Open(c) PROVE WindowsInv'
    <3>1. CASE owner = Nobody
      BY <2>17, <2>j, <3>1 DEF Windows!Open
    <3>2. CASE owner # Nobody
      <4> DEFINE x == [client[c] EXCEPT !.at = "verify", !.conn = owner, !.pid = process[owner].pid]
      <4>1. /\ client' = [client EXCEPT ![c] = x] /\ UNCHANGED <<scm, process, told, installed, owner, incidents>>
            /\ client[c].at = "wait"
        BY <2>17, <2>g, <3>2 DEF Windows!Open
      <4>2. process[owner].pid \in Pids \cup {Nobody}
        BY <3>2, <2>b DEF Windows!Process
      <4>3. /\ x \in Windows!Client /\ x.at = "verify" /\ x.conn = owner /\ x.checked = client[c].checked
        BY <2>g, <4>2 DEF Windows!Client
      <4> HIDE DEF x
      <4> QED BY <2>g, <2>h, <3>2, <4>1, <4>3 DEF Checked
    <3> QED BY <3>1, <3>2
  <2>18. ASSUME NEW c \in Connections, Windows!Verify(c) PROVE WindowsInv'
    <3>1. Windows!Go(c, "handshake") \/ Windows!Fail(c)
      BY <2>18 DEF Windows!Verify
    <3> QED BY <2>18, <2>j, <2>k, <3>1 DEF Windows!Verify
  <2>19. ASSUME NEW c \in Connections, Windows!Handshake(c) PROVE WindowsInv'
    <3>1. Windows!Go(c, Windows!AfterConnect(client[c])) \/ Windows!Fail(c)
      BY <2>19 DEF Windows!Handshake
    <3>2. Windows!AfterConnect(client[c]) \in {"info", "send"}
      BY DEF Windows!AfterConnect
    <3> QED BY <2>19, <2>j, <2>k, <3>1, <3>2 DEF Windows!Handshake
  <2>20. ASSUME NEW c \in Connections, Windows!Info(c) PROVE WindowsInv'
    <3>1. CASE Windows!Broken(c) \/ process[client[c].conn].exe # Mine
      BY <2>20, <2>j, <3>1 DEF Windows!Info
    <3>2. CASE ~(Windows!Broken(c) \/ process[client[c].conn].exe # Mine)
      <4> DEFINE x == [client[c] EXCEPT !.at = "send", !.checked = TRUE]
      <4>1. client' = [client EXCEPT ![c] = x] /\ UNCHANGED <<scm, process, told, installed, owner, incidents>>
            /\ client[c].at = "info"
        BY <2>20, <2>g, <3>2 DEF Windows!Info
      <4>2. /\ x \in Windows!Client /\ x.at = "send" /\ x.conn = client[c].conn /\ x.checked
        BY <2>g DEF Windows!Client
      <4> HIDE DEF x
      <4> QED BY <2>g, <2>h, <3>2, <4>1, <4>2 DEF Checked
    <3> QED BY <3>1, <3>2
  <2>21. ASSUME NEW c \in Connections, Windows!Exchange(c) PROVE WindowsInv'
    <3>1. /\ client[c].at = "send" /\ client[c].conn = owner /\ owner \in Instances
          /\ UNCHANGED <<installed, scm, process, owner, incidents>>
      BY <2>21, <2>g DEF Windows!Exchange, Windows!Broken, Checked
    <3>2. process[owner].pid # Nobody /\ process[owner].exe \in Releases \cup {Other}
      BY <2>b, <3>1 DEF Lives, Serves, Windows!Process
    <3>3. client[c].method \in Windows!Guarded => process[owner].exe = Mine
      BY <2>g, <3>1, <3>2 DEF Checked
    <3>4. told' \subseteq {Mine} /\ told' \subseteq Releases \cup {Other}
      BY <2>21, <3>2, <3>3 DEF Windows!Exchange, Windows!Delivered, WindowsInv, Windows!TypeOK
    <3>5. CASE client' = [client EXCEPT ![c] = Windows!Retired(client[c])]
      <4> DEFINE x == Windows!Retired(client[c])
      <4>1. x \in Windows!Client /\ x.at = "idle" /\ ~x.checked
        BY <2>g, <2>i
      <4> HIDE DEF x
      <4>2. client' = [client EXCEPT ![c] = x] /\ client'[c] = x
        BY <3>5 DEF x
      <4>3. Checked(c)'
        BY <4>1, <4>2 DEF Checked
      <4> QED BY <3>1, <3>4, <4>1, <4>2, <4>3, OneCommand
    <3>6. CASE client' = [client EXCEPT ![c] = [client[c] EXCEPT !.at = "idle", !.method = "vault.status"]]
      <4> DEFINE x == [client[c] EXCEPT !.at = "idle", !.method = "vault.status"]
      <4>1. x \in Windows!Client /\ x.at = "idle" /\ x.checked = client[c].checked /\ x.conn = client[c].conn
        BY <2>g DEF Windows!Client, Windows!Methods
      <4> HIDE DEF x
      <4>2. client' = [client EXCEPT ![c] = x] /\ client'[c] = x
        BY <3>6 DEF x
      <4>3. Checked(c)'
        BY <2>g, <3>1, <4>1, <4>2 DEF Checked
      <4> QED BY <3>1, <3>4, <4>1, <4>2, <4>3, OneCommand
    <3>7. \/ client' = [client EXCEPT ![c] = Windows!Retired(client[c])]
          \/ client' = [client EXCEPT ![c] = [client[c] EXCEPT !.at = "idle", !.method = "vault.status"]]
      BY <2>21, <2>g DEF Windows!Exchange
    <3> QED BY <3>5, <3>6, <3>7
  <2>22. ASSUME NEW c \in Connections, Windows!Refused(c) PROVE WindowsInv'
    BY <2>22, <2>j DEF Windows!Refused
  <2>23. CASE UNCHANGED windowsVars
    BY <2>23 DEF windowsVars, WindowsInv, Windows!TypeOK, Lives, Serves, Checked
  <2> QED BY <2>1, <2>2, <2>3, <2>4, <2>5, <2>6, <2>7, <2>8, <2>9, <2>10, <2>11, <2>12, <2>13, <2>14, <2>15,
             <2>16, <2>17, <2>18, <2>19, <2>20, <2>21, <2>22, <2>23 DEF Windows!Next, Windows!Serve
<1> QED BY <1>1, <1>2, PTL DEF Windows!Spec, windowsVars, Windows!vars

-----------------------------------------------------------------------------
(* BrokerIdentity.                                                          *)

\* The broker's files and what it has read of them: the private key is made when
\* there is none, and only ever published.
BrokerKeys ==
  /\ public # Nobody => public = private
  /\ broker.at # "refused"
  /\ broker.at = "generating" => private = Nobody
  /\ broker.at \in {"reread", "checking", "publishing", "listening"} => private # Nobody
  /\ broker.at \in {"checking", "publishing", "listening"} => broker.key = private
  /\ broker.at = "listening" => public # Nobody

\* A command and its connection.  Whoever has the command's pid while it lives is
\* the command, so what the broker read of that pid since is its executable.
Connected(c) ==
  /\ conn[c].at = "idle" => conn[c].pid = Nobody /\ conn[c].peer = "none"
  /\ conn[c].at # "idle" => conn[c].pid # Nobody
  /\ conn[c].at # "refused"
  /\ conn[c].at \in {"challenged", "verified"} => public # Nobody /\ conn[c].key = public
  /\ conn[c].peer = "signed" => private # Nobody /\ conn[c].answer = private
  /\ conn[c].peer = "named" /\ Broker!Alive(c) => conn[c].seen = c
  /\ conn[c].peer \in {"trusted", "signed"} => conn[c].seen = c

BrokerInv ==
  /\ Broker!TypeOK
  /\ BrokerKeys
  /\ \A c \in Terminals : Connected(c)

\* What a step of one command, or of the broker on its connection, has to leave true.
LEMMA OneConnection ==
  ASSUME BrokerInv, NEW c \in Terminals,
         UNCHANGED <<private, public, broker>>,
         conn' \in [Terminals -> Broker!Conn],
         occupant' \in [Pids -> Terminals \cup {"stranger", Nobody}],
         \A d \in Terminals \ {c} : conn'[d] = conn[d],
         \A p \in Pids, d \in Terminals \ {c} : occupant'[p] = d => occupant[p] = d,
         Connected(c)'
  PROVE BrokerInv'
<1> USE DEF BrokerInv
<1>1. Broker!TypeOK'
  BY DEF Broker!TypeOK, Broker!Stranger
<1>2. BrokerKeys'
  BY DEF BrokerKeys
<1>3. ASSUME NEW d \in Terminals \ {c} PROVE Connected(d)'
  <2>1. Broker!Alive(d)' => Broker!Alive(d)
    BY DEF Broker!Alive, Broker!TypeOK, Broker!Conn
  <2> QED BY <2>1 DEF Connected
<1> QED BY <1>1, <1>2, <1>3

\* What a step of the broker on its files has to leave true.
LEMMA OnlyBroker ==
  ASSUME BrokerInv, UNCHANGED <<conn, occupant>>, Broker!TypeOK', BrokerKeys',
         private # Nobody => private' = private,
         public # Nobody => public' = public
  PROVE BrokerInv'
<1>1. ASSUME NEW c \in Terminals PROVE Connected(c)'
  BY DEF BrokerInv, Connected, Broker!Alive
<1> QED BY <1>1 DEF BrokerInv

\* Every step of the broker on its keys, and of a command and the broker on their
\* connection, keeps BrokerInv (broker key files, peer verification).
THEOREM BrokerInvariance == Broker!Spec => []BrokerInv
<1>1. Broker!Init => BrokerInv
  BY BrokerAssumption
  DEF Broker!Init, BrokerInv, BrokerKeys, Connected, Broker!TypeOK, Broker!Off, Broker!Conn, Broker!Stranger,
      Broker!ConstantsAssumption, Broker!Alive
<1>2. BrokerInv /\ [Broker!Next]_brokerVars => BrokerInv'
  <2> SUFFICES ASSUME BrokerInv, [Broker!Next]_brokerVars
               PROVE BrokerInv'
    OBVIOUS
  <2> USE BrokerAssumption DEF Broker!ConstantsAssumption, Broker!Stranger
  <2>a. /\ private \in Keys \cup {Nobody} /\ public \in Keys \cup {Nobody}
        /\ broker \in [at : {"off", "reading", "generating", "reread", "checking", "publishing",
                             "listening", "refused"}, key : Keys \cup {Nobody}]
        /\ occupant \in [Pids -> Terminals \cup {"stranger", Nobody}]
        /\ conn \in [Terminals -> Broker!Conn]
    BY DEF BrokerInv, Broker!TypeOK
  <2>1. ASSUME Broker!Start \/ Broker!ReadPrivate \/ Broker!CheckPublic \/ Broker!Publish
        PROVE BrokerInv'
    <3>1. UNCHANGED <<conn, occupant, private>> /\ (public # Nobody => public' = public)
      BY <2>1 DEF BrokerInv, BrokerKeys, Broker!Start, Broker!ReadPrivate, Broker!CheckPublic, Broker!Publish
    <3>2. BrokerKeys' /\ Broker!TypeOK'
      BY <2>1, <2>a DEF BrokerInv, BrokerKeys, Broker!TypeOK, Broker!Off, Broker!Start, Broker!ReadPrivate,
         Broker!CheckPublic, Broker!Publish
    <3> QED BY <3>1, <3>2, OnlyBroker
  <2>2. ASSUME Broker!Generate PROVE BrokerInv'
    <3>1. UNCHANGED <<conn, occupant, public>> /\ private = Nobody
      BY <2>2 DEF BrokerInv, BrokerKeys, Broker!Generate
    <3>2. BrokerKeys' /\ Broker!TypeOK'
      BY <2>2, <2>a DEF BrokerInv, BrokerKeys, Broker!TypeOK, Broker!Generate
    <3> QED BY <3>1, <3>2, OnlyBroker
  <2>3. ASSUME Broker!Crash PROVE BrokerInv'
    <3>1. /\ broker' = [at |-> "off", key |-> Nobody]
          /\ UNCHANGED <<private, public, occupant>>
      BY <2>3 DEF Broker!Crash, Broker!Off
    <3>2. /\ conn' \in [Terminals -> Broker!Conn]
          /\ \A c \in Terminals :
               \/ conn'[c] = conn[c]
               \/ /\ conn'[c] = [conn[c] EXCEPT !.at = "failed", !.peer = "none"]
                  /\ conn[c].at # "idle"
      <4> DEFINE Cut(c) == [conn[c] EXCEPT !.at = "failed", !.peer = "none"]
      <4>1. PICK queue \in BOOLEAN :
              conn' = [c \in Terminals |->
                IF /\ conn[c].at \in {"waiting", "challenged"}
                   /\ conn[c].peer # "signed"
                   /\ conn[c].peer # "none" \/ ~queue
                THEN Cut(c) ELSE conn[c]]
        BY <2>3 DEF Broker!Crash
      <4>2. ASSUME NEW c \in Terminals PROVE Cut(c) \in Broker!Conn
        <5>1. conn[c] \in Broker!Conn
          BY <2>a
        <5> QED BY <5>1 DEF Broker!Conn
      <4> HIDE DEF Cut
      <4>3. /\ conn' \in [Terminals -> Broker!Conn]
            /\ \A c \in Terminals : conn'[c] = conn[c] \/ (conn'[c] = Cut(c) /\ conn[c].at # "idle")
        BY <4>1, <4>2, <2>a
      <4> QED BY <4>3 DEF Cut
    <3>3. ASSUME NEW c \in Terminals PROVE Connected(c)'
      <4>1. CASE conn'[c] = conn[c]
        BY <3>1, <4>1 DEF BrokerInv, Connected, Broker!Alive
      <4>2. CASE conn'[c] = [conn[c] EXCEPT !.at = "failed", !.peer = "none"] /\ conn[c].at # "idle"
        <5>1. conn'[c].at = "failed" /\ conn'[c].peer = "none" /\ conn'[c].pid = conn[c].pid
          BY <4>2, <2>a DEF Broker!Conn
        <5> QED BY <4>2, <5>1 DEF BrokerInv, Connected
      <4> QED BY <3>2, <4>1, <4>2
    <3>4. BrokerKeys' /\ Broker!TypeOK'
      BY <3>1, <3>2, <2>a DEF BrokerInv, BrokerKeys, Broker!TypeOK
    <3> QED BY <3>3, <3>4 DEF BrokerInv
  <2>4. ASSUME NEW c \in Terminals, NEW p \in Pids, Broker!Connect(c, p) PROVE BrokerInv'
    <3>1. /\ conn' = [conn EXCEPT ![c] = [conn[c] EXCEPT !.at = "waiting", !.pid = p]]
          /\ occupant' = [occupant EXCEPT ![p] = c]
          /\ UNCHANGED <<private, public, broker>>
          /\ conn[c] \in Broker!Conn /\ conn[c].peer = "none"
      BY <2>4, <2>a DEF BrokerInv, Connected, Broker!Connect
    <3>2. /\ conn'[c] = [conn[c] EXCEPT !.at = "waiting", !.pid = p]
          /\ conn'[c] \in Broker!Conn
          /\ conn' \in [Terminals -> Broker!Conn]
          /\ \A d \in Terminals \ {c} : conn'[d] = conn[d]
      BY <3>1, <2>a DEF Broker!Conn
    <3>3. conn'[c].at = "waiting" /\ conn'[c].pid = p /\ conn'[c].peer = "none"
      BY <3>1, <3>2 DEF Broker!Conn
    <3>4. Connected(c)'
      BY <3>3 DEF Connected
    <3> QED BY <3>1, <3>2, <3>4, <2>a, OneConnection
  <2>5. ASSUME NEW c \in Terminals,
               Broker!ReadPublic(c) \/ Broker!CheckAnswer(c) \/ Broker!Accept(c) \/ Broker!ReadPath(c)
               \/ Broker!CheckPeer(c) \/ Broker!Sign(c) \/ Broker!NoChallenge(c)
        PROVE BrokerInv'
    <3>1. UNCHANGED <<private, public, broker, occupant>>
      BY <2>5 DEF Broker!ReadPublic, Broker!CheckAnswer, Broker!Accept, Broker!ReadPath, Broker!CheckPeer,
                  Broker!Sign, Broker!NoChallenge
    <3>2. conn[c] \in Broker!Conn /\ Connected(c)
      BY <2>a DEF BrokerInv
    <3>3. ASSUME NEW x \in Broker!Conn, conn' = [conn EXCEPT ![c] = x], Connected(c)'
          PROVE BrokerInv'
      BY <3>1, <3>3, <2>a, OneConnection
    <3>d. ASSUME Broker!Drop(c), conn[c].at # "idle" PROVE BrokerInv'
      <4> DEFINE x == [conn[c] EXCEPT !.at = "failed", !.peer = "none"]
      <4>1. x \in Broker!Conn /\ conn' = [conn EXCEPT ![c] = x]
        BY <3>2, <3>d DEF Broker!Drop, Broker!Conn
      <4>2. x.at = "failed" /\ x.peer = "none" /\ x.pid = conn[c].pid
        BY <3>2 DEF Broker!Conn
      <4>3. conn'[c] = x
        BY <4>1, <2>a
      <4> HIDE DEF x
      <4>4. Connected(c)'
        BY <3>2, <3>d, <4>2, <4>3 DEF Connected
      <4> QED BY <3>3, <4>1, <4>4
    <3>4. CASE Broker!ReadPublic(c)
      <4> DEFINE x == [conn[c] EXCEPT !.at = IF public = Nobody THEN "failed" ELSE "challenged", !.key = public]
      <4>1. x \in Broker!Conn /\ conn' = [conn EXCEPT ![c] = x]
        BY <3>2, <3>4, <2>a DEF Broker!ReadPublic, Broker!Conn
      <4>2. /\ x.at = IF public = Nobody THEN "failed" ELSE "challenged"
            /\ x.peer = conn[c].peer /\ x.pid = conn[c].pid /\ x.key = public /\ x.seen = conn[c].seen
            /\ x.answer = conn[c].answer
        BY <3>2 DEF Broker!Conn
      <4>3. conn'[c] = x /\ conn[c].at = "waiting"
        BY <4>1, <2>a, <3>4 DEF Broker!ReadPublic
      <4> HIDE DEF x
      <4>4. Connected(c)'
        BY <3>1, <3>2, <4>2, <4>3 DEF Connected, Broker!Alive
      <4> QED BY <3>3, <4>1, <4>4
    <3>5. CASE Broker!CheckAnswer(c)
      <4> DEFINE x == [conn[c] EXCEPT !.at = "verified"]
      <4>1. conn[c].at = "challenged" /\ conn[c].answer = conn[c].key
        BY <3>2, <3>5 DEF Broker!CheckAnswer, Connected, BrokerInv, BrokerKeys
      <4>2. x \in Broker!Conn /\ conn' = [conn EXCEPT ![c] = x]
        BY <3>2, <3>5, <4>1 DEF Broker!CheckAnswer, Broker!Conn
      <4>3. /\ x.at = "verified"
            /\ x.peer = conn[c].peer /\ x.pid = conn[c].pid /\ x.key = conn[c].key /\ x.seen = conn[c].seen
            /\ x.answer = conn[c].answer
        BY <3>2 DEF Broker!Conn
      <4>4. conn'[c] = x
        BY <4>2, <2>a
      <4> HIDE DEF x
      <4>5. Connected(c)'
        BY <3>1, <3>2, <4>1, <4>3, <4>4 DEF Connected, Broker!Alive
      <4> QED BY <3>3, <4>2, <4>5
    <3>6. CASE Broker!Accept(c)
      <4> DEFINE x == [conn[c] EXCEPT !.peer = "accepted"]
      <4>1. x \in Broker!Conn /\ conn' = [conn EXCEPT ![c] = x]
        BY <3>2, <3>6 DEF Broker!Accept, Broker!Conn
      <4>2. x.peer = "accepted" /\ x.at = conn[c].at /\ x.pid = conn[c].pid /\ x.key = conn[c].key
        BY <3>2 DEF Broker!Conn
      <4>3. conn'[c] = x /\ conn[c].at # "idle"
        BY <4>1, <2>a, <3>6 DEF Broker!Accept
      <4> HIDE DEF x
      <4>4. Connected(c)'
        BY <3>1, <3>2, <4>2, <4>3 DEF Connected
      <4> QED BY <3>3, <4>1, <4>4
    <3>7. CASE Broker!ReadPath(c)
      <4>1. conn[c].at \in {"waiting", "challenged"} /\ conn[c].pid \in Pids
        BY <3>2, <3>7 DEF Broker!ReadPath, Broker!Holds, Connected, Broker!Conn
      <4>2. CASE occupant[conn[c].pid] = Nobody
        BY <3>7, <3>d, <4>1, <4>2 DEF Broker!ReadPath
      <4>3. CASE occupant[conn[c].pid] # Nobody
        <5> DEFINE o == occupant[conn[c].pid]
                   x == [conn[c] EXCEPT !.seen = o, !.peer = "named"]
        <5>1. o \in Terminals \cup {"stranger", Nobody}
          BY <2>a, <4>1
        <5>2. conn' = [conn EXCEPT ![c] = x]
          BY <3>7, <4>3, <3>2 DEF Broker!ReadPath
        <5>3. Broker!Alive(c) => o = c
          BY DEF Broker!Alive
        <5> HIDE DEF o
        <5>4. x \in Broker!Conn
          BY <3>2, <5>1 DEF Broker!Conn
        <5>5. x.peer = "named" /\ x.seen = o /\ x.at = conn[c].at /\ x.pid = conn[c].pid /\ x.key = conn[c].key
          BY <3>2 DEF Broker!Conn
        <5>6. conn'[c] = x
          BY <5>2, <2>a
        <5> HIDE DEF x
        <5>7. Connected(c)'
          BY <3>1, <3>2, <4>1, <5>3, <5>5, <5>6 DEF Connected, Broker!Alive
        <5> QED BY <3>3, <5>2, <5>4, <5>7
      <4> QED BY <4>2, <4>3
    <3>8. CASE Broker!CheckPeer(c)
      <4>1. CASE Broker!Alive(c) /\ Broker!ExpectedProgram(conn[c].seen)
        <5> DEFINE x == [conn[c] EXCEPT !.peer = "trusted"]
        <5>1. x \in Broker!Conn /\ conn' = [conn EXCEPT ![c] = x]
          BY <3>2, <3>8, <4>1 DEF Broker!CheckPeer, Broker!Conn
        <5>2. x.peer = "trusted" /\ x.seen = conn[c].seen /\ x.at = conn[c].at /\ x.pid = conn[c].pid
              /\ x.key = conn[c].key
          BY <3>2 DEF Broker!Conn
        <5>3. conn'[c] = x /\ conn[c].at # "idle" /\ conn[c].seen = c
          BY <5>1, <2>a, <3>2, <3>8, <4>1 DEF Broker!CheckPeer, Broker!Holds, Connected
        <5> HIDE DEF x
        <5>4. Connected(c)'
          BY <3>1, <3>2, <5>2, <5>3 DEF Connected
        <5> QED BY <3>3, <5>1, <5>4
      <4>2. CASE ~(Broker!Alive(c) /\ Broker!ExpectedProgram(conn[c].seen))
        BY <3>8, <3>d, <4>2 DEF Broker!CheckPeer, Broker!Holds
      <4> QED BY <4>1, <4>2
    <3>9. CASE Broker!Sign(c)
      <4> DEFINE x == [conn[c] EXCEPT !.peer = "signed", !.answer = broker.key]
      <4>1. broker.key = private /\ private # Nobody /\ conn[c].at = "challenged" /\ conn[c].peer = "trusted"
        BY <3>9 DEF Broker!Sign, Broker!Holds, BrokerInv, BrokerKeys
      <4>2. x \in Broker!Conn /\ conn' = [conn EXCEPT ![c] = x]
        BY <3>2, <3>9, <2>a DEF Broker!Sign, Broker!Conn
      <4>3. x.peer = "signed" /\ x.seen = conn[c].seen /\ x.at = conn[c].at /\ x.pid = conn[c].pid
              /\ x.key = conn[c].key /\ x.answer = broker.key
        BY <3>2 DEF Broker!Conn
      <4>4. conn'[c] = x
        BY <4>2, <2>a
      <4> HIDE DEF x
      <4>5. Connected(c)'
        BY <3>1, <3>2, <4>1, <4>3, <4>4 DEF Connected
      <4> QED BY <3>3, <4>2, <4>5
    <3>10. CASE Broker!NoChallenge(c)
      BY <3>10, <3>d DEF Broker!NoChallenge
    <3> QED BY <2>5, <3>4, <3>5, <3>6, <3>7, <3>8, <3>9, <3>10
  <2>6. ASSUME NEW c \in Terminals, Broker!Exit(c) PROVE BrokerInv'
    <3>1. Connected(c)'
      BY <2>6, <2>a DEF Broker!Exit, BrokerInv, Connected, Broker!Alive, Broker!Conn
    <3> QED BY <2>6, <2>a, <3>1, OneConnection DEF Broker!Exit, Broker!Alive, Broker!Conn
  <2>7. ASSUME NEW p \in Pids, Broker!OtherProgram(p) PROVE BrokerInv'
    <3>1. /\ occupant' \in [Pids -> Terminals \cup {"stranger", Nobody}]
          /\ \A q \in Pids, c \in Terminals : occupant'[q] = c => occupant[q] = c
          /\ UNCHANGED <<private, public, broker, conn>>
      BY <2>7, <2>a DEF Broker!OtherProgram
    <3>2. ASSUME NEW c \in Terminals PROVE Connected(c)'
      <4>1. Broker!Alive(c)' => Broker!Alive(c)
        BY <3>1, <2>a DEF Broker!Alive, Broker!Conn
      <4> QED BY <3>1, <4>1 DEF BrokerInv, Connected
    <3> QED BY <3>1, <3>2, <2>a DEF BrokerInv, BrokerKeys, Broker!TypeOK
  <2>8. CASE UNCHANGED brokerVars
    BY <2>8 DEF brokerVars, BrokerInv, BrokerKeys, Connected, Broker!TypeOK, Broker!Alive
  <2> QED BY <2>1, <2>2, <2>3, <2>4, <2>5, <2>6, <2>7, <2>8 DEF Broker!Next
<1> QED BY <1>1, <1>2, PTL DEF Broker!Spec, brokerVars, Broker!vars

-----------------------------------------------------------------------------
(* ListenerOwner.                                                           *)

\* What the search has found so far: once a process is found, its start time is known,
\* and the program read is that of the process as long as it has the pid.
ListenerInv ==
  /\ Listener!TypeOK
  /\ scan.pid # Nobody => scan.born \in 1..starts
  /\ scan.at \in {"path", "process"} => scan.pid # Nobody
  /\ scan.at = "process" =>
       \A x \in [born : Listener!Processes, listens : BOOLEAN] :
         (listeners[scan.pid] = x /\ x.born = scan.born) => scan.reported = program[scan.born]
  /\ scan.at \in {"name", "found"} => scan.reported = program[scan.born]
  /\ \A p \in Pids : listeners[p] # Nobody => listeners[p].born \in 1..starts

\* Every step of the search for the owner of the socket, and of the processes it looks
\* at meanwhile, keeps ListenerInv (vault_peer_darwin.c).
THEOREM ListenerInvariance == Listener!Spec => []ListenerInv
<1>1. Listener!Init => ListenerInv
  BY ListenerAssumption DEF Listener!Init, ListenerInv, Listener!TypeOK, Listener!Idle, Listener!ConstantsAssumption
<1>2. ListenerInv /\ [Listener!Next]_listenerVars => ListenerInv'
  <2> SUFFICES ASSUME ListenerInv, [Listener!Next]_listenerVars
               PROVE ListenerInv'
    OBVIOUS
  <2> USE ListenerAssumption DEF Listener!ConstantsAssumption, ListenerInv, Listener!TypeOK, Listener!Processes
  <2>1. ASSUME NEW p \in Pids, Listener!Launch(p) PROVE ListenerInv'
    BY <2>1 DEF Listener!Launch
  <2>2. ASSUME NEW p \in Pids, Listener!Bind(p) PROVE ListenerInv'
    <3> DEFINE X == [born : 1..MaxStarts, listens : BOOLEAN]
    <3>1. listeners[p] \in X /\ listeners[p].born \in 1..starts
      BY <2>2 DEF Listener!Bind
    <3>2. listeners' = [listeners EXCEPT ![p] = [listeners[p] EXCEPT !.listens = TRUE]]
      BY <2>2 DEF Listener!Bind
    <3>3. /\ listeners' \in [Pids -> X \cup {Nobody}]
          /\ listeners'[p].born = listeners[p].born
          /\ \A q \in Pids \ {p} : listeners'[q] = listeners[q]
      BY <3>1, <3>2
    <3> QED BY <2>2, <3>1, <3>3 DEF Listener!Bind
  <2>3. ASSUME NEW p \in Pids, Listener!End(p) PROVE ListenerInv'
    BY <2>3 DEF Listener!End
  <2>4. ASSUME Listener!Search PROVE ListenerInv'
    <3>1. CASE Listener!Begin
      <4>1. CASE path = Nobody
        BY <2>4, <3>1, <4>1 DEF Listener!Search, Listener!Begin, Listener!Fail, Listener!Idle
      <4>2. CASE path # Nobody
        <5>1. scan' = [at |-> "pids", before |-> path, left |-> {p \in Pids : listeners[p] # Nobody},
                       pid |-> Nobody, born |-> Nobody, reported |-> Nobody]
          BY <3>1, <4>2 DEF Listener!Begin, Listener!Idle
        <5> QED BY <2>4, <5>1 DEF Listener!Search
      <4> QED BY <4>1, <4>2
    <3>2. CASE Listener!Looked
      BY <2>4, <3>2 DEF Listener!Search, Listener!Looked, Listener!Fail, Listener!Idle
    <3>3. CASE Listener!ReadProgram
      <4>1. CASE listeners[scan.pid] = Nobody
        BY <2>4, <3>3, <4>1 DEF Listener!Search, Listener!ReadProgram, Listener!Fail, Listener!Idle
      <4>2. CASE listeners[scan.pid] # Nobody
        <5>1. /\ scan.at = "path" /\ scan.pid \in Pids /\ scan.born \in 1..starts
              /\ listeners[scan.pid].born \in 1..MaxStarts
              /\ scan' = [scan EXCEPT !.at = "process", !.reported = program[listeners[scan.pid].born]]
          BY <3>3, <4>2 DEF Listener!ReadProgram
        <5>2. program[listeners[scan.pid].born] \in Programs
          BY <5>1
        <5> DEFINE r == program[listeners[scan.pid].born]
        <5> HIDE DEF r
        <5>3. r \in Programs /\ scan' = [scan EXCEPT !.at = "process", !.reported = r]
          BY <5>1, <5>2 DEF r
        <5>4. /\ scan'.at = "process" /\ scan'.reported = r /\ scan'.pid = scan.pid /\ scan'.born = scan.born
              /\ scan'.left = scan.left /\ scan'.before = scan.before
          BY <5>3
        <5>5. Listener!TypeOK'
          BY <2>4, <5>3 DEF Listener!Search
        <5> QED BY <2>4, <5>1, <5>4, <5>5 DEF Listener!Search, r
      <4> QED BY <4>1, <4>2
    <3>4. CASE Listener!SameProcess
      <4>1. CASE listeners[scan.pid] = [born |-> scan.born, listens |-> TRUE]
        <5> DEFINE x == [born |-> scan.born, listens |-> TRUE]
        <5>1. /\ scan.at = "process" /\ scan.pid \in Pids /\ scan.born \in 1..MaxStarts
              /\ scan' = [scan EXCEPT !.at = "name"]
          BY <3>4, <4>1 DEF Listener!SameProcess
        <5>2. x \in [born : 1..MaxStarts, listens : BOOLEAN] /\ x.born = scan.born
          BY <5>1
        <5>3. scan.reported = program[scan.born]
          BY <4>1, <5>1, <5>2
        <5> QED BY <2>4, <5>1, <5>3 DEF Listener!Search
      <4>2. CASE listeners[scan.pid] # [born |-> scan.born, listens |-> TRUE]
        BY <2>4, <3>4, <4>2 DEF Listener!Search, Listener!SameProcess, Listener!Fail, Listener!Idle
      <4> QED BY <4>1, <4>2
    <3>5. CASE Listener!SameName
      BY <2>4, <3>5 DEF Listener!Search, Listener!SameName, Listener!Fail, Listener!Idle
    <3>6. ASSUME NEW p \in Pids, Listener!Look(p) PROVE ListenerInv'
      <4>1. CASE scan' = [scan EXCEPT !.left = @ \ {p}]
        BY <2>4, <3>6, <4>1 DEF Listener!Search, Listener!Look
      <4>2. CASE Listener!Fail
        BY <2>4, <3>6, <4>2 DEF Listener!Search, Listener!Fail, Listener!Idle
      <4>3. CASE /\ listeners[p] # Nobody
                 /\ scan' = [scan EXCEPT !.left = @ \ {p}, !.pid = p, !.born = listeners[p].born]
        <5> DEFINE b == listeners[p].born
        <5>1. b \in 1..MaxStarts /\ b \in 1..starts
          BY <4>3
        <5>2. scan' = [scan EXCEPT !.left = @ \ {p}, !.pid = p, !.born = b] /\ scan.at = "pids"
          BY <3>6, <4>3 DEF Listener!Look
        <5> HIDE DEF b
        <5> QED BY <2>4, <5>1, <5>2 DEF Listener!Search
      <4> QED BY <3>6, <4>1, <4>2, <4>3 DEF Listener!Look
    <3> QED BY <2>4, <3>1, <3>2, <3>3, <3>4, <3>5, <3>6 DEF Listener!Search
  <2>5. CASE UNCHANGED listenerVars
    BY <2>5 DEF listenerVars
  <2> QED BY <2>1, <2>2, <2>3, <2>4, <2>5 DEF Listener!Next
<1> QED BY <1>1, <1>2, PTL DEF Listener!Spec, listenerVars, Listener!vars

-----------------------------------------------------------------------------
(* What the run checks of each part, and of the parts together.             *)

\* "The safe-rebind invariant: revoke fires only after new tokens are durable"
\* (auth/poll.ts), and no tokens the server granted are lost between commands: the
\* stored session is never revoked by a login, granted tokens are stored or somebody
\* still has them, and no record of a login stays that nobody will end.
THEOREM LoginsAreKept == Flows!Spec => []LoginKept
<1>1. FlowsInv => LoginKept
  BY DEF FlowsInv, LoginKept, Flows!SafeRebind
<1> QED BY <1>1, FlowsInvariance, PTL

\* However often the vault is reset beside it, an MCP server acts with no session
\* saved after a reset it was told of, and a login is saved where the next process
\* will look (cli.tsx, assertMcpCredentials; storage.ts, invalidateSessions).
THEOREM SessionsStayApart == Resets!Spec => []SessionsKeptApart
<1>1. ResetsInv => SessionsKeptApart
  <2> SUFFICES ASSUME ResetsInv PROVE SessionsKeptApart
    OBVIOUS
  <2>1. \A p \in Resets!Processes : proc[p] \in Resets!Process /\ Faithful(p, proc[p])
    BY ResetsTypes DEF ResetsInv
  <2>2. Resets!Reconnected
    <3>1. SUFFICES ASSUME NEW p \in Servers, proc[p].at = "use", data[proc[p].handle].session \in secrets, proc[p].told
                   PROVE  \/ era[data[proc[p].handle].session] <= proc[p].since
                          \/ proc[p].checked < era[data[proc[p].handle].session]
      BY DEF Resets!Reconnected
    <3>2. proc[p].checked = proc[p].since /\ proc[p].since \in 0..MaxMarks
      BY <2>1, <3>1, ProcessTypes DEF Faithful, Resets!Processes
    <3>3. era[data[proc[p].handle].session] \in 0..MaxMarks
      <4>1. secrets \subseteq 1..Len(era) /\ era \in Seq(0..MaxMarks)
        BY ResetsTypes DEF ResetsInv, Kept
      <4>2. \A n \in 1..Len(era) : era[n] \in 0..MaxMarks
        BY <4>1, Elements
      <4> QED BY <3>1, <4>1, <4>2
    <3> QED BY <3>2, <3>3
  <2>3. Resets!LoginFound
    BY <2>1, ResetsTypes, ProcessTypes DEF Resets!LoginFound, Faithful, Saving
  <2> QED BY <2>2, <2>3 DEF SessionsKeptApart, Resets!SessionsKeptApart
<1> QED BY <1>1, ResetsInvariance, PTL

\* Whatever other commands do to the vault in between (index.ts, vaultUnlock and
\* vaultRotate), the factor a command reports to open it, or to have replaced
\* another, is the one the header it derived its key for was made with.
THEOREM ReportedFactorsOpen == Unlocks!Spec => []ReportedFactorOpens
<1>1. UnlocksInv => ReportedFactorOpens
  BY DEF UnlocksInv, Right, ReportedFactorOpens, Unlocks!ReportedFactorOpens
<1> QED BY <1>1, UnlocksInvariance, PTL

\* A command on Windows tells its secrets to a service of its own release only, and
\* no service that the service control manager does not know goes on unless it has
\* been told to stop (vault-windows-service.ts, vault_peer_windows.c).
THEOREM OwnServiceIsTold == Windows!Spec => []OwnServiceOnly
<1>1. WindowsInv => OwnServiceOnly
  BY DEF WindowsInv, Lives, OwnServiceOnly, Windows!ToldOwnRelease, Windows!NoOrphan
<1> QED BY <1>1, WindowsInvariance, PTL

\* The Linux broker keeps one identity through every crash and recognises a command
\* by what the system says of its pid while it lives; the search on macOS reports
\* the program of the process it found, and of no other that had its pid.
THEOREM PeersAreKnown == Broker!Spec /\ Listener!Spec => []PeersKnown
<1>1. BrokerInv => Broker!IdentityKept
  BY DEF BrokerInv, BrokerKeys, Connected, Broker!IdentityKept
<1>2. ListenerInv => Listener!OwnerTrue
  BY DEF ListenerInv, Listener!OwnerTrue
<1>3. BrokerInv /\ ListenerInv => PeersKnown
  BY <1>1, <1>2 DEF PeersKnown
<1> QED BY <1>3, BrokerInvariance, ListenerInvariance, PTL

\* Whichever part a behaviour of the checked specification is of, it is a behaviour of
\* every part's own, so all that is proved of them holds of it.
THEOREM PartsAreSafe ==
  PartsSpec => [](/\ AccessKept /\ OwnState /\ LoginKept /\ SessionsKeptApart
                  /\ ReportedFactorOpens /\ OwnServiceOnly /\ PeersKnown)
<1>1. PartsInit => /\ Init /\ Flows!Init /\ Resets!Init /\ Unlocks!Init
                   /\ Windows!Init /\ Broker!Init /\ Listener!Init
  BY DEF PartsInit
<1>2. [PartsNext]_allVars => /\ [Next]_vars /\ [Flows!Next]_(Flows!vars) /\ [Resets!Next]_(Resets!vars)
                             /\ [Unlocks!Next]_(Unlocks!vars) /\ [Windows!Next]_(Windows!vars)
                             /\ [Broker!Next]_(Broker!vars) /\ [Listener!Next]_(Listener!vars)
  <2> SUFFICES ASSUME [PartsNext]_allVars
               PROVE  /\ [Next]_vars /\ [Flows!Next]_(Flows!vars) /\ [Resets!Next]_(Resets!vars)
                      /\ [Unlocks!Next]_(Unlocks!vars) /\ [Windows!Next]_(Windows!vars)
                      /\ [Broker!Next]_(Broker!vars) /\ [Listener!Next]_(Listener!vars)
    OBVIOUS
  <2>1. /\ Next \/ UNCHANGED vars
        /\ Flows!Next \/ UNCHANGED flowVars
        /\ Resets!Next \/ UNCHANGED resetVars
        /\ Unlocks!Next \/ UNCHANGED unlockVars
        /\ Windows!Next \/ UNCHANGED windowsVars
        /\ Broker!Next \/ UNCHANGED brokerVars
        /\ Listener!Next \/ UNCHANGED listenerVars
    BY DEF PartsNext, allVars, peerVars
  <2>2. UNCHANGED flowVars => UNCHANGED Flows!vars
    BY DEF flowVars, Flows!vars, Flows!settings, Flows!server, Flows!bounds, Flows!history
  <2> QED BY <2>1, <2>2
      DEF resetVars, Resets!vars, unlockVars, Unlocks!vars, windowsVars, Windows!vars, brokerVars, Broker!vars,
          listenerVars, Listener!vars
<1>3. PartsSpec => /\ Spec /\ Flows!Spec /\ Resets!Spec /\ Unlocks!Spec /\ Windows!Spec
                   /\ Broker!Spec /\ Listener!Spec
  BY <1>1, <1>2, PTL
  DEF PartsSpec, Spec, Flows!Spec, Resets!Spec, Unlocks!Spec, Windows!Spec, Broker!Spec, Listener!Spec
<1> QED BY <1>3, AccessIsKept, StateIsTheUsers, LoginsAreKept, SessionsStayApart, ReportedFactorsOpen, OwnServiceIsTold,
           PeersAreKnown, PTL
=============================================================================
