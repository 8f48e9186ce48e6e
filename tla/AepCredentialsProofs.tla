-------------------------- MODULE AepCredentialsProofs --------------------------
(***************************************************************************)
(* Proofs about AepCredentials for any processes, users and bounds.        *)
(*                                                                         *)
(* The secrets of a state can be read because a write makes secrets nobody *)
(* else refers to (Private) and a command discards only secrets the stored *)
(* state no longer has (Useless).  That a command keeps to its own user is *)
(* a property of every state it holds in memory (Owned), and that no save  *)
(* is lost compares that state with the one it was made from (Change).     *)
(***************************************************************************)
EXTENDS AepCredentials, FiniteSetTheorems, TLAPS

\* The credentials of a state are issued, and its owner's: `who` is issued, and
\* `stray` says that an identity went to another user.
Owned(s, who, stray) ==
  /\ s.ids \subseteq DOMAIN who
  /\ ~ stray => s.identity \in {None, s.owner} /\ \A i \in s.ids : who[i] = s.owner

\* What a command holds belongs to its user.
Holds(c, who, stray) ==
  /\ Owned(c.view, who, stray)
  /\ c.cred # NoCredential =>
       c.cred \in DOMAIN who /\ (~ stray => who[c.cred] = c.owner)
  /\ ~ stray => c.identity \in {None, c.owner}
  /\ c.at = "present" \/ c.op = "saveCredential" => c.cred # NoCredential
  /\ c.kind = "grant" /\ c.at \in {"status", "sign"} => c.identity # None

\* Who runs a storage operation, and how it goes on.
Runs(c) ==
  /\ c.kind = "none" \/ c.at = "idle" => c = NoCommand
  /\ c.kind \notin {"none", "logout"} => c.owner \in Users /\ c.at # "signout"
  /\ c.kind = "logout" =>
       c.at \in {"signout", "clear", "forget", "discard"} /\ c.then = "return" /\ c.op = "none"
  /\ c.at = "look" => c.op = "identity"
  /\ c.at \in {"delete", "rewrite"} => c.op = "delete" /\ c.then = "return"
  /\ c.at \in {"clear", "forget"} => c.then \in {"create", "return"}
  /\ c.at \in {"clear", "forget"} /\ c.then = "return" => c.op # "usable"
  /\ c.at = "discard" /\ c.then = "return" /\ c.op = "usable" => c.view.owner = c.owner

\* The credentials a command is about to save.
Saved(c) == IF c.op = "saveCredential" THEN {c.cred} ELSE {}

\* A state with credentials names the write of their secrets.
Written(s) == s.ids # {} => s.write # NoWrite

\* What a command is about to write, compared with what it has read; `late` are
\* the expired credentials.
Change(c, late) ==
  /\ c.at \in {"write", "upsert"} =>
       /\ c.view \in State /\ c.view.owner = c.owner
       /\ \/ c.then = "change" /\ c.base = NoState /\ c.view.ids = {}
          \/ c.then = "return" /\ c.view.ids \ late = (c.base.ids \cup Saved(c)) \ late
  /\ c.at \in {"upsert", "rewrite"} => Written(c.view)
  /\ c.at = "rewrite" =>
       /\ c.view \in State /\ c.view.owner = c.owner
       /\ c.view.ids = c.base.ids \ c.sel /\ c.view.write = c.base.write
       /\ c.old = {r \in RefsOf(c.base) : r[2] \in c.sel}

Good(c, who, late, stray) == Holds(c, who, stray) /\ Runs(c) /\ Change(c, late)

GoodInv == \A p \in Procs : Good(cmd[p], issued, expired, strayed)

TypeInv == TypeOK /\ GoodInv

\* A state left behind by a logout is about to be removed.
ClearInv ==
  session = None /\ ~ outlived /\ stored # NoState =>
    \E p \in Procs : cmd[p].kind = "logout" /\ cmd[p].at \in {"clear", "forget"}

\* The secrets a command has made for a state not stored yet are its own.
Private(p) ==
  cmd[p].at = "upsert" /\ cmd[p].view.ids # {} =>
    /\ RefsOf(cmd[p].view) \subseteq vault
    /\ cmd[p].view.write # NoWrite /\ cmd[p].view.write # stored.write
    /\ \A q \in Procs : \A r \in cmd[q].old : r[1] # cmd[p].view.write
    /\ \A q \in Procs : q # p /\ cmd[q].at = "upsert" => cmd[q].view.write # cmd[p].view.write

\* What a command is about to discard is not in use.
Useless(p) == cmd[p].at = "discard" => cmd[p].old \cap RefsOf(stored) = {}

SecretInv ==
  "revoke" \notin overtaken =>
    /\ RefsOf(stored) \subseteq vault
    /\ \A p \in Procs : Private(p) /\ Useless(p)

StateInv ==
  Owned(stored, issued, strayed) /\ Written(stored) /\ ClearInv /\ GrantedKept /\ SecretInv

IInv == TypeInv /\ StateInv

-----------------------------------------------------------------------------
(* Sets of numbers.                                                         *)

\* A set of numbers has a least one, and a bounded one a greatest.
LEMMA Least ==
  ASSUME NEW S \in SUBSET Nat, S # {}
  PROVE  \E m \in S : \A k \in S : m <= k
<1> DEFINE Below(k) == 0..(k - 1)
           R == StrictSubsetOrdering(Nat)
           T == {Below(k) : k \in S}
<1>1. T \subseteq FiniteSubsetsOf(Nat) /\ T # {}
  <2>1. \A k \in S : k \in Int /\ k - 1 \in Int /\ Below(k) \subseteq Nat
    OBVIOUS
  <2>2. \A k \in S : IsFiniteSet(Below(k))
    BY <2>1, FS_Interval
  <2> QED
    BY <2>1, <2>2 DEF FiniteSubsetsOf
<1>2. PICK x \in T : \A y \in T : <<y, x>> \notin R
  <2>1. IsWellFoundedOn(R, FiniteSubsetsOf(Nat))
    BY FS_StrictSubsetOrderingWellFounded
  <2> HIDE DEF R, T
  <2> QED
    BY <1>1, <2>1, WFMin
<1>3. PICK m \in S : x = Below(m)
  BY <1>2
<1>4. ASSUME NEW k \in S, k < m PROVE FALSE
  <2>1. Below(k) \subseteq Below(m) /\ Below(k) # Below(m)
    <3>1. k \in Below(m) /\ k \notin Below(k)
      BY <1>4
    <3> QED
      BY <1>4, <3>1
  <2>2. <<Below(k), Below(m)>> \in R
    BY <2>1 DEF StrictSubsetOrdering
  <2> QED
    BY <1>2, <1>3, <2>2
<1> QED
  BY <1>4

LEMMA Greatest ==
  ASSUME NEW n \in Nat, NEW S \in SUBSET (0..n), S # {}
  PROVE  \E m \in S : \A k \in S : k <= m
<1> DEFINE T == {n - k : k \in S}
<1>1. T \in SUBSET Nat /\ T # {}
  <2>1. \A k \in S : n - k \in Nat
    OBVIOUS
  <2> QED
    BY <2>1
<1>2. PICK t \in T : \A k \in T : t <= k
  BY <1>1, Least
<1>3. PICK m \in S : t = n - m
  BY <1>2
<1>4. \A k \in S : n - m <= n - k
  BY <1>2, <1>3
<1> QED
  BY <1>4

\* The newest of a set of credentials is one of them.
LEMMA NewestIn ==
  ASSUME NEW ids \in SUBSET Ids, ids # {}
  PROVE  Newest(ids) \in ids
<1>1. \E i \in ids : \A j \in ids : j <= i
  <2>1. ids \in SUBSET (0..MaxIssued) /\ MaxIssued \in Nat
    BY BoundsAssumption DEF Ids
  <2> QED
    BY <2>1, Greatest
<1> QED
  BY <1>1 DEF Newest

\* A fresh write is used nowhere.
LEMMA FreshIn ==
  ASSUME (1..MaxWrites) \ UsedWrites # {}
  PROVE  FreshWrite \in (1..MaxWrites) \ UsedWrites
<1> DEFINE S == (1..MaxWrites) \ UsedWrites
<1>1. S \in SUBSET Nat /\ S # {}
  OBVIOUS
<1>2. \E w \in S : \A v \in S : w <= v
  BY <1>1, Least
<1> QED
  BY <1>2 DEF FreshWrite

-----------------------------------------------------------------------------
(* States and commands.                                                     *)

LEMMA NoStateFields ==
  /\ NoState.owner = None /\ NoState.identity = None /\ NoState.ids = {} /\ NoState.write = NoWrite
  /\ NoState \notin State
  /\ \A user : Created(user) = [owner |-> user, identity |-> None, ids |-> {}, write |-> NoWrite]
  /\ \A user \in Users : Created(user) \in State
  BY BoundsAssumption, NoneAssumption DEF NoState, State, Created, NoWrite, Ids

LEMMA NoCommandGood ==
  ASSUME NEW who, NEW late, NEW stray
  PROVE  NoCommand \in Command /\ Good(NoCommand, who, late, stray)
<1>1. NoCommand \in Command
  BY DEF NoCommand, Command, Kinds, Labels, Operations, Continuations, NoCredential
<1>2. /\ NoCommand.kind = "none" /\ NoCommand.at = "idle" /\ NoCommand.op = "none"
      /\ NoCommand.cred = NoCredential /\ NoCommand.identity = None /\ NoCommand.view = NoState
  BY DEF NoCommand
<1> QED
  BY <1>1, <1>2, NoStateFields DEF Good, Holds, Runs, Change, Owned, Written

\* What a command holds stays its user's while credentials are issued and expire.
LEMMA GoodGrows ==
  ASSUME NEW c \in Command, NEW who, NEW who2, NEW late, NEW late2, NEW stray, NEW stray2,
         Good(c, who, late, stray), late \subseteq late2, stray => stray2,
         \A i \in DOMAIN who : i \in DOMAIN who2 /\ who2[i] = who[i]
  PROVE  Good(c, who2, late2, stray2)
<1>1. Holds(c, who2, stray2)
  BY DEF Good, Holds, Owned
<1>2. Change(c, late2)
  BY DEF Good, Change
<1> QED
  BY <1>1, <1>2 DEF Good

\* A command that begins another storage operation.
LEMMA DoGood ==
  ASSUME NEW c \in Command, NEW who, NEW late, NEW stray, NEW op \in Operations \ {"none"},
         Holds(c, who, stray), c.owner \in Users, c.kind \notin {"none", "logout"},
         op = "saveCredential" => c.cred # NoCredential
  PROVE  /\ Do(c, op) \in Command /\ Good(Do(c, op), who, late, stray)
         /\ Do(c, op).old = {} /\ Do(c, op).at \in {"look", "delete", "load"}
         /\ Do(c, op).identity = c.identity /\ Do(c, op).owner = c.owner
         /\ Do(c, op).kind = c.kind
<1> DEFINE at == IF op = "identity" THEN "look" ELSE IF op = "delete" THEN "delete" ELSE "load"
           d == Do(c, op)
<1>1. at \in Labels /\ "return" \in Continuations /\ at \in {"look", "delete", "load"}
  BY DEF Labels, Continuations
<1>2. d = [c EXCEPT !.op = op, !.view = NoState, !.base = NoState, !.old = {}, !.then = "return",
                    !.at = at]
  BY DEF Do
<1>3. d \in Command
  BY <1>1, <1>2 DEF Command
<1>4. /\ d.kind = c.kind /\ d.owner = c.owner /\ d.at = at /\ d.op = op /\ d.then = "return"
      /\ d.view = NoState /\ d.base = NoState /\ d.old = {} /\ d.identity = c.identity
      /\ d.cred = c.cred
  BY <1>2 DEF Command
<1>5. Holds(d, who, stray)
  BY <1>1, <1>4, NoStateFields DEF Holds, Owned
<1>6. Runs(d)
  BY <1>1, <1>4 DEF Runs
<1>7. Change(d, late)
  BY <1>1, <1>4 DEF Change
<1> QED
  BY <1>1, <1>3, <1>4, <1>5, <1>6, <1>7 DEF Good

\* A command between its storage operations.
LEMMA AtGood ==
  ASSUME NEW c \in Command, NEW who, NEW late, NEW stray,
         NEW label \in {"recover", "status", "sign", "revoke", "present"},
         Holds(c, who, stray), c.owner \in Users, c.kind \notin {"none", "logout"},
         label = "present" => c.cred # NoCredential,
         c.kind = "grant" /\ label \in {"status", "sign"} => c.identity # None
  PROVE  /\ At(c, label) \in Command /\ Good(At(c, label), who, late, stray)
         /\ At(c, label).old = {} /\ At(c, label).at = label /\ At(c, label).kind = c.kind
         /\ At(c, label).owner = c.owner /\ At(c, label).identity = c.identity
<1> DEFINE d == At(c, label)
<1>1. label \in Labels /\ "return" \in Continuations /\ "none" \in Operations
  BY DEF Labels, Continuations, Operations
<1>2. d = [c EXCEPT !.at = label, !.op = "none", !.view = NoState, !.base = NoState, !.old = {},
                    !.then = "return"]
  BY DEF At
<1>3. d \in Command
  BY <1>1, <1>2 DEF Command
<1>4. /\ d.kind = c.kind /\ d.owner = c.owner /\ d.at = label /\ d.op = "none" /\ d.then = "return"
      /\ d.view = NoState /\ d.base = NoState /\ d.old = {} /\ d.identity = c.identity
      /\ d.cred = c.cred
  BY <1>2 DEF Command
<1>5. Holds(d, who, stray)
  BY <1>4, NoStateFields DEF Holds, Owned
<1>6. Runs(d)
  BY <1>4 DEF Runs
<1>7. Change(d, late)
  BY <1>4 DEF Change
<1> QED
  BY <1>3, <1>4, <1>5, <1>6, <1>7 DEF Good

\* The labels of a command that holds no state in memory and has nothing to discard.
Plain == {"idle", "look", "delete", "load", "recover", "status", "sign", "revoke", "present"}

\* What comes after a storage operation.
LEMMA ReturnedGood ==
  ASSUME NEW c \in Command, NEW who, NEW late, NEW stray,
         Holds(c, who, stray), c.kind \notin {"none", "logout"} => c.owner \in Users,
         c.kind # "none", c.view.ids \subseteq Ids,
         c.op = "usable" => c.view.owner = c.owner
  PROVE  /\ Returned(c) \in Command /\ Good(Returned(c), who, late, stray)
         /\ Returned(c).old = {} /\ Returned(c).at \in Plain
<1> DEFINE Fine(d) == /\ d \in Command /\ Good(d, who, late, stray) /\ d.old = {} /\ d.at \in Plain
<1>1. Fine(NoCommand)
  BY NoCommandGood DEF NoCommand, Plain
<1>2. ASSUME c.kind \notin {"none", "logout"}, NEW op \in Operations \ {"none", "saveCredential"}
      PROVE  Fine(Do(c, op))
  BY <1>2, DoGood DEF Plain
<1>3. ASSUME c.kind \notin {"none", "logout"}, NEW label \in {"recover", "status", "sign", "revoke"},
             c.kind = "grant" => c.identity # None
      PROVE  Fine(At(c, label))
  BY <1>3, AtGood, SMTT(30) DEF Plain
<1> HIDE DEF Fine
<1>4. CASE c.kind = "enroll"
  <2>1. Fine(Do(c, "identity")) /\ Fine(At(c, "recover")) /\ Fine(At(c, "status"))
    BY <1>2, <1>3, <1>4 DEF Operations
  <2>2. Fine(AfterEnroll(c))
    BY <2>1 DEF AfterEnroll
  <2>3. Returned(c) = AfterEnroll(c)
    BY <1>4 DEF Returned
  <2> QED
    BY <2>2, <2>3 DEF Fine
<1>5. CASE c.kind = "status"
  <2>1. Fine(At(c, "status"))
    BY <1>3, <1>5
  <2>2. Fine(AfterStatus(c))
    BY <1>1, <2>1 DEF AfterStatus
  <2>3. Returned(c) = AfterStatus(c)
    BY <1>5 DEF Returned
  <2> QED
    BY <2>2, <2>3 DEF Fine
<1>6. CASE c.kind = "grant"
  <2>1. Fine(AfterGrant(c))
    BY <1>1, <1>3, <1>6 DEF AfterGrant
  <2>2. Returned(c) = AfterGrant(c)
    BY <1>6 DEF Returned
  <2> QED
    BY <2>1, <2>2 DEF Fine
<1>7. CASE c.kind = "revoke"
  <2>1. Fine(At(c, "sign")) /\ Fine(At(c, "revoke"))
    BY <1>3, <1>7
  <2>2. Fine(AfterRevoke(c))
    BY <1>1, <2>1 DEF AfterRevoke
  <2>3. Returned(c) = AfterRevoke(c)
    BY <1>7 DEF Returned
  <2> QED
    BY <2>2, <2>3 DEF Fine
<1>8. CASE c.kind = "fetch"
  <2> DEFINE newest == Newest(c.view.ids)
             d == [At(c, "present") EXCEPT !.cred = newest]
             e == [c EXCEPT !.cred = newest]
  <2>1. Fine(Do(c, "usable")) /\ Fine(Do(c, "identity")) /\ Fine(At(c, "recover")) /\ Fine(At(c, "sign"))
    BY <1>2, <1>3, <1>8 DEF Operations
  <2>2. ASSUME c.op = "usable", newest # NoCredential PROVE Fine(d)
    <3>1. newest \in c.view.ids
      BY <2>2, NewestIn DEF Newest
    <3>2. e \in Command /\ e.kind = "fetch" /\ e.owner = c.owner /\ e.cred = newest
      BY <1>8, <3>1 DEF Command
    <3>3. Holds(e, who, stray)
      <4>1. e.view = c.view /\ e.identity = c.identity /\ e.at = c.at /\ e.op = c.op
        BY DEF Command
      <4> QED
        BY <1>8, <2>2, <3>1, <3>2, <4>1 DEF Holds, Owned
    <3>4. Fine(At(e, "present"))
      BY <1>8, <2>2, <3>2, <3>3, AtGood DEF Plain, Fine
    <3>5. At(e, "present") = d
      BY DEF At, Command
    <3> QED
      BY <3>4, <3>5
  <2>3. Fine(AfterFetch(c))
    BY <2>1, <2>2 DEF AfterFetch
  <2>4. Returned(c) = AfterFetch(c)
    BY <1>8 DEF Returned
  <2> QED
    BY <2>3, <2>4 DEF Fine
<1>9. CASE c.kind = "logout"
  <2>1. Returned(c) = NoCommand
    BY <1>9 DEF Returned
  <2> QED
    BY <1>1, <2>1 DEF Fine
<1> QED
  BY <1>4, <1>5, <1>6, <1>7, <1>8, <1>9 DEF Command, Kinds

-----------------------------------------------------------------------------
(* What a step of one command leaves to the others.                         *)

\* The type of everything but the commands.
Rest ==
  /\ stored \in State \cup {NoState}
  /\ vault \subseteq Refs
  /\ session \in Users \cup {None}
  /\ issued \in Seq(Users) /\ Len(issued) <= MaxIssued
  /\ expired \subseteq Ids
  /\ overtaken \subseteq {"save", "revoke", "clear"}
  /\ strayed \in BOOLEAN /\ outlived \in BOOLEAN
  /\ kept \subseteq Ids
  /\ commands \in 0..MaxCommands /\ events \in 0..MaxEvents

\* Credentials are issued and expire, and an identity once given astray stays so.
Grows ==
  /\ expired \subseteq expired'
  /\ strayed => strayed'
  /\ \A i \in DOMAIN issued : i \in DOMAIN issued' /\ issued'[i] = issued[i]

LEMMA RestFrom ==
  ASSUME IInv
  PROVE  Rest /\ cmd \in [Procs -> Command] /\ TypeInv /\ StateInv /\ GoodInv
  BY DEF IInv, TypeInv, TypeOK, Rest

LEMMA SameGrows ==
  ASSUME expired' = expired, strayed' = strayed, issued' = issued
  PROVE  Grows
  BY DEF Grows

\* A command becomes another one.
LEMMA BecomeGood ==
  ASSUME IInv, NEW p \in Procs, NEW d \in Command, Become(p, d), Rest', Grows,
         Good(d, issued', expired', strayed')
  PROVE  TypeInv' /\ cmd'[p] = d /\ \A q \in Procs : q # p => cmd'[q] = cmd[q]
<1>1. cmd \in [Procs -> Command] /\ GoodInv
  BY RestFrom
<1>2. cmd' = [cmd EXCEPT ![p] = d]
  BY DEF Become
<1>3. cmd' \in [Procs -> Command] /\ cmd'[p] = d /\ \A q \in Procs : q # p => cmd'[q] = cmd[q]
  BY <1>1, <1>2
<1>4. ASSUME NEW q \in Procs PROVE Good(cmd'[q], issued', expired', strayed')
  <2>1. CASE q = p
    BY <1>3, <2>1
  <2>2. CASE q # p
    <3>1. Good(cmd[q], issued, expired, strayed) /\ cmd[q] \in Command
      BY <1>1 DEF GoodInv
    <3>2. Good(cmd[q], issued', expired', strayed')
      BY <3>1, GoodGrows DEF Grows
    <3> QED
      BY <1>3, <2>2, <3>2
  <2> QED
    BY <2>1, <2>2
<1>5. GoodInv'
  BY <1>4 DEF GoodInv
<1>6. TypeOK'
  BY <1>3 DEF TypeOK, Rest
<1> QED
  BY <1>3, <1>5, <1>6 DEF TypeInv

\* A step that leaves the setting alone keeps the secrets that are in use, if what
\* it removes from the vault is not and the command holds no secrets after it.
LEMMA Removes ==
  ASSUME IInv, NEW p \in Procs, NEW d \in Command, NEW gone, Become(p, d), Rest', Grows,
         Good(d, issued', expired', strayed'), ClearInv',
         stored' = stored, vault' = vault \ gone, expired' = expired,
         overtaken' = overtaken, kept' = kept,
         d.at \notin {"upsert", "discard"}, d.old \subseteq cmd[p].old \cup RefsOf(stored),
         "revoke" \notin overtaken =>
           /\ gone \cap RefsOf(stored) = {}
           /\ \A q \in Procs : q # p /\ Private(q) /\ cmd[q].at = "upsert" /\ cmd[q].view.ids # {} =>
                \A r \in gone : r[1] # cmd[q].view.write
  PROVE  IInv'
<1>1. TypeInv' /\ cmd'[p] = d /\ \A q \in Procs : q # p => cmd'[q] = cmd[q]
  BY BecomeGood
<1>2. StateInv
  BY RestFrom
<1>3. Owned(stored', issued', strayed') /\ Written(stored')
  BY <1>2 DEF StateInv, Owned, Grows
<1>4. GrantedKept'
  BY <1>2 DEF StateInv, GrantedKept
<1>5. SecretInv'
  <2>1. SUFFICES ASSUME "revoke" \notin overtaken
                 PROVE  /\ RefsOf(stored) \subseteq vault'
                        /\ \A q \in Procs : Private(q)' /\ Useless(q)'
    BY DEF SecretInv
  <2>2. RefsOf(stored) \subseteq vault /\ \A q \in Procs : Private(q) /\ Useless(q)
    BY <1>2, <2>1 DEF StateInv, SecretInv
  <2>3. \A q \in Procs : Useless(q)'
    BY <1>1, <2>2 DEF Useless
  <2>4. ASSUME NEW q \in Procs PROVE Private(q)'
    <3>1. SUFFICES ASSUME cmd'[q].at = "upsert", cmd'[q].view.ids # {}
                   PROVE  /\ RefsOf(cmd'[q].view) \subseteq vault'
                          /\ cmd'[q].view.write # NoWrite /\ cmd'[q].view.write # stored.write
                          /\ \A x \in Procs : \A r \in cmd'[x].old : r[1] # cmd'[q].view.write
                          /\ \A x \in Procs : x # q /\ cmd'[x].at = "upsert" =>
                               cmd'[x].view.write # cmd'[q].view.write
      BY DEF Private
    <3>2. q # p /\ cmd'[q] = cmd[q]
      BY <1>1, <3>1
    <3>3. /\ RefsOf(cmd[q].view) \subseteq vault
          /\ cmd[q].view.write # NoWrite /\ cmd[q].view.write # stored.write
          /\ \A x \in Procs : \A r \in cmd[x].old : r[1] # cmd[q].view.write
          /\ \A x \in Procs : x # q /\ cmd[x].at = "upsert" => cmd[x].view.write # cmd[q].view.write
      BY <2>2, <3>1, <3>2 DEF Private
    <3>4. \A r \in RefsOf(stored) : r[1] = stored.write
      BY DEF RefsOf
    <3>5. \A x \in Procs : \A r \in cmd'[x].old : r[1] # cmd[q].view.write
      BY <1>1, <3>3, <3>4
    <3>6. \A r \in RefsOf(cmd[q].view) : r[1] = cmd[q].view.write
      BY DEF RefsOf
    <3>7. RefsOf(cmd[q].view) \subseteq vault'
      BY <2>1, <2>2, <3>1, <3>2, <3>3, <3>6
    <3> QED
      BY <1>1, <3>2, <3>3, <3>5, <3>7
  <2>5. RefsOf(stored) \subseteq vault'
    BY <2>1, <2>2
  <2> QED
    BY <2>3, <2>4, <2>5
<1> QED
  BY <1>1, <1>3, <1>4, <1>5 DEF IInv, StateInv

LEMMA Quiet ==
  ASSUME IInv, NEW p \in Procs, NEW d \in Command, Become(p, d), Rest', Grows,
         Good(d, issued', expired', strayed'), ClearInv',
         stored' = stored, vault' = vault, expired' = expired,
         overtaken' = overtaken, kept' = kept,
         d.at \notin {"upsert", "discard"}, d.old \subseteq cmd[p].old \cup RefsOf(stored)
  PROVE  IInv'
<1>1. vault' = vault \ {}
  OBVIOUS
<1> QED
  BY <1>1, Removes

\* A logout that has yet to clear the state goes on, or was cut short.
LEMMA ClearKept ==
  ASSUME IInv, NEW p \in Procs, NEW d, Become(p, d),
         session' = session, stored' = stored, outlived => outlived',
         \/ cmd[p].kind # "logout" \/ cmd[p].at \notin {"clear", "forget"} \/ outlived'
         \/ d.kind = "logout" /\ d.at \in {"clear", "forget"}
  PROVE  ClearInv'
<1>1. cmd \in [Procs -> Command] /\ ClearInv
  BY RestFrom DEF StateInv
<1>2. cmd'[p] = d /\ \A q \in Procs : q # p => cmd'[q] = cmd[q]
  BY <1>1 DEF Become
<1>3. SUFFICES ASSUME session = None, ~ outlived', stored # NoState
               PROVE  \E q \in Procs : cmd'[q].kind = "logout" /\ cmd'[q].at \in {"clear", "forget"}
  BY DEF ClearInv
<1>4. PICK q \in Procs : cmd[q].kind = "logout" /\ cmd[q].at \in {"clear", "forget"}
  BY <1>1, <1>3 DEF ClearInv
<1>5. cmd'[q].kind = "logout" /\ cmd'[q].at \in {"clear", "forget"}
  BY <1>2, <1>3, <1>4
<1> QED
  BY <1>5

-----------------------------------------------------------------------------
(* The commands between their storage operations.                           *)

LEMMA Here ==
  ASSUME IInv, NEW p \in Procs
  PROVE  /\ cmd[p] \in Command /\ Good(cmd[p], issued, expired, strayed)
         /\ Holds(cmd[p], issued, strayed) /\ Runs(cmd[p]) /\ Change(cmd[p], expired)
  BY RestFrom DEF GoodInv, Good

\* A command at work for a user.
LEMMA Busy ==
  ASSUME IInv, NEW p \in Procs,
         cmd[p].at \notin {"idle", "signout", "clear", "forget", "discard"}
  PROVE  cmd[p].kind \notin {"none", "logout"} /\ cmd[p].owner \in Users
<1>1. cmd[p] \in Command /\ Runs(cmd[p])
  BY Here
<1>2. cmd[p].kind # "none"
  BY <1>1 DEF Runs, NoCommand
<1> QED
  BY <1>1, <1>2 DEF Runs

\* What a step that only moves the command leaves alone.
LEMMA LocalSame ==
  ASSUME IInv, Local
  PROVE  /\ Rest' /\ Grows
         /\ stored' = stored /\ vault' = vault /\ session' = session /\ issued' = issued
         /\ expired' = expired /\ overtaken' = overtaken /\ strayed' = strayed
         /\ outlived' = outlived /\ kept' = kept
<1>1. /\ stored' = stored /\ vault' = vault /\ session' = session /\ issued' = issued
      /\ expired' = expired /\ overtaken' = overtaken /\ strayed' = strayed
      /\ outlived' = outlived /\ kept' = kept /\ commands' = commands /\ events' = events
  BY DEF Local, history, bounds
<1>2. Rest'
  BY <1>1, RestFrom DEF Rest
<1> QED
  BY <1>1, <1>2, SameGrows

\* A command that has no secrets to make or to discard moves.
LEMMA Moves ==
  ASSUME IInv, Local, NEW p \in Procs, NEW d \in Command, Become(p, d),
         Good(d, issued, expired, strayed),
         d.at \notin {"upsert", "discard"}, d.old \subseteq cmd[p].old \cup RefsOf(stored),
         \/ cmd[p].kind # "logout" \/ cmd[p].at \notin {"clear", "forget"}
         \/ d.kind = "logout" /\ d.at \in {"clear", "forget"}
  PROVE  IInv'
<1>1. ClearInv'
  BY LocalSame, ClearKept
<1>2. Good(d, issued', expired', strayed')
  BY LocalSame
<1> QED
  BY <1>1, <1>2, LocalSame, Quiet

\* Beginning a command counts it.
LEMMA Begins ==
  ASSUME IInv, NEW p \in Procs, NEW d \in Command, Become(p, d),
         Good(d, issued, expired, strayed), d.at \notin {"upsert", "discard"}, d.old = {},
         cmd[p].at = "idle", commands < MaxCommands, commands' = commands + 1,
         UNCHANGED <<stored, vault, session, issued, expired, history, events>>
  PROVE  IInv'
<1>1. /\ stored' = stored /\ vault' = vault /\ session' = session /\ issued' = issued
      /\ expired' = expired /\ overtaken' = overtaken /\ strayed' = strayed
      /\ outlived' = outlived /\ kept' = kept /\ events' = events
  BY DEF history
<1>2. Rest'
  <2>1. commands' \in 0..MaxCommands
    BY RestFrom, BoundsAssumption DEF Rest
  <2> QED
    BY <1>1, <2>1, RestFrom DEF Rest
<1>3. ClearInv'
  BY <1>1, ClearKept
<1>4. Grows
  BY <1>1, SameGrows
<1>5. Good(d, issued', expired', strayed')
  BY <1>1
<1> QED
  BY <1>1, <1>2, <1>3, <1>4, <1>5, Quiet

LEMMA BeginStep == ASSUME IInv, NEW p \in Procs, Begin(p) PROVE IInv'
<1>1. PICK kind \in Kinds \ {"logout"} :
        \E sel \in IF kind = "revoke" THEN {Ids} \cup {{i} : i \in DOMAIN issued} ELSE {{}} :
          \E op \in First(kind) :
            Become(p, Do([NoCommand EXCEPT !.kind = kind, !.owner = session, !.sel = sel], op))
  BY DEF Begin
<1>2. PICK sel \in IF kind = "revoke" THEN {Ids} \cup {{i} : i \in DOMAIN issued} ELSE {{}} :
        \E op \in First(kind) :
          Become(p, Do([NoCommand EXCEPT !.kind = kind, !.owner = session, !.sel = sel], op))
  BY <1>1
<1>3. PICK op \in First(kind) :
        Become(p, Do([NoCommand EXCEPT !.kind = kind, !.owner = session, !.sel = sel], op))
  BY <1>2
<1> DEFINE c == [NoCommand EXCEPT !.kind = kind, !.owner = session, !.sel = sel]
<1>4. session \in Users
  BY RestFrom DEF Begin, Rest
<1>5. sel \in SUBSET Ids
  <2>1. DOMAIN issued = 1..Len(issued) /\ Len(issued) \in Nat /\ Len(issued) <= MaxIssued
    BY RestFrom DEF Rest
  <2> QED
    BY <2>1, BoundsAssumption DEF Ids
<1>6. op \in Operations \ {"none", "saveCredential"}
  BY DEF First, Operations
<1>7. /\ c \in Command
      /\ c.kind = kind /\ c.owner = session /\ c.at = "idle" /\ c.op = "none" /\ c.view = NoState
      /\ c.cred = NoCredential /\ c.identity = None
  <2>1. NoCommand \in Command
    BY NoCommandGood
  <2>2. c \in Command /\ c.kind = kind /\ c.owner = session
    BY <1>4, <1>5, <2>1 DEF Command, NoCommand
  <2> QED
    BY <2>2 DEF NoCommand
<1>8. Holds(c, issued, strayed)
  BY <1>7, NoStateFields DEF Holds, Owned
<1>9. kind \notin {"none", "logout"}
  BY DEF Kinds
<1> DEFINE d == Do(c, op)
<1>10. /\ d \in Command /\ Good(d, issued, expired, strayed) /\ d.old = {}
       /\ d.at \in {"look", "delete", "load"}
  BY <1>4, <1>6, <1>7, <1>8, <1>9, DoGood
<1>11. Become(p, d)
  BY <1>3
<1>12. /\ cmd[p].at = "idle" /\ commands < MaxCommands /\ commands' = commands + 1
       /\ UNCHANGED <<stored, vault, session, issued, expired, history, events>>
  BY DEF Begin
<1> HIDE DEF d
<1> QED
  BY <1>10, <1>11, <1>12, Begins

LEMMA BeginLogoutStep == ASSUME IInv, NEW p \in Procs, BeginLogout(p) PROVE IInv'
<1> DEFINE d == [NoCommand EXCEPT !.kind = "logout", !.at = "signout"]
<1>1. NoCommand \in Command
  BY NoCommandGood
<1>2. "logout" \in Kinds /\ "signout" \in Labels
  BY DEF Kinds, Labels
<1>3. d \in Command
  BY <1>1, <1>2 DEF Command
<1>4. /\ d.kind = "logout" /\ d.at = "signout" /\ d.op = "none" /\ d.then = "return" /\ d.old = {}
      /\ d.view = NoState /\ d.cred = NoCredential /\ d.identity = None
  BY DEF NoCommand
<1>5. Good(d, issued, expired, strayed)
  BY <1>4, NoStateFields DEF Good, Holds, Runs, Change, Owned
<1>6. /\ cmd[p].at = "idle" /\ commands < MaxCommands /\ commands' = commands + 1 /\ Become(p, d)
      /\ UNCHANGED <<stored, vault, session, issued, expired, history, events>>
  BY DEF BeginLogout
<1> HIDE DEF d
<1> QED
  BY <1>3, <1>4, <1>5, <1>6, Begins

LEMMA SignoutStep == ASSUME IInv, NEW p \in Procs, Signout(p) PROVE IInv'
<1> DEFINE c == cmd[p]
           d == ToClear(c, "return")
<1>1. c \in Command /\ Holds(c, issued, strayed) /\ Runs(c) /\ c.at = "signout"
  BY Here DEF Signout
<1>2. "clear" \in Labels /\ "return" \in Continuations
  BY DEF Labels, Continuations
<1>3. d \in Command
  BY <1>1, <1>2 DEF Command, ToClear
<1>4. /\ d.kind = c.kind /\ d.owner = c.owner /\ d.at = "clear" /\ d.op = c.op /\ d.then = "return"
      /\ d.old = c.old /\ d.view = c.view /\ d.cred = c.cred /\ d.identity = c.identity
  BY <1>1 DEF ToClear, Command
<1>5. c.kind = "logout" /\ c.op = "none"
  BY <1>1 DEF Runs, NoCommand, Command
<1>6. Good(d, issued, expired, strayed)
  <2>1. Holds(d, issued, strayed)
    BY <1>1, <1>4, <1>5 DEF Holds
  <2>2. Runs(d) /\ Change(d, expired)
    BY <1>4, <1>5 DEF Runs, Change
  <2> QED
    BY <2>1, <2>2 DEF Good
<1>7. /\ stored' = stored /\ vault' = vault /\ issued' = issued /\ expired' = expired
      /\ overtaken' = overtaken /\ strayed' = strayed /\ outlived' = outlived /\ kept' = kept
      /\ commands' = commands /\ events' = events /\ session' = None /\ Become(p, d)
  BY DEF Signout, history, bounds
<1>8. Rest' /\ Grows
  BY <1>7, RestFrom, SameGrows DEF Rest
<1>9. ClearInv'
  <2>1. cmd'[p] = d
    BY <1>7, RestFrom DEF Become
  <2> QED
    BY <1>4, <1>5, <2>1 DEF ClearInv
<1>10. Good(d, issued', expired', strayed')
  BY <1>6, <1>7
<1> HIDE DEF c, d
<1>11. d.at \notin {"upsert", "discard"} /\ d.old \subseteq cmd[p].old \cup RefsOf(stored)
  BY <1>4 DEF c
<1> QED
  BY <1>3, <1>7, <1>8, <1>9, <1>10, <1>11, Quiet

LEMMA RecoverStep == ASSUME IInv, NEW p \in Procs, Recover(p) PROVE IInv'
<1> DEFINE c == cmd[p]
           b == [c EXCEPT !.identity = session]
           d == Do(b, "saveIdentity")
           e == [Do(c, "saveIdentity") EXCEPT !.identity = session]
<1>1. c \in Command /\ Holds(c, issued, strayed) /\ c.at = "recover"
  BY Here DEF Recover
<1>2. c.kind \notin {"none", "logout"} /\ c.owner \in Users
  BY <1>1, Busy
<1>3. session \in Users
  BY RestFrom DEF Recover, Rest
<1>4. /\ stored' = stored /\ vault' = vault /\ session' = session /\ issued' = issued
      /\ expired' = expired /\ overtaken' = overtaken /\ outlived' = outlived /\ kept' = kept
      /\ commands' = commands /\ events' = events
      /\ strayed' = (strayed \/ session # c.owner) /\ Become(p, e)
  BY DEF Recover, bounds
<1>5. Rest'
  <2>1. strayed' \in BOOLEAN
    BY <1>4
  <2> QED
    BY <1>4, <2>1, RestFrom DEF Rest
<1>6. Grows
  BY <1>4 DEF Grows
<1>7. /\ b \in Command /\ b.kind = c.kind /\ b.owner = c.owner /\ b.at = c.at /\ b.op = c.op
      /\ b.view = c.view /\ b.cred = c.cred /\ b.identity = session
  BY <1>1, <1>3 DEF Command
<1>8. Holds(b, issued', strayed')
  BY <1>1, <1>4, <1>7 DEF Holds, Owned
<1>9. /\ d \in Command /\ Good(d, issued', expired', strayed') /\ d.old = {}
      /\ d.at \in {"look", "delete", "load"}
  BY <1>2, <1>7, <1>8, DoGood DEF Operations
<1>10. e = d
  BY <1>1 DEF Do, Command
<1>11. ClearInv'
  BY <1>1, <1>4, ClearKept
<1> HIDE DEF c, b, d, e
<1> QED
  BY <1>4, <1>5, <1>6, <1>9, <1>10, <1>11, Quiet

LEMMA StatusKnownStep == ASSUME IInv, NEW p \in Procs, StatusKnown(p) PROVE IInv'
<1> DEFINE c == cmd[p]
           d == IF c.kind = "status" THEN Do(c, "list") ELSE At(c, "sign")
<1>1. c \in Command /\ Holds(c, issued, strayed) /\ c.at = "status"
  BY Here DEF StatusKnown
<1>2. c.kind \notin {"none", "logout"} /\ c.owner \in Users
  BY <1>1, Busy
<1>3. Local /\ Become(p, d)
  BY DEF StatusKnown
<1>4. d \in Command /\ Good(d, issued, expired, strayed) /\ d.old = {} /\ d.at \in Plain
  <2>1. CASE c.kind = "status"
    BY <1>1, <1>2, <2>1, DoGood DEF Operations, Plain
  <2>2. CASE c.kind # "status"
    <3>1. c.kind = "grant" => c.identity # None
      BY <1>1 DEF Holds
    <3> QED
      BY <1>1, <1>2, <2>2, <3>1, AtGood DEF Plain
  <2> QED
    BY <2>1, <2>2
<1> HIDE DEF d
<1> QED
  BY <1>1, <1>2, <1>3, <1>4, Moves DEF Plain

LEMMA StatusStaleStep == ASSUME IInv, NEW p \in Procs, StatusStale(p) PROVE IInv'
<1> DEFINE c == cmd[p]
           b == [c EXCEPT !.again = TRUE]
           d == At(b, "recover")
           e == [At(c, "recover") EXCEPT !.again = TRUE]
<1>1. c \in Command /\ Holds(c, issued, strayed) /\ c.at = "status"
  BY Here DEF StatusStale
<1>2. c.kind \notin {"none", "logout"} /\ c.owner \in Users
  BY <1>1, Busy
<1>3. Local /\ Become(p, e)
  BY DEF StatusStale
<1>4. /\ b \in Command /\ b.kind = c.kind /\ b.owner = c.owner /\ b.at = c.at /\ b.op = c.op
      /\ b.view = c.view /\ b.cred = c.cred /\ b.identity = c.identity
  BY <1>1 DEF Command
<1>5. Holds(b, issued, strayed)
  BY <1>1, <1>4 DEF Holds
<1>6. d \in Command /\ Good(d, issued, expired, strayed) /\ d.old = {} /\ d.at = "recover"
  BY <1>2, <1>4, <1>5, AtGood
<1>7. e = d
  BY <1>1 DEF At, Command
<1> HIDE DEF b, d, e
<1> QED
  BY <1>2, <1>3, <1>6, <1>7, Moves

LEMMA SignRevokeStep == ASSUME IInv, NEW p \in Procs, SignRevoke(p) PROVE IInv'
<1> DEFINE c == cmd[p]
           d == IF c.sel = Ids THEN At(c, "revoke") ELSE Do(c, "find")
<1>1. c \in Command /\ Holds(c, issued, strayed) /\ c.at = "sign" /\ c.kind = "revoke"
  BY Here DEF SignRevoke
<1>2. c.owner \in Users
  BY <1>1, Busy
<1>3. Local /\ Become(p, d)
  BY DEF SignRevoke
<1>4. d \in Command /\ Good(d, issued, expired, strayed) /\ d.old = {} /\ d.at \in Plain
  <2>1. CASE c.sel = Ids
    BY <1>1, <1>2, <2>1, AtGood DEF Plain
  <2>2. CASE c.sel # Ids
    BY <1>1, <1>2, <2>2, DoGood DEF Plain, Operations
  <2> QED
    BY <2>1, <2>2
<1> HIDE DEF d
<1> QED
  BY <1>1, <1>3, <1>4, Moves DEF Plain

LEMMA RevokeStep == ASSUME IInv, NEW p \in Procs, Revoke(p) PROVE IInv'
<1> DEFINE c == cmd[p]
           d == Do(c, "delete")
<1>1. c \in Command /\ Holds(c, issued, strayed) /\ c.at = "revoke"
  BY Here DEF Revoke
<1>2. c.kind \notin {"none", "logout"} /\ c.owner \in Users
  BY <1>1, Busy
<1>3. Local /\ Become(p, d)
  BY DEF Revoke
<1>4. d \in Command /\ Good(d, issued, expired, strayed) /\ d.old = {} /\ d.at \in Plain
  <2>1. "delete" \in Operations \ {"none"}
    BY DEF Operations
  <2> QED
    BY <1>1, <1>2, <2>1, DoGood DEF Plain
<1> HIDE DEF d
<1> QED
  BY <1>2, <1>3, <1>4, Moves DEF Plain

LEMMA EndStep == ASSUME IInv, NEW p \in Procs, End(p) PROVE IInv'
<1>1. Local /\ Become(p, NoCommand) /\ cmd[p].at \notin {"clear", "forget"}
  BY DEF End
<1>2. NoCommand.at = "idle" /\ NoCommand.old = {}
  BY DEF NoCommand
<1> QED
  BY <1>1, <1>2, NoCommandGood, Moves

\* The credential granted is the user's whose agent asked for it.
LEMMA SignGrantStep == ASSUME IInv, NEW p \in Procs, SignGrant(p) PROVE IInv'
<1> DEFINE c == cmd[p]
           n == Len(issued) + 1
           b == [c EXCEPT !.cred = n]
           d == Do(b, "saveCredential")
           e == [Do(c, "saveCredential") EXCEPT !.cred = n]
<1>1. c \in Command /\ Good(c, issued, expired, strayed) /\ c.at = "sign" /\ c.kind = "grant"
  BY Here DEF SignGrant
<1>2. c.owner \in Users
  BY <1>1, Busy
<1>3. c.identity \in Users
  BY <1>1 DEF Good, Holds, Command
<1>4. /\ stored' = stored /\ vault' = vault /\ session' = session /\ expired' = expired
      /\ overtaken' = overtaken /\ strayed' = strayed /\ outlived' = outlived /\ kept' = kept
      /\ commands' = commands /\ events' = events
      /\ issued' = Append(issued, c.identity) /\ Len(issued) < MaxIssued /\ Become(p, e)
  BY DEF SignGrant, history, bounds
<1>5. issued \in Seq(Users) /\ Len(issued) \in Nat /\ DOMAIN issued = 1..Len(issued)
  BY RestFrom DEF Rest
<1>6. /\ issued' \in Seq(Users) /\ Len(issued') = n /\ DOMAIN issued' = 1..n
      /\ issued'[n] = c.identity /\ \A i \in 1..Len(issued) : issued'[i] = issued[i]
  BY <1>3, <1>4, <1>5
<1>7. Grows
  BY <1>4, <1>5, <1>6 DEF Grows
<1>8. Rest'
  <2>1. Len(issued') <= MaxIssued
    BY <1>4, <1>5, <1>6, BoundsAssumption
  <2> QED
    BY <1>4, <1>6, <2>1, RestFrom DEF Rest
<1>9. n \in Ids /\ n \in DOMAIN issued' /\ n # NoCredential
  BY <1>4, <1>5, <1>6, BoundsAssumption DEF Ids, NoCredential
<1> HIDE DEF n
<1>10. /\ b \in Command /\ b.kind = c.kind /\ b.owner = c.owner /\ b.at = c.at /\ b.op = c.op
       /\ b.view = c.view /\ b.cred = n /\ b.identity = c.identity
  BY <1>1, <1>9 DEF Command
<1>11. Holds(b, issued', strayed')
  <2>1. Holds(c, issued', strayed')
    <3>1. Good(c, issued', expired', strayed')
      BY <1>1, <1>7, GoodGrows DEF Grows
    <3> QED
      BY <3>1 DEF Good
  <2>2. ~ strayed' => issued'[n] = c.owner
    BY <1>3, <1>6, <2>1, NoneAssumption DEF Holds
  <2> QED
    BY <1>9, <1>10, <2>1, <2>2 DEF Holds
<1>12. /\ d \in Command /\ Good(d, issued', expired', strayed') /\ d.old = {}
       /\ d.at \in {"look", "delete", "load"}
  BY <1>1, <1>2, <1>9, <1>10, <1>11, DoGood DEF Operations
<1>13. e = d
  BY <1>1 DEF Do, Command
<1>14. ClearInv'
  BY <1>1, <1>4, ClearKept
<1> HIDE DEF b, d, e
<1> QED
  BY <1>4, <1>7, <1>8, <1>12, <1>13, <1>14, Quiet

-----------------------------------------------------------------------------
(* The storage operations.                                                  *)

\* The state to be made for a user who has none.
LEMMA ToCreateGood ==
  ASSUME NEW c \in Command, NEW who, NEW late, NEW stray,
         Holds(c, who, stray), c.owner \in Users, c.kind \notin {"none", "logout"}
  PROVE  /\ ToCreate(c) \in Command /\ Good(ToCreate(c), who, late, stray)
         /\ ToCreate(c).old = c.old /\ ToCreate(c).at = "write"
<1> DEFINE d == ToCreate(c)
<1>1. "write" \in Labels /\ "change" \in Continuations /\ Created(c.owner) \in State
  BY NoStateFields DEF Labels, Continuations
<1>2. d = [c EXCEPT !.at = "write", !.then = "change", !.base = NoState, !.view = Created(c.owner)]
  BY DEF ToCreate
<1>3. d \in Command
  BY <1>1, <1>2 DEF Command
<1>4. /\ d.kind = c.kind /\ d.owner = c.owner /\ d.at = "write" /\ d.op = c.op /\ d.then = "change"
      /\ d.view = Created(c.owner) /\ d.base = NoState /\ d.old = c.old /\ d.identity = c.identity
      /\ d.cred = c.cred
  BY <1>2 DEF Command
<1>5. /\ Created(c.owner).ids = {} /\ Created(c.owner).owner = c.owner
      /\ Created(c.owner).identity = None
  BY NoStateFields
<1>6. Holds(d, who, stray)
  BY <1>4, <1>5 DEF Holds, Owned
<1>7. Runs(d)
  BY <1>4 DEF Runs
<1>8. Change(d, late)
  BY <1>1, <1>4, <1>5 DEF Change
<1> QED
  BY <1>3, <1>4, <1>6, <1>7, <1>8 DEF Good

\* An operation changes the state it has read, and keeps it its owner's.
LEMMA ToChangeGood ==
  ASSUME NEW c \in Command, NEW stray, NEW s \in State,
         Holds(c, issued, stray), c.owner \in Users, c.kind \notin {"none", "logout"},
         s.owner = c.owner, Owned(s, issued, stray)
  PROVE  /\ ToChange(c, s) \in Command /\ Good(ToChange(c, s), issued, expired, stray)
         /\ ToChange(c, s).old = c.old /\ ToChange(c, s).at = "write"
<1> DEFINE n == Changed(c, s)
           d == ToChange(c, s)
<1>1. "write" \in Labels /\ "return" \in Continuations
  BY DEF Labels, Continuations
<1>2. s.ids \in SUBSET Ids /\ c.cred \in {NoCredential} \cup Ids /\ c.identity \in Users \cup {None}
  BY DEF State, Command
<1>3. /\ n \in State /\ n.owner = s.owner
      /\ n.ids \ expired = (s.ids \cup Saved(c)) \ expired
      /\ n.ids \subseteq s.ids \cup Saved(c)
      /\ n.identity = IF c.op = "saveIdentity" THEN c.identity ELSE s.identity
  <2>1. CASE c.op = "saveCredential"
    <3>1. n = [s EXCEPT !.ids = (@ \ expired) \cup {c.cred}]
      BY <2>1 DEF Changed
    <3>2. c.cred \in Ids
      BY <1>2, <2>1 DEF Holds
    <3>3. (s.ids \ expired) \cup {c.cred} \in SUBSET Ids
      BY <1>2, <3>2
    <3>4. n \in State
      BY <3>1, <3>3 DEF State
    <3>5. n.owner = s.owner /\ n.identity = s.identity /\ n.ids = (s.ids \ expired) \cup {c.cred}
      BY <3>1 DEF State
    <3>6. Saved(c) = {c.cred}
      BY <2>1 DEF Saved
    <3> QED
      BY <2>1, <3>4, <3>5, <3>6
  <2>2. CASE c.op = "saveIdentity"
    <3>1. n = [s EXCEPT !.identity = c.identity] /\ Saved(c) = {}
      BY <2>2 DEF Changed, Saved
    <3>2. n \in State /\ n.owner = s.owner /\ n.identity = c.identity /\ n.ids = s.ids
      BY <1>2, <3>1 DEF State
    <3> QED
      BY <2>2, <3>1, <3>2
  <2>3. CASE c.op = "inspect"
    <3>1. n = s /\ Saved(c) = {}
      BY <2>3 DEF Changed, Saved
    <3> QED
      BY <2>3, <3>1
  <2>4. CASE c.op \notin {"saveCredential", "saveIdentity", "inspect"}
    <3>1. n = [s EXCEPT !.ids = @ \ expired] /\ Saved(c) = {}
      BY <2>4 DEF Changed, Saved
    <3>2. s.ids \ expired \in SUBSET Ids
      BY <1>2
    <3>3. n \in State
      BY <3>1, <3>2 DEF State
    <3>4. n.owner = s.owner /\ n.identity = s.identity /\ n.ids = s.ids \ expired
      BY <3>1 DEF State
    <3> QED
      BY <2>4, <3>1, <3>3, <3>4
  <2> QED
    BY <2>1, <2>2, <2>3, <2>4
<1> HIDE DEF n
<1>4. d = [c EXCEPT !.at = "write", !.then = "return", !.base = s, !.view = n]
  BY DEF ToChange, n
<1>5. d \in Command
  BY <1>1, <1>3, <1>4 DEF Command
<1>6. /\ d.kind = c.kind /\ d.owner = c.owner /\ d.at = "write" /\ d.op = c.op /\ d.then = "return"
      /\ d.view = n /\ d.base = s /\ d.old = c.old /\ d.identity = c.identity
      /\ d.cred = c.cred
  BY <1>4 DEF Command
<1>7. Holds(d, issued, stray)
  <2>1. Owned(n, issued, stray)
    <3>1. /\ Saved(c) \subseteq DOMAIN issued
          /\ ~ stray => \A i \in Saved(c) : issued[i] = c.owner
      BY DEF Saved, Holds
    <3> QED
      BY <1>3, <3>1 DEF Owned, Holds
  <2> QED
    BY <1>6, <2>1 DEF Holds
<1>8. Runs(d)
  BY <1>6 DEF Runs
<1>9. Change(d, expired)
  <2>1. Saved(d) = Saved(c)
    BY <1>6 DEF Saved
  <2> QED
    BY <1>3, <1>6, <2>1 DEF Change
<1> QED
  BY <1>5, <1>6, <1>7, <1>8, <1>9 DEF Good

\* A command that is to clear the state.
LEMMA ToClearGood ==
  ASSUME NEW c \in Command, NEW who, NEW late, NEW stray, NEW then \in {"create", "return"},
         Holds(c, who, stray), c.owner \in Users, c.kind \notin {"none", "logout"},
         then = "return" => c.op # "usable"
  PROVE  /\ ToClear(c, then) \in Command /\ Good(ToClear(c, then), who, late, stray)
         /\ ToClear(c, then).old = c.old /\ ToClear(c, then).at = "clear"
<1> DEFINE d == ToClear(c, then)
<1>1. "clear" \in Labels /\ then \in Continuations
  BY DEF Labels, Continuations
<1>2. d = [c EXCEPT !.at = "clear", !.then = then]
  BY DEF ToClear
<1>3. d \in Command
  BY <1>1, <1>2 DEF Command
<1>4. /\ d.kind = c.kind /\ d.owner = c.owner /\ d.at = "clear" /\ d.op = c.op /\ d.then = then
      /\ d.view = c.view /\ d.old = c.old /\ d.identity = c.identity /\ d.cred = c.cred
  BY <1>2 DEF Command
<1>5. Holds(d, who, stray)
  BY <1>4 DEF Holds
<1>6. Runs(d)
  BY <1>4 DEF Runs
<1>7. Change(d, late)
  BY <1>4 DEF Change
<1> QED
  BY <1>3, <1>4, <1>5, <1>6, <1>7 DEF Good

LEMMA StoredRefs ==
  ASSUME IInv
  PROVE  /\ stored \in State \cup {NoState} /\ RefsOf(stored) \subseteq Refs
         /\ stored.ids \subseteq Ids
         /\ stored.ids # {} => stored \in State
<1>1. stored \in State \cup {NoState} /\ Written(stored)
  BY RestFrom DEF Rest, StateInv
<1>2. stored.ids \subseteq Ids /\ stored.write \in 0..MaxWrites
  BY <1>1, NoStateFields, BoundsAssumption DEF State, NoWrite
<1>3. stored.ids # {} => stored.write \in 1..MaxWrites
  BY <1>1, <1>2, BoundsAssumption DEF Written, NoWrite
<1>4. RefsOf(stored) \subseteq Refs
  BY <1>2, <1>3 DEF RefsOf, Refs
<1> QED
  BY <1>1, <1>2, <1>4, NoStateFields

LEMMA LoadStep == ASSUME IInv, NEW p \in Procs, Load(p) PROVE IInv'
<1> DEFINE c == cmd[p]
           b == [c EXCEPT !.at = "secrets", !.view = stored]
           d == IF stored = NoState THEN ToCreate(c) ELSE b
<1>1. /\ c \in Command /\ Holds(c, issued, strayed) /\ Runs(c) /\ c.at = "load"
      /\ c.kind \notin {"none", "logout"} /\ c.owner \in Users
  BY Here, Busy DEF Load
<1>2. Local /\ Become(p, d)
  BY DEF Load
<1>3. ToCreate(c) \in Command /\ Good(ToCreate(c), issued, expired, strayed)
      /\ ToCreate(c).old = c.old /\ ToCreate(c).at = "write"
  BY <1>1, ToCreateGood
<1>4. b \in Command /\ Good(b, issued, expired, strayed) /\ b.old = c.old /\ b.at = "secrets"
  <2>1. stored \in State \cup {NoState} /\ Owned(stored, issued, strayed)
    BY RestFrom DEF Rest, StateInv
  <2>2. "secrets" \in Labels
    BY DEF Labels
  <2>3. b \in Command
    BY <1>1, <2>1, <2>2 DEF Command
  <2>4. /\ b.kind = c.kind /\ b.owner = c.owner /\ b.at = "secrets" /\ b.op = c.op
        /\ b.then = c.then /\ b.view = stored /\ b.old = c.old /\ b.identity = c.identity
        /\ b.cred = c.cred
    BY <1>1 DEF Command
  <2>5. Holds(b, issued, strayed)
    BY <1>1, <2>1, <2>4 DEF Holds
  <2>6. Runs(b) /\ Change(b, expired)
    BY <1>1, <2>4 DEF Runs, Change
  <2> QED
    BY <2>3, <2>4, <2>5, <2>6 DEF Good
<1>5. /\ d \in Command /\ Good(d, issued, expired, strayed) /\ d.old = c.old
      /\ d.at \notin {"upsert", "discard"}
  BY <1>3, <1>4
<1> HIDE DEF b, d
<1> QED
  BY <1>1, <1>2, <1>5, Moves

LEMMA ReadSecretsStep == ASSUME IInv, NEW p \in Procs, ReadSecrets(p) PROVE IInv'
<1> DEFINE c == cmd[p]
           d == IF ~ RefsOf(c.view) \subseteq vault THEN NoCommand
                ELSE IF SameOwner(c.view, c.owner) THEN ToChange(c, c.view)
                ELSE ToClear(c, "create")
<1>1. /\ c \in Command /\ Holds(c, issued, strayed) /\ c.at = "secrets"
      /\ c.kind \notin {"none", "logout"} /\ c.owner \in Users
  BY Here, Busy DEF ReadSecrets
<1>2. Local /\ Become(p, d)
  BY DEF ReadSecrets
<1> DEFINE Fine(e) == /\ e \in Command /\ Good(e, issued, expired, strayed)
                      /\ e.old \subseteq c.old /\ e.at \notin {"upsert", "discard"}
<1>3. Fine(NoCommand)
  BY NoCommandGood DEF NoCommand
<1>4. ASSUME SameOwner(c.view, c.owner) PROVE Fine(ToChange(c, c.view))
  <2>1. c.view.owner = c.owner
    BY <1>4 DEF SameOwner
  <2>2. c.view \in State
    BY <1>1, <2>1, NoStateFields, NoneAssumption DEF Command
  <2>3. Owned(c.view, issued, strayed)
    BY <1>1 DEF Holds
  <2> QED
    BY <1>1, <2>1, <2>2, <2>3, ToChangeGood
<1>5. Fine(ToClear(c, "create"))
  BY <1>1, ToClearGood
<1> HIDE DEF Fine
<1>6. Fine(d)
  BY <1>3, <1>4, <1>5
<1> HIDE DEF d
<1> QED
  BY <1>1, <1>2, <1>6, Moves DEF Fine

LEMMA ClearReadStep == ASSUME IInv, NEW p \in Procs, ClearRead(p) PROVE IInv'
<1> DEFINE c == cmd[p]
           d == [c EXCEPT !.at = "forget", !.base = stored, !.old = RefsOf(stored)]
<1>1. c \in Command /\ Holds(c, issued, strayed) /\ Runs(c) /\ c.at = "clear"
  BY Here DEF ClearRead
<1>2. Local /\ Become(p, d)
  BY DEF ClearRead
<1>3. stored \in State \cup {NoState} /\ RefsOf(stored) \subseteq Refs
  BY StoredRefs
<1>4. d \in Command
  <2>1. "forget" \in Labels
    BY DEF Labels
  <2> QED
    BY <1>1, <1>3, <2>1 DEF Command
<1>5. /\ d.kind = c.kind /\ d.owner = c.owner /\ d.at = "forget" /\ d.op = c.op
      /\ d.then = c.then /\ d.view = c.view /\ d.old = RefsOf(stored) /\ d.identity = c.identity
      /\ d.cred = c.cred
  BY <1>1 DEF Command
<1>6. Holds(d, issued, strayed)
  BY <1>1, <1>5 DEF Holds
<1>7. Runs(d)
  BY <1>1, <1>5 DEF Runs, NoCommand
<1>8. Change(d, expired)
  BY <1>5 DEF Change
<1>9. Good(d, issued, expired, strayed)
  BY <1>6, <1>7, <1>8 DEF Good
<1> HIDE DEF d
<1> QED
  BY <1>2, <1>4, <1>5, <1>9, Moves

LEMMA FindIdentityStep == ASSUME IInv, NEW p \in Procs, FindIdentity(p) PROVE IInv'
<1> DEFINE c == cmd[p]
           b == [c EXCEPT !.identity = stored.identity]
           d == IF Foreign(c) THEN ToClear(c, "return") ELSE Returned(b)
<1>1. /\ c \in Command /\ Holds(c, issued, strayed) /\ Runs(c) /\ c.at = "look"
      /\ c.kind \notin {"none", "logout"} /\ c.owner \in Users
  BY Here, Busy DEF FindIdentity
<1>2. Local /\ Become(p, d)
  BY DEF FindIdentity
<1>3. c.op = "identity"
  BY <1>1 DEF Runs
<1> DEFINE Fine(e) == /\ e \in Command /\ Good(e, issued, expired, strayed)
                      /\ e.old \subseteq c.old /\ e.at \notin {"upsert", "discard"}
<1>4. Fine(ToClear(c, "return"))
  BY <1>1, <1>3, ToClearGood
<1>5. ASSUME ~ Foreign(c) PROVE Fine(Returned(b))
  <2>1. /\ stored \in State \cup {NoState} /\ Owned(stored, issued, strayed)
    BY RestFrom DEF Rest, StateInv
  <2>2. stored.identity \in Users \cup {None}
    BY <2>1, NoStateFields DEF State
  <2>3. ~ strayed => stored.identity \in {None, c.owner}
    BY <1>5, <2>1, NoStateFields DEF Foreign, SameOwner, Owned
  <2>4. /\ b \in Command /\ b.kind = c.kind /\ b.owner = c.owner /\ b.at = c.at /\ b.op = c.op
        /\ b.view = c.view /\ b.cred = c.cred /\ b.identity = stored.identity
    BY <1>1, <2>2 DEF Command
  <2>5. Holds(b, issued, strayed)
    BY <1>1, <2>3, <2>4 DEF Holds
  <2>6. b.view.ids \subseteq Ids
    BY <2>4, NoStateFields DEF Command, State
  <2>7. /\ Returned(b) \in Command /\ Good(Returned(b), issued, expired, strayed)
        /\ Returned(b).old = {} /\ Returned(b).at \in Plain
    BY <1>1, <1>3, <2>4, <2>5, <2>6, ReturnedGood
  <2> QED
    BY <2>7 DEF Plain
<1> HIDE DEF Fine
<1>6. Fine(d)
  BY <1>4, <1>5
<1> HIDE DEF d
<1> QED
  BY <1>1, <1>2, <1>6, Moves DEF Fine

LEMMA DeleteReadStep == ASSUME IInv, NEW p \in Procs, DeleteRead(p) PROVE IInv'
<1> DEFINE c == cmd[p]
           rest == [stored EXCEPT !.ids = @ \ c.sel]
           old == {r \in RefsOf(stored) : r[2] \in c.sel}
           b == [c EXCEPT !.at = "rewrite", !.base = stored, !.view = rest, !.old = old]
           d == IF Foreign(c) THEN ToClear(c, "return") ELSE IF stored.ids = {} THEN Returned(c) ELSE b
<1>1. /\ c \in Command /\ Holds(c, issued, strayed) /\ Runs(c) /\ c.at = "delete"
      /\ c.kind \notin {"none", "logout"} /\ c.owner \in Users
  BY Here, Busy DEF DeleteRead
<1>2. Local /\ Become(p, d)
  BY DEF DeleteRead
<1>3. c.op = "delete" /\ c.then = "return"
  BY <1>1 DEF Runs
<1> DEFINE Fine(e) == /\ e \in Command /\ Good(e, issued, expired, strayed)
                      /\ e.old \subseteq c.old \cup RefsOf(stored)
                      /\ e.at \notin {"upsert", "discard"}
<1>4. Fine(ToClear(c, "return"))
  BY <1>1, <1>3, ToClearGood
<1>5. Fine(Returned(c))
  <2>1. c.view.ids \subseteq Ids
    BY <1>1, NoStateFields DEF Command, State
  <2>2. /\ Returned(c) \in Command /\ Good(Returned(c), issued, expired, strayed)
        /\ Returned(c).old = {} /\ Returned(c).at \in Plain
    BY <1>1, <1>3, <2>1, ReturnedGood
  <2> QED
    BY <2>2 DEF Plain
<1>6. ASSUME ~ Foreign(c), stored.ids # {} PROVE Fine(b)
  <2>1. stored \in State /\ stored.ids \subseteq Ids /\ RefsOf(stored) \subseteq Refs
    BY <1>6, StoredRefs
  <2>2. stored.owner = c.owner
    BY <1>6, <2>1, NoStateFields DEF Foreign, SameOwner
  <2>3. Owned(stored, issued, strayed) /\ Written(stored)
    BY RestFrom DEF StateInv
  <2>4. stored.ids \ c.sel \in SUBSET Ids
    BY <2>1
  <2>5. /\ rest \in State /\ rest.owner = stored.owner /\ rest.identity = stored.identity
        /\ rest.ids = stored.ids \ c.sel /\ rest.write = stored.write
    BY <2>1, <2>4 DEF State
  <2> HIDE DEF rest
  <2>6. old \in SUBSET Refs
    BY <2>1
  <2> HIDE DEF old
  <2>7. "rewrite" \in Labels
    BY DEF Labels
  <2>8. b \in Command
    BY <1>1, <2>1, <2>5, <2>6, <2>7 DEF Command
  <2>9. /\ b.kind = c.kind /\ b.owner = c.owner /\ b.at = "rewrite" /\ b.op = c.op
        /\ b.then = c.then /\ b.view = rest /\ b.base = stored /\ b.old = old
        /\ b.identity = c.identity /\ b.cred = c.cred /\ b.sel = c.sel
    BY <1>1 DEF Command
  <2>10. Owned(rest, issued, strayed) /\ Written(rest)
    BY <2>3, <2>5 DEF Owned, Written
  <2>11. Holds(b, issued, strayed)
    BY <1>1, <2>9, <2>10 DEF Holds
  <2>12. Runs(b)
    BY <1>1, <1>3, <2>9 DEF Runs
  <2>13. Change(b, expired)
    BY <2>2, <2>5, <2>9, <2>10 DEF Change, old
  <2>14. old \subseteq RefsOf(stored)
    BY DEF old
  <2> QED
    BY <2>8, <2>9, <2>11, <2>12, <2>13, <2>14 DEF Good
<1> HIDE DEF Fine
<1>7. Fine(d)
  BY <1>4, <1>5, <1>6
<1> HIDE DEF d
<1> QED
  BY <1>1, <1>2, <1>7, Moves DEF Fine

LEMMA CrashStep == ASSUME IInv, NEW p \in Procs, Crash(p) PROVE IInv'
<1>1. /\ stored' = stored /\ vault' = vault /\ session' = session /\ issued' = issued
      /\ expired' = expired /\ overtaken' = overtaken /\ strayed' = strayed /\ kept' = kept
      /\ commands' = commands /\ events < MaxEvents /\ events' = events + 1
      /\ outlived' = (outlived \/ cmd[p].kind = "logout") /\ Become(p, NoCommand)
  BY DEF Crash
<1>2. Rest'
  <2>1. events' \in 0..MaxEvents
    BY <1>1, RestFrom, BoundsAssumption DEF Rest
  <2>2. outlived' \in BOOLEAN
    BY <1>1
  <2> QED
    BY <1>1, <2>1, <2>2, RestFrom DEF Rest
<1>3. Grows
  BY <1>1, SameGrows
<1>4. ClearInv'
  BY <1>1, ClearKept
<1>5. NoCommand.at = "idle" /\ NoCommand.old = {}
  BY DEF NoCommand
<1> QED
  BY <1>1, <1>2, <1>3, <1>4, <1>5, NoCommandGood, Quiet

LEMMA LoginStep == ASSUME IInv, NEW user \in Users, Login(user) PROVE IInv'
<1>1. /\ stored' = stored /\ vault' = vault /\ session' = user /\ issued' = issued
      /\ expired' = expired /\ overtaken' = overtaken /\ strayed' = strayed /\ kept' = kept
      /\ outlived' = outlived /\ commands' = commands /\ cmd' = cmd
      /\ events < MaxEvents /\ events' = events + 1
  BY DEF Login, history
<1>2. events' \in 0..MaxEvents
  BY <1>1, RestFrom, BoundsAssumption DEF Rest
<1>3. TypeOK'
  BY <1>1, <1>2, RestFrom DEF TypeOK, Rest
<1>4. GoodInv'
  BY <1>1, RestFrom DEF GoodInv
<1>5. Owned(stored, issued, strayed)' /\ Written(stored)' /\ GrantedKept'
  BY <1>1, RestFrom DEF StateInv, GrantedKept
<1>6. SecretInv'
  <2>1. SecretInv
    BY RestFrom DEF StateInv
  <2> QED
    BY <1>1, <2>1 DEF SecretInv, Private, Useless
<1>7. ClearInv'
  BY <1>1, NoneAssumption DEF ClearInv
<1> QED
  BY <1>3, <1>4, <1>5, <1>6, <1>7 DEF IInv, TypeInv, StateInv

LEMMA ExpireStep == ASSUME IInv, NEW i \in Ids, Expire(i) PROVE IInv'
<1>1. /\ stored' = stored /\ vault' = vault /\ session' = session /\ issued' = issued
      /\ expired' = expired \cup {i} /\ overtaken' = overtaken /\ strayed' = strayed
      /\ kept' = kept /\ outlived' = outlived /\ commands' = commands /\ events' = events
      /\ cmd' = cmd
  BY DEF Expire, history, bounds
<1>2. TypeOK'
  BY <1>1, RestFrom DEF TypeOK, Rest
<1>3. GoodInv'
  <2>1. ASSUME NEW q \in Procs PROVE Good(cmd[q], issued, expired', strayed)
    <3>1. cmd[q] \in Command /\ Good(cmd[q], issued, expired, strayed) /\ expired \subseteq expired'
      BY <1>1, Here
    <3> QED
      BY <3>1, GoodGrows
  <2> QED
    BY <1>1, <2>1 DEF GoodInv
<1>4. Owned(stored, issued, strayed)' /\ Written(stored)' /\ GrantedKept'
  BY <1>1, RestFrom DEF StateInv, GrantedKept
<1>5. SecretInv'
  <2>1. SecretInv
    BY RestFrom DEF StateInv
  <2> QED
    BY <1>1, <2>1 DEF SecretInv, Private, Useless
<1>6. ClearInv'
  BY <1>1, RestFrom DEF StateInv, ClearInv
<1> QED
  BY <1>2, <1>3, <1>4, <1>5, <1>6 DEF IInv, TypeInv, StateInv

-----------------------------------------------------------------------------
(* The steps that write or remove secrets and the setting.                  *)

LEMMA PrepareStep == ASSUME IInv, NEW p \in Procs, Prepare(p) PROVE IInv'
<1> DEFINE c == cmd[p]
           w == IF c.view.ids = {} THEN NoWrite ELSE FreshWrite
           new == [c.view EXCEPT !.write = w]
           d == [c EXCEPT !.at = "upsert", !.view = new, !.old = RefsOf(stored)]
<1>1. /\ c \in Command /\ Holds(c, issued, strayed) /\ Runs(c) /\ Change(c, expired)
      /\ c.at = "write" /\ c.kind \notin {"none", "logout"} /\ c.owner \in Users
  BY Here, Busy DEF Prepare
<1>2. /\ stored' = stored /\ vault' = vault \cup RefsOf(new) /\ session' = session
      /\ issued' = issued /\ expired' = expired /\ overtaken' = overtaken /\ strayed' = strayed
      /\ outlived' = outlived /\ kept' = kept /\ commands' = commands /\ events' = events
      /\ Become(p, d)
  BY DEF Prepare, history, bounds
<1>3. c.view.ids # {} => w \in (1..MaxWrites) \ UsedWrites
  BY FreshIn DEF Prepare
<1>4. w \in 0..MaxWrites
  BY <1>3, BoundsAssumption DEF NoWrite
<1>5. c.view \in State /\ c.view.owner = c.owner
  BY <1>1 DEF Change
<1> HIDE DEF w
<1>6. /\ new \in State /\ new.owner = c.view.owner /\ new.identity = c.view.identity
      /\ new.ids = c.view.ids /\ new.write = w
  BY <1>4, <1>5 DEF State
<1> HIDE DEF new
<1>7. Written(new) /\ RefsOf(new) \subseteq Refs
  <2>1. new.ids # {} => w \in 1..MaxWrites /\ w # NoWrite
    BY <1>3, <1>6, BoundsAssumption DEF NoWrite
  <2>2. new.ids \subseteq Ids
    BY <1>6 DEF State
  <2> QED
    BY <1>6, <2>1, <2>2 DEF Written, RefsOf, Refs
<1>8. "upsert" \in Labels /\ RefsOf(stored) \subseteq Refs
  BY StoredRefs DEF Labels
<1>9. d \in Command
  BY <1>1, <1>6, <1>8 DEF Command
<1>10. /\ d.kind = c.kind /\ d.owner = c.owner /\ d.at = "upsert" /\ d.op = c.op
       /\ d.then = c.then /\ d.view = new /\ d.base = c.base /\ d.old = RefsOf(stored)
       /\ d.identity = c.identity /\ d.cred = c.cred
  BY <1>1 DEF Command
<1>11. Good(d, issued, expired, strayed)
  <2>1. Holds(d, issued, strayed)
    BY <1>1, <1>6, <1>10 DEF Holds, Owned
  <2>2. Runs(d)
    BY <1>1, <1>10 DEF Runs
  <2>3. Saved(d) = Saved(c)
    BY <1>10 DEF Saved
  <2>4. Change(d, expired)
    BY <1>1, <1>6, <1>7, <1>10, <2>3 DEF Change
  <2> QED
    BY <2>1, <2>2, <2>4 DEF Good
<1> HIDE DEF c, d
<1>12. Rest'
  BY <1>2, <1>7, RestFrom DEF Rest
<1>13. Grows
  BY <1>2, SameGrows
<1>14. TypeInv' /\ cmd'[p] = d /\ \A q \in Procs : q # p => cmd'[q] = cmd[q]
  <2>1. Good(d, issued', expired', strayed')
    BY <1>2, <1>11
  <2> QED
    BY <1>2, <1>9, <1>12, <1>13, <2>1, BecomeGood
<1>15. ClearInv'
  BY <1>1, <1>2, ClearKept DEF c
<1>16. Owned(stored', issued', strayed') /\ Written(stored') /\ GrantedKept'
  BY <1>2, RestFrom DEF StateInv, GrantedKept
<1>17. SecretInv'
  <2>1. SUFFICES ASSUME "revoke" \notin overtaken
                 PROVE  /\ RefsOf(stored) \subseteq vault'
                        /\ \A q \in Procs : Private(q)' /\ Useless(q)'
    BY <1>2 DEF SecretInv
  <2>2. RefsOf(stored) \subseteq vault /\ \A q \in Procs : Private(q) /\ Useless(q)
    BY <2>1, RestFrom DEF StateInv, SecretInv
  <2>3. ASSUME new.ids # {}
        PROVE  /\ w # NoWrite /\ w # stored.write
               /\ \A q \in Procs : w # cmd[q].view.write /\ \A r \in cmd[q].old : r[1] # w
    <3>1. w \notin UsedWrites /\ w # NoWrite
      BY <1>3, <1>6, <2>3 DEF NoWrite
    <3> QED
      BY <3>1 DEF UsedWrites
  <2>4. \A r \in RefsOf(stored) : r[1] = stored.write
    BY DEF RefsOf
  <2>5. Private(p)'
    <3>1. SUFFICES ASSUME new.ids # {}
                   PROVE  /\ RefsOf(new) \subseteq vault'
                          /\ w # NoWrite /\ w # stored'.write
                          /\ \A x \in Procs : \A r \in cmd'[x].old : r[1] # w
                          /\ \A x \in Procs : x # p /\ cmd'[x].at = "upsert" => cmd'[x].view.write # w
      BY <1>6, <1>10, <1>14 DEF Private
    <3>2. \A x \in Procs : \A r \in cmd'[x].old : r[1] # w
      BY <1>10, <1>14, <2>3, <2>4, <3>1
    <3> QED
      BY <1>2, <1>14, <2>3, <3>1, <3>2
  <2>6. ASSUME NEW q \in Procs, q # p PROVE Private(q)'
    <3>1. cmd'[q] = cmd[q]
      BY <1>14, <2>6
    <3>2. SUFFICES ASSUME cmd[q].at = "upsert", cmd[q].view.ids # {}
                   PROVE  /\ RefsOf(cmd[q].view) \subseteq vault'
                          /\ cmd[q].view.write # NoWrite /\ cmd[q].view.write # stored'.write
                          /\ \A x \in Procs : \A r \in cmd'[x].old : r[1] # cmd[q].view.write
                          /\ \A x \in Procs : x # q /\ cmd'[x].at = "upsert" =>
                               cmd'[x].view.write # cmd[q].view.write
      BY <3>1 DEF Private
    <3>3. /\ RefsOf(cmd[q].view) \subseteq vault
          /\ cmd[q].view.write # NoWrite /\ cmd[q].view.write # stored.write
          /\ \A x \in Procs : \A r \in cmd[x].old : r[1] # cmd[q].view.write
          /\ \A x \in Procs : x # q /\ cmd[x].at = "upsert" => cmd[x].view.write # cmd[q].view.write
      BY <2>2, <3>2 DEF Private
    <3>4. \A x \in Procs : \A r \in cmd'[x].old : r[1] # cmd[q].view.write
      BY <1>10, <1>14, <2>4, <3>3
    <3>5. w # cmd[q].view.write
      <4>1. CASE new.ids = {}
        BY <1>6, <3>3, <4>1 DEF w, c
      <4>2. CASE new.ids # {}
        BY <2>3, <4>2
      <4> QED
        BY <4>1, <4>2
    <3>6. \A x \in Procs : x # q /\ cmd'[x].at = "upsert" => cmd'[x].view.write # cmd[q].view.write
      BY <1>6, <1>10, <1>14, <3>3, <3>5
    <3> QED
      BY <1>2, <3>3, <3>4, <3>6
  <2>7. \A q \in Procs : Useless(q)'
    BY <1>2, <1>10, <1>14, <2>2 DEF Useless
  <2> QED
    BY <1>2, <2>2, <2>5, <2>6, <2>7
<1> QED
  BY <1>14, <1>15, <1>16, <1>17 DEF IInv, StateInv

LEMMA AbandonStep == ASSUME IInv, NEW p \in Procs, Abandon(p) PROVE IInv'
<1> DEFINE c == cmd[p]
<1>1. /\ Change(c, expired) /\ c.at = "upsert" /\ c.kind \notin {"none", "logout"}
  BY Here, Busy DEF Abandon
<1>2. /\ stored' = stored /\ vault' = vault \ RefsOf(c.view) /\ session' = session
      /\ issued' = issued /\ expired' = expired /\ overtaken' = overtaken /\ strayed' = strayed
      /\ outlived' = outlived /\ kept' = kept /\ commands' = commands
      /\ events < MaxEvents /\ events' = events + 1 /\ Become(p, NoCommand)
  BY DEF Abandon, history
<1>3. Rest'
  <2>1. events' \in 0..MaxEvents
    BY <1>2, RestFrom, BoundsAssumption DEF Rest
  <2> QED
    BY <1>2, <2>1, RestFrom DEF Rest
<1>4. Grows
  BY <1>2, SameGrows
<1>5. ClearInv'
  BY <1>1, <1>2, ClearKept
<1>6. NoCommand.at = "idle" /\ NoCommand.old = {}
  BY DEF NoCommand
<1>7. ASSUME "revoke" \notin overtaken
      PROVE  /\ RefsOf(c.view) \cap RefsOf(stored) = {}
             /\ \A q \in Procs : q # p /\ Private(q) /\ cmd[q].at = "upsert" /\ cmd[q].view.ids # {} =>
                  \A r \in RefsOf(c.view) : r[1] # cmd[q].view.write
  <2>1. Private(p)
    BY <1>7, RestFrom DEF StateInv, SecretInv
  <2>2. /\ \A r \in RefsOf(c.view) : r[1] = c.view.write /\ c.view.ids # {}
        /\ \A r \in RefsOf(stored) : r[1] = stored.write
    BY DEF RefsOf
  <2>3. RefsOf(c.view) \cap RefsOf(stored) = {}
    BY <1>1, <2>1, <2>2 DEF Private
  <2>4. ASSUME NEW q \in Procs, q # p, cmd[q].at = "upsert", NEW r \in RefsOf(c.view), Private(q),
               cmd[q].view.ids # {}
        PROVE  r[1] # cmd[q].view.write
    BY <1>1, <2>2, <2>4 DEF Private
  <2> QED
    BY <2>3, <2>4
<1>8. Good(NoCommand, issued', expired', strayed') /\ NoCommand \in Command
  BY NoCommandGood
<1>9. NoCommand.old \subseteq cmd[p].old \cup RefsOf(stored) /\ NoCommand.at \notin {"upsert", "discard"}
  BY <1>6
<1> QED
  BY <1>2, <1>3, <1>4, <1>5, <1>7, <1>8, <1>9, Removes

LEMMA DiscardStep == ASSUME IInv, NEW p \in Procs, Discard(p) PROVE IInv'
<1> DEFINE c == cmd[p]
           b == [c EXCEPT !.old = {}]
           d == CASE c.then = "create" -> ToCreate(b)
                  [] c.then = "change" -> ToChange(b, Created(c.owner))
                  [] c.then = "return" -> Returned(b)
<1>1. c \in Command /\ Holds(c, issued, strayed) /\ Runs(c) /\ c.at = "discard"
  BY Here DEF Discard
<1>2. /\ stored' = stored /\ vault' = vault \ c.old /\ session' = session
      /\ issued' = issued /\ expired' = expired /\ overtaken' = overtaken /\ strayed' = strayed
      /\ outlived' = outlived /\ kept' = kept /\ commands' = commands /\ events' = events
      /\ Become(p, d)
  BY DEF Discard, history, bounds
<1>3. /\ c.kind # "none"
      /\ c.kind \notin {"none", "logout"} => c.owner \in Users
      /\ c.then # "return" => c.kind \notin {"none", "logout"}
  BY <1>1 DEF Runs, NoCommand
<1>4. /\ b \in Command /\ b.kind = c.kind /\ b.owner = c.owner /\ b.at = c.at /\ b.op = c.op
      /\ b.then = c.then /\ b.view = c.view /\ b.cred = c.cred /\ b.identity = c.identity
      /\ b.old = {}
  BY <1>1 DEF Command
<1>5. Holds(b, issued, strayed)
  BY <1>1, <1>4 DEF Holds
<1> HIDE DEF b
<1> DEFINE Fine(e) == /\ e \in Command /\ Good(e, issued, expired, strayed)
                      /\ e.old = {} /\ e.at \notin {"upsert", "discard"}
<1>6. ASSUME c.then = "create" PROVE Fine(ToCreate(b))
  BY <1>3, <1>4, <1>5, <1>6, ToCreateGood
<1>7. ASSUME c.then = "change" PROVE Fine(ToChange(b, Created(c.owner)))
  <2>1. b.owner = c.owner /\ c.owner \in Users /\ b.kind \notin {"none", "logout"}
    BY <1>3, <1>4, <1>7
  <2>2. /\ Created(c.owner) \in State /\ Created(c.owner).owner = c.owner
        /\ Created(c.owner).ids = {} /\ Created(c.owner).identity = None
    BY <2>1, NoStateFields
  <2>3. Owned(Created(c.owner), issued, strayed)
    BY <2>2 DEF Owned
  <2> QED
    BY <1>4, <1>5, <2>1, <2>2, <2>3, ToChangeGood
<1>8. ASSUME c.then = "return" PROVE Fine(Returned(b))
  <2>1. b.view.ids \subseteq Ids
    BY <1>4, NoStateFields DEF Command, State
  <2>2. b.op = "usable" => b.view.owner = b.owner
    BY <1>1, <1>4, <1>8 DEF Runs
  <2>3. /\ Returned(b) \in Command /\ Good(Returned(b), issued, expired, strayed)
        /\ Returned(b).old = {} /\ Returned(b).at \in Plain
    BY <1>3, <1>4, <1>5, <2>1, <2>2, ReturnedGood
  <2> QED
    BY <2>3 DEF Plain
<1> HIDE DEF Fine
<1>9. c.then \in {"create", "change", "return"}
  BY <1>1 DEF Command, Continuations
<1>10. Fine(d)
  BY <1>6, <1>7, <1>8, <1>9
<1> HIDE DEF d
<1>11. Rest' /\ Grows
  BY <1>2, RestFrom, SameGrows DEF Rest
<1>12. ClearInv'
  BY <1>1, <1>2, ClearKept
<1>13. ASSUME "revoke" \notin overtaken
       PROVE  /\ c.old \cap RefsOf(stored) = {}
              /\ \A q \in Procs : q # p /\ Private(q) /\ cmd[q].at = "upsert" /\ cmd[q].view.ids # {} =>
                   \A r \in c.old : r[1] # cmd[q].view.write
  <2>1. Useless(p)
    BY <1>13, RestFrom DEF StateInv, SecretInv
  <2> QED
    BY <1>1, <2>1 DEF Useless, Private
<1>14. d \in Command /\ Good(d, issued', expired', strayed') /\ d.at \notin {"upsert", "discard"}
       /\ d.old \subseteq cmd[p].old \cup RefsOf(stored)
  BY <1>2, <1>10 DEF Fine
<1> QED
  BY <1>2, <1>11, <1>12, <1>13, <1>14, Removes

\* A step that puts another state in the setting and is about to discard what the
\* state before it had.
LEMMA Writes ==
  ASSUME IInv, NEW p \in Procs, NEW d \in Command, NEW s, Become(p, d), Rest',
         Good(d, issued, expired, strayed), ClearInv',
         stored' = s, vault' = vault, issued' = issued, expired' = expired, strayed' = strayed,
         GrantedKept', Owned(s, issued, strayed), Written(s),
         d.at = "discard",
         "revoke" \notin overtaken' =>
           /\ "revoke" \notin overtaken
           /\ RefsOf(s) \subseteq vault
           /\ d.old = cmd[p].old /\ d.old \cap RefsOf(s) = {}
           /\ \A q \in Procs : q # p =>
                /\ cmd[q].at = "discard" => cmd[q].old \cap RefsOf(s) = {}
                /\ cmd[q].at = "upsert" /\ cmd[q].view.ids # {} => cmd[q].view.write # s.write
  PROVE  IInv'
<1>1. Good(d, issued', expired', strayed') /\ Grows
  BY SameGrows
<1>2. TypeInv' /\ cmd'[p] = d /\ \A q \in Procs : q # p => cmd'[q] = cmd[q]
  BY <1>1, BecomeGood
<1>3. SecretInv'
  <2>1. SUFFICES ASSUME "revoke" \notin overtaken'
                 PROVE  /\ RefsOf(s) \subseteq vault
                        /\ \A q \in Procs : Private(q)' /\ Useless(q)'
    BY DEF SecretInv
  <2>2. \A q \in Procs : Private(q) /\ Useless(q)
    BY <2>1, RestFrom DEF StateInv, SecretInv
  <2>3. \A q \in Procs : Useless(q)'
    BY <1>2, <2>1 DEF Useless
  <2>4. ASSUME NEW q \in Procs PROVE Private(q)'
    <3>1. CASE q = p
      BY <1>2, <3>1 DEF Private
    <3>2. CASE q # p
      <4>1. SUFFICES ASSUME cmd[q].at = "upsert", cmd[q].view.ids # {}
                     PROVE  /\ RefsOf(cmd[q].view) \subseteq vault
                            /\ cmd[q].view.write # NoWrite /\ cmd[q].view.write # s.write
                            /\ \A x \in Procs : \A r \in cmd'[x].old : r[1] # cmd[q].view.write
                            /\ \A x \in Procs : x # q /\ cmd'[x].at = "upsert" =>
                                 cmd'[x].view.write # cmd[q].view.write
        BY <1>2, <3>2 DEF Private
      <4>2. /\ RefsOf(cmd[q].view) \subseteq vault /\ cmd[q].view.write # NoWrite
            /\ \A x \in Procs : \A r \in cmd[x].old : r[1] # cmd[q].view.write
            /\ \A x \in Procs : x # q /\ cmd[x].at = "upsert" => cmd[x].view.write # cmd[q].view.write
        BY <2>2, <4>1 DEF Private
      <4>3. cmd[q].view.write # s.write
        BY <2>1, <3>2, <4>1
      <4>4. \A x \in Procs : \A r \in cmd'[x].old : r[1] # cmd[q].view.write
        BY <1>2, <2>1, <4>2
      <4>5. \A x \in Procs : x # q /\ cmd'[x].at = "upsert" => cmd'[x].view.write # cmd[q].view.write
        BY <1>2, <4>2
      <4> QED
        BY <4>2, <4>3, <4>4, <4>5
    <3> QED
      BY <3>1, <3>2
  <2> QED
    BY <2>1, <2>3, <2>4
<1>4. Owned(stored', issued', strayed') /\ Written(stored')
  OBVIOUS
<1> QED
  BY <1>2, <1>3, <1>4 DEF IInv, StateInv

\* A command about to discard what it replaced.
LEMMA DiscardsGood ==
  ASSUME IInv, NEW p \in Procs, cmd[p].at \in {"upsert", "forget", "rewrite"}, NEW d,
         \/ d = [cmd[p] EXCEPT !.at = "discard"]
         \/ d = [cmd[p] EXCEPT !.at = "discard", !.base = NoState]
  PROVE  /\ d \in Command /\ Good(d, issued, expired, strayed)
         /\ d.at = "discard" /\ d.old = cmd[p].old /\ d.kind = cmd[p].kind
<1> DEFINE c == cmd[p]
<1>1. c \in Command /\ Holds(c, issued, strayed) /\ Runs(c) /\ Change(c, expired)
  BY Here
<1>2. "discard" \in Labels
  BY DEF Labels
<1>3. d \in Command
  BY <1>1, <1>2, ZenonT(60) DEF Command
<1>4. /\ d.kind = c.kind /\ d.owner = c.owner /\ d.at = "discard" /\ d.op = c.op
      /\ d.then = c.then /\ d.view = c.view /\ d.old = c.old /\ d.identity = c.identity
      /\ d.cred = c.cred
  BY <1>1 DEF Command
<1>5. Holds(d, issued, strayed)
  BY <1>1, <1>4 DEF Holds
<1>6. c.kind # "none"
  BY <1>1 DEF Runs, NoCommand
<1>7. c.then = "return" /\ c.op = "usable" => c.view.owner = c.owner
  BY <1>1 DEF Runs, Change
<1>8. Runs(d)
  BY <1>1, <1>4, <1>6, <1>7 DEF Runs
<1>9. Change(d, expired)
  BY <1>4 DEF Change
<1> QED
  BY <1>3, <1>4, <1>5, <1>8, <1>9 DEF Good

LEMMA UpsertStep == ASSUME IInv, NEW p \in Procs, Upsert(p) PROVE IInv'
<1> DEFINE c == cmd[p]
           d == [c EXCEPT !.at = "discard"]
<1>1. /\ c \in Command /\ Holds(c, issued, strayed) /\ Runs(c) /\ Change(c, expired)
      /\ c.at = "upsert" /\ c.kind \notin {"none", "logout"} /\ c.owner \in Users
  BY Here, Busy DEF Upsert
<1>2. /\ stored' = c.view /\ vault' = vault /\ session' = session /\ issued' = issued
      /\ expired' = expired /\ strayed' = strayed /\ commands' = commands /\ events' = events
      /\ overtaken' = IF stored # c.base THEN overtaken \cup {"save"} ELSE overtaken
      /\ outlived' = (outlived \/ session # c.owner)
      /\ kept' = IF c.op = "saveCredential" /\ c.then = "return" THEN kept \cup {c.cred} ELSE kept
      /\ Become(p, d)
  BY DEF Upsert, Overtaking, Outliving, bounds
<1>3. /\ d \in Command /\ Good(d, issued, expired, strayed)
      /\ d.at = "discard" /\ d.old = c.old /\ d.kind = c.kind
  <2>1. cmd[p].at \in {"upsert", "forget", "rewrite"} /\ d = [cmd[p] EXCEPT !.at = "discard"]
    BY <1>1
  <2> HIDE DEF d
  <2> QED
    BY <2>1, DiscardsGood
<1> HIDE DEF d
<1>4. c.view \in State /\ c.view.owner = c.owner /\ Written(c.view) /\ Owned(c.view, issued, strayed)
  BY <1>1 DEF Change, Holds
<1>5. Rest'
  <2>1. overtaken' \subseteq {"save", "revoke", "clear"} /\ outlived' \in BOOLEAN
    BY <1>2, RestFrom DEF Rest
  <2>2. kept' \subseteq Ids
    <3>1. c.op = "saveCredential" => c.cred \in Ids
      BY <1>1 DEF Holds, Command
    <3> QED
      BY <1>2, <3>1, RestFrom DEF Rest
  <2> QED
    BY <1>2, <1>4, <2>1, <2>2, RestFrom DEF Rest
<1>6. ClearInv'
  BY <1>1, <1>2, NoneAssumption DEF ClearInv
<1>7. GrantedKept'
  <2>1. SUFFICES ASSUME overtaken' = {} PROVE c.view.ids \ expired = kept' \ expired
    BY <1>2 DEF GrantedKept
  <2>2. stored = c.base /\ overtaken = {}
    BY <1>2, <2>1
  <2>3. stored.ids \ expired = kept \ expired
    BY <2>2, RestFrom DEF StateInv, GrantedKept
  <2>4. CASE c.then = "change" /\ c.base = NoState /\ c.view.ids = {}
    BY <1>2, <2>2, <2>3, <2>4, NoStateFields
  <2>5. CASE c.then = "return" /\ c.view.ids \ expired = (c.base.ids \cup Saved(c)) \ expired
    <3>1. kept' = kept \cup Saved(c)
      BY <1>2, <2>5 DEF Saved
    <3> QED
      BY <2>2, <2>3, <2>5, <3>1
  <2> QED
    BY <1>1, <2>4, <2>5 DEF Change
<1>8. ASSUME "revoke" \notin overtaken'
      PROVE  /\ "revoke" \notin overtaken
             /\ RefsOf(c.view) \subseteq vault
             /\ d.old = cmd[p].old /\ d.old \cap RefsOf(c.view) = {}
             /\ \A q \in Procs : q # p =>
                  /\ cmd[q].at = "discard" => cmd[q].old \cap RefsOf(c.view) = {}
                  /\ cmd[q].at = "upsert" /\ cmd[q].view.ids # {} => cmd[q].view.write # c.view.write
  <2>1. "revoke" \notin overtaken
    BY <1>2, <1>8
  <2>2. \A q \in Procs : Private(q)
    BY <2>1, RestFrom DEF StateInv, SecretInv
  <2>3. \A r \in RefsOf(c.view) : r[1] = c.view.write /\ c.view.ids # {}
    BY DEF RefsOf
  <2>4. RefsOf(c.view) \subseteq vault
    BY <1>1, <2>2, <2>3 DEF Private
  <2>5. \A q \in Procs : cmd[q].old \cap RefsOf(c.view) = {}
    BY <1>1, <2>2, <2>3 DEF Private
  <2>6. \A q \in Procs : q # p /\ cmd[q].at = "upsert" /\ cmd[q].view.ids # {} =>
          cmd[q].view.write # c.view.write
    BY <1>1, <2>2 DEF Private
  <2> QED
    BY <1>3, <2>1, <2>4, <2>5, <2>6
<1> HIDE DEF c
<1> QED
  BY <1>2, <1>3, <1>4, <1>5, <1>6, <1>7, <1>8, Writes

LEMMA ForgetStep == ASSUME IInv, NEW p \in Procs, Forget(p) PROVE IInv'
<1> DEFINE c == cmd[p]
           d == [c EXCEPT !.at = "discard", !.base = NoState]
<1>1. c \in Command /\ c.at = "forget"
  BY Here DEF Forget
<1>2. /\ stored' = NoState /\ vault' = vault /\ session' = session /\ issued' = issued
      /\ expired' = expired /\ strayed' = strayed /\ commands' = commands /\ events' = events
      /\ overtaken' = IF stored # c.base THEN overtaken \cup {"clear"} ELSE overtaken
      /\ outlived' = outlived /\ kept' = {} /\ Become(p, d)
  BY DEF Forget, Overtaking, bounds
<1>3. /\ d \in Command /\ Good(d, issued, expired, strayed)
      /\ d.at = "discard" /\ d.old = c.old /\ d.kind = c.kind
  <2>1. /\ cmd[p].at \in {"upsert", "forget", "rewrite"}
        /\ d = [cmd[p] EXCEPT !.at = "discard", !.base = NoState]
    BY <1>1
  <2> HIDE DEF d
  <2> QED
    BY <2>1, DiscardsGood
<1> HIDE DEF d
<1>4. Written(NoState) /\ Owned(NoState, issued, strayed)
  BY NoStateFields DEF Written, Owned
<1>5. Rest'
  <2>1. overtaken' \subseteq {"save", "revoke", "clear"}
    BY <1>2, RestFrom DEF Rest
  <2> QED
    BY <1>2, <2>1, RestFrom DEF Rest
<1>6. ClearInv' /\ GrantedKept'
  BY <1>2, NoStateFields DEF ClearInv, GrantedKept
<1>7. ASSUME "revoke" \notin overtaken'
      PROVE  /\ "revoke" \notin overtaken
             /\ RefsOf(NoState) \subseteq vault
             /\ d.old = cmd[p].old /\ d.old \cap RefsOf(NoState) = {}
             /\ \A q \in Procs : q # p =>
                  /\ cmd[q].at = "discard" => cmd[q].old \cap RefsOf(NoState) = {}
                  /\ cmd[q].at = "upsert" /\ cmd[q].view.ids # {} => cmd[q].view.write # NoState.write
  <2>1. "revoke" \notin overtaken
    BY <1>2, <1>7
  <2>2. \A q \in Procs : Private(q)
    BY <2>1, RestFrom DEF StateInv, SecretInv
  <2>3. RefsOf(NoState) = {} /\ NoState.write = NoWrite
    BY NoStateFields DEF RefsOf
  <2>4. \A q \in Procs : cmd[q].at = "upsert" /\ cmd[q].view.ids # {} =>
          cmd[q].view.write # NoState.write
    BY <2>2, <2>3 DEF Private
  <2> QED
    BY <1>3, <2>1, <2>3, <2>4
<1> HIDE DEF c
<1> QED
  BY <1>2, <1>3, <1>4, <1>5, <1>6, <1>7, Writes

\* A revoke that was not overtaken writes a state whose secrets it has not touched.
LEMMA RewriteStep == ASSUME IInv, NEW p \in Procs, Rewrite(p) PROVE IInv'
<1> DEFINE c == cmd[p]
           d == [c EXCEPT !.at = "discard"]
           s == [c.view EXCEPT !.write = IF c.view.ids = {} THEN NoWrite ELSE @]
<1>1. /\ c \in Command /\ Holds(c, issued, strayed) /\ Runs(c) /\ Change(c, expired)
      /\ c.at = "rewrite" /\ c.kind \notin {"none", "logout"} /\ c.owner \in Users
  BY Here, Busy DEF Rewrite
<1>2. /\ stored' = s /\ vault' = vault /\ session' = session /\ issued' = issued
      /\ expired' = expired /\ strayed' = strayed /\ commands' = commands /\ events' = events
      /\ overtaken' = IF stored # c.base THEN overtaken \cup {"revoke"} ELSE overtaken
      /\ outlived' = (outlived \/ session # c.owner) /\ kept' = kept \ c.sel /\ Become(p, d)
  BY DEF Rewrite, Overtaking, Outliving, bounds
<1>3. /\ d \in Command /\ Good(d, issued, expired, strayed)
      /\ d.at = "discard" /\ d.old = c.old /\ d.kind = c.kind
  <2>1. cmd[p].at \in {"upsert", "forget", "rewrite"} /\ d = [cmd[p] EXCEPT !.at = "discard"]
    BY <1>1
  <2> HIDE DEF d
  <2> QED
    BY <2>1, DiscardsGood
<1> HIDE DEF d
<1>4. /\ c.view \in State /\ c.view.owner = c.owner /\ Written(c.view)
      /\ Owned(c.view, issued, strayed) /\ c.view.ids = c.base.ids \ c.sel
      /\ c.view.write = c.base.write /\ c.old = {r \in RefsOf(c.base) : r[2] \in c.sel}
  BY <1>1 DEF Change, Holds
<1>5. /\ s \in State /\ s.owner = c.owner /\ s.identity = c.view.identity /\ s.ids = c.view.ids
      /\ s.write \in {NoWrite, c.view.write}
      /\ s.ids # {} => s.write = c.view.write
  BY <1>4, BoundsAssumption DEF State, NoWrite
<1> HIDE DEF s
<1>6. Written(s) /\ Owned(s, issued, strayed)
  BY <1>4, <1>5 DEF Written, Owned
<1>7. Rest'
  <2>1. overtaken' \subseteq {"save", "revoke", "clear"} /\ outlived' \in BOOLEAN
    BY <1>2, RestFrom DEF Rest
  <2> QED
    BY <1>2, <1>5, <2>1, RestFrom DEF Rest
<1>8. ClearInv'
  BY <1>1, <1>2, NoneAssumption DEF ClearInv
<1>9. GrantedKept'
  <2>1. SUFFICES ASSUME overtaken' = {} PROVE s.ids \ expired = kept' \ expired
    BY <1>2 DEF GrantedKept
  <2>2. stored = c.base /\ overtaken = {}
    BY <1>2, <2>1
  <2>3. stored.ids \ expired = kept \ expired
    BY <2>2, RestFrom DEF StateInv, GrantedKept
  <2> QED
    BY <1>2, <1>4, <1>5, <2>2, <2>3
<1>10. ASSUME "revoke" \notin overtaken'
       PROVE  /\ "revoke" \notin overtaken
              /\ RefsOf(s) \subseteq vault
              /\ d.old = cmd[p].old /\ d.old \cap RefsOf(s) = {}
              /\ \A q \in Procs : q # p =>
                   /\ cmd[q].at = "discard" => cmd[q].old \cap RefsOf(s) = {}
                   /\ cmd[q].at = "upsert" /\ cmd[q].view.ids # {} => cmd[q].view.write # s.write
  <2>1. "revoke" \notin overtaken /\ stored = c.base
    BY <1>2, <1>10
  <2>2. RefsOf(stored) \subseteq vault /\ \A q \in Procs : Private(q) /\ Useless(q)
    BY <2>1, RestFrom DEF StateInv, SecretInv
  <2>3. RefsOf(s) \subseteq RefsOf(stored)
    <3>1. s.ids \subseteq stored.ids /\ (s.ids # {} => s.write = stored.write)
      BY <1>4, <1>5, <2>1
    <3> QED
      BY <3>1 DEF RefsOf
  <2>4. c.old \cap RefsOf(s) = {}
    <3>1. \A r \in RefsOf(s) : r[2] \notin c.sel
      BY <1>4, <1>5 DEF RefsOf
    <3> QED
      BY <1>4, <3>1
  <2>5. \A q \in Procs : cmd[q].at = "discard" => cmd[q].old \cap RefsOf(s) = {}
    BY <2>2, <2>3 DEF Useless
  <2>6. \A q \in Procs : cmd[q].at = "upsert" /\ cmd[q].view.ids # {} => cmd[q].view.write # s.write
    BY <1>4, <1>5, <2>1, <2>2 DEF Private
  <2> QED
    BY <1>3, <2>1, <2>2, <2>3, <2>4, <2>5, <2>6
<1> HIDE DEF c
<1> QED
  BY <1>2, <1>3, <1>6, <1>7, <1>8, <1>9, <1>10, Writes

-----------------------------------------------------------------------------
(* The theorems.                                                            *)

LEMMA InitInv == ASSUME Init PROVE IInv
<1>1. \A p \in Procs : cmd[p] = NoCommand
  BY DEF Init
<1>2. TypeOK
  <2>1. issued \in Seq(Users) /\ Len(issued) <= MaxIssued
    BY BoundsAssumption DEF Init
  <2>2. cmd \in [Procs -> Command]
    BY NoCommandGood DEF Init
  <2>3. commands \in 0..MaxCommands /\ events \in 0..MaxEvents
    BY BoundsAssumption DEF Init
  <2>4. /\ stored = NoState /\ vault = {} /\ session \in Users /\ expired = {} /\ overtaken = {}
        /\ strayed = FALSE /\ outlived = FALSE /\ kept = {}
    BY DEF Init
  <2> HIDE DEF Init
  <2> QED
    BY <2>1, <2>2, <2>3, <2>4 DEF TypeOK
<1>3. GoodInv
  BY <1>1, NoCommandGood DEF GoodInv
<1>4. stored = NoState /\ vault = {} /\ kept = {}
  BY DEF Init
<1>5. Owned(stored, issued, strayed) /\ Written(stored) /\ ClearInv /\ GrantedKept
  BY <1>4, NoStateFields DEF Owned, Written, ClearInv, GrantedKept
<1>6. SecretInv
  <2>1. RefsOf(stored) = {}
    BY <1>4, NoStateFields DEF RefsOf
  <2>2. \A p \in Procs : cmd[p].at = "idle"
    BY <1>1 DEF NoCommand
  <2> QED
    BY <1>4, <2>1, <2>2 DEF SecretInv, Private, Useless
<1> QED
  BY <1>2, <1>3, <1>5, <1>6 DEF IInv, TypeInv, StateInv

LEMMA NextInv == ASSUME IInv, [Next]_vars PROVE IInv'
<1>1. ASSUME NEW p \in Procs, Flow(p) PROVE IInv'
  BY <1>1, BeginStep, RecoverStep, StatusKnownStep, StatusStaleStep, SignGrantStep, SignRevokeStep,
     RevokeStep, EndStep, BeginLogoutStep, SignoutStep DEF Flow
<1>2. ASSUME NEW p \in Procs, Store(p) PROVE IInv'
  BY <1>2, LoadStep, ReadSecretsStep, PrepareStep, AbandonStep, UpsertStep, DiscardStep,
     ClearReadStep, ForgetStep, FindIdentityStep, DeleteReadStep, RewriteStep DEF Store
<1>3. CASE UNCHANGED vars
  <2>1. /\ stored' = stored /\ vault' = vault /\ session' = session /\ issued' = issued
        /\ expired' = expired /\ cmd' = cmd /\ overtaken' = overtaken /\ strayed' = strayed
        /\ outlived' = outlived /\ kept' = kept /\ commands' = commands /\ events' = events
    BY <1>3 DEF vars, history, bounds
  <2>2. TypeOK' /\ GoodInv'
    BY <2>1, RestFrom DEF TypeOK, Rest, GoodInv
  <2>3. SecretInv'
    BY <2>1, RestFrom DEF StateInv, SecretInv, Private, Useless
  <2>4. Owned(stored, issued, strayed)' /\ Written(stored)' /\ ClearInv' /\ GrantedKept'
    BY <2>1, RestFrom DEF StateInv, ClearInv, GrantedKept
  <2> QED
    BY <2>2, <2>3, <2>4 DEF IInv, TypeInv, StateInv
<1> QED
  BY <1>1, <1>2, <1>3, CrashStep, LoginStep, ExpireStep DEF Next

\* Every reachable state of any number of aep commands satisfies the invariant.
THEOREM Invariance == Spec => []IInv
<1>1. Init => IInv
  BY InitInv
<1>2. IInv /\ [Next]_vars => IInv'
  BY NextInv
<1> QED
  BY <1>1, <1>2, PTL DEF Spec

\* The variables keep their types (AepPersistedState and the commands' memory).
THEOREM TypeSafety == Spec => []TypeOK
<1>1. IInv => TypeOK
  BY DEF IInv, TypeInv
<1> QED
  BY <1>1, Invariance, PTL

\* Whatever aep commands run beside each other (AepStorage without a transaction),
\* the stored credentials can be read unless a revoke wrote back an old state, and
\* those granted and not given up are there unless one command overtook another.
THEOREM AccessIsKept == Spec => []AccessKept
<1>1. IInv => AccessKept
  BY DEF IInv, StateInv, SecretInv, AccessKept, CredentialsReadable
<1> QED
  BY <1>1, Invariance, PTL

\* The stored state is its owner's, no command presents another user's credential,
\* and a logout leaves nothing (AepStorage.state, runAuthLogout), but for the
\* commands that got an identity or wrote across a change of user.
THEOREM StateIsTheUsers == Spec => []OwnState
<1>1. ASSUME IInv PROVE OwnedByUser
  <2>1. SUFFICES ASSUME ~ strayed
                 PROVE  /\ stored.identity \in {None, stored.owner}
                        /\ \A i \in stored.ids : issued[i] = stored.owner
                        /\ \A p \in Procs : cmd[p].at = "present" => issued[cmd[p].cred] = cmd[p].owner
    BY DEF OwnedByUser
  <2>2. Owned(stored, issued, strayed)
    BY <1>1, RestFrom DEF StateInv
  <2>3. ASSUME NEW p \in Procs, cmd[p].at = "present" PROVE issued[cmd[p].cred] = cmd[p].owner
    BY <1>1, <2>1, <2>3, Here DEF Holds
  <2> QED
    BY <2>1, <2>2, <2>3 DEF Owned
<1>2. IInv => ClearedByLogout
  BY DEF IInv, StateInv, ClearInv, ClearedByLogout
<1>3. IInv => OwnState
  BY <1>1, <1>2 DEF OwnState
<1> QED
  BY <1>3, Invariance, PTL

=============================================================================
