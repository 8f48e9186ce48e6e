---------------------------- MODULE VaultService ----------------------------
(***************************************************************************)
(* One tenant of the vault service (secure-storage/vault-tenant-manager,   *)
(* vault-backend-lifetime, vault-local-backend, vault-daemon-handler,      *)
(* vault-atomic-file and the request queue of vault-socket): requests of   *)
(* all the tenant's connections are served one at a time by a context that *)
(* holds the master key until a timer disposes of it, in the middle of a   *)
(* request too.                                                            *)
(*                                                                         *)
(* A request is a sequence of steps, one for each wait for a file.  A      *)
(* wrapping key stands for an unlock factor and the salt it was mixed with.*)
(***************************************************************************)
EXTENDS Naturals, Sequences, FiniteSets, SequencesExt

CONSTANTS
  Requests,   \* one request after another each, on a connection of its own
  Contexts,   \* identities of tenant contexts; one nothing refers to is used again
  Keys,       \* master keys; one nothing refers to is used again
  Wraps,      \* wrapping keys
  Policies,   \* policies clients set
  None

Policy == [idle : BOOLEAN, sleep : BOOLEAN]   \* an idle timeout is set; lockOnSleep
Default == [idle |-> TRUE, sleep |-> TRUE]

\* The requests that read the header.  A change of passphrase comes with a new salt.
Reads == [kind : {"unlock"}, wrap : Wraps]
         \cup {o \in [kind : {"change"}, wrap : Wraps, next : Wraps] : o.wrap # o.next}
         \cup [kind : {"status"}]

ASSUME PoliciesAssumption == Policies \subseteq Policy
ASSUME NoneAssumption ==
  /\ None \notin Requests \cup Contexts \cup Keys \cup Wraps
  /\ None \notin Reads \cup [wrap : Wraps, key : Keys]

VARIABLES
  queue,     \* requests of the tenant, the one in service first
  gone,      \* those whose connection is closed
  step,      \* what the request in service waits for
  asked,     \* what it asks for, once it waits for the header
  at,        \* its context
  current,   \* the context in the manager's map
  ctx,       \* every context
  header,    \* inflow.vault
  records,   \* master keys the secrets in the database are encrypted under
  policy,    \* the stored policy
  untimed    \* history: contexts whose last request set the key and then failed

vars == <<queue, gone, step, asked, at, current, ctx, header, records, policy, untimed>>

files == <<header, records, policy>>

\* The timers of a context are those of the policy it was refreshed with.
Context == [key : Keys \cup {None}, timers : Policy]
Off == [idle |-> FALSE, sleep |-> FALSE]
Fresh == [key |-> None, timers |-> Off]

TypeOK ==
  /\ queue \in Seq(Requests) /\ gone \subseteq Requests
  /\ step \in {"begin", "header", "publish", "clean", "wipe", "wipeHeader"}
  /\ asked \in Reads \cup {None}
  /\ at \in Contexts \cup {None} /\ current \in Contexts \cup {None}
  /\ ctx \in [Contexts -> Context] /\ untimed \subseteq Contexts
  /\ header \in [wrap : Wraps, key : Keys] \cup {None}
  /\ records \subseteq Keys /\ policy \in Policy

Init ==
  /\ queue = <<>> /\ gone = {}
  /\ step = "begin" /\ asked = None /\ at = None
  /\ current = None /\ ctx = [c \in Contexts |-> Fresh] /\ untimed = {}
  /\ header = None /\ records = {} /\ policy = Default

-----------------------------------------------------------------------------
(* Clients.                                                                 *)

Ask(r) ==
  /\ r \notin ToSet(queue)
  /\ queue' = Append(queue, r)
  /\ UNCHANGED <<gone, step, asked, at, current, ctx, files, untimed>>

\* The client's deadline or its end: the connection closes, answered or not.
Disconnect(r) ==
  /\ r \in ToSet(queue) \ gone
  /\ gone' = gone \cup {r}
  /\ UNCHANGED <<queue, step, asked, at, current, ctx, files, untimed>>

-----------------------------------------------------------------------------
(* Contexts.                                                                *)

\* LifetimeVaultBackend.refresh(): the timers start again.  It reads the policy
\* first, which may fail: the timers then stay, and so does what was done.
Refreshed(c, p) == [c EXCEPT !.timers = p]

\* disposeTenant()
Disposed(c) ==
  /\ current' = IF current = c THEN None ELSE current
  /\ ctx' = [ctx EXCEPT ![c] = Fresh]
  /\ untimed' = untimed \ {c}

\* Neither the manager, a request nor a timer refers to c.
Unused(c) == c # current /\ c # at /\ ctx[c].timers = Off

\* The context as the request finds or makes it.
Found(c) == IF c = current THEN ctx[c] ELSE Fresh

\* backendForPeer()
Resolves(c) == IF current = None THEN Unused(c) ELSE c = current

-----------------------------------------------------------------------------
(* The request in service.                                                  *)

Serving == queue # <<>>

\* release(): the next request of the tenant is served.
Release ==
  /\ queue' = Tail(queue) /\ gone' = gone \ {Head(queue)}
  /\ step' = "begin" /\ asked' = None /\ at' = None

\* Its operation is over and leaves its context refreshed, locked or as it was.
Ends(c, context) ==
  /\ Release
  /\ ctx' = [ctx EXCEPT ![c] = context]
  /\ untimed' = IF c \in {current, at} /\ context = ctx[c] THEN untimed ELSE untimed \ {c}

\* Mistake: a request that throws does not release the queue.
RefuseStuck ==
  /\ Serving /\ step = "begin" /\ Head(queue) \in gone
  /\ step' = "refused"
  /\ UNCHANGED <<queue, gone, asked, at, current, ctx, files, untimed>>

\* The connection closed while the request waited: it is not served.
Refuse ==
  /\ Serving /\ step = "begin" /\ Head(queue) \in gone
  /\ Release
  /\ UNCHANGED <<current, ctx, files, untimed>>

\* The first request in the queue is served in context c, whatever it asks for.
Serve(c) ==
  /\ Serving /\ step = "begin" /\ Head(queue) \notin gone
  /\ Resolves(c)

Lock(c) ==
  /\ Serve(c)
  /\ current' = c
  /\ Ends(c, Fresh)
  /\ UNCHANGED files

\* A request that fails refreshes nothing.
Fails(c) == Ends(c, Found(c)) /\ UNCHANGED files

\* getSecret(): the vault may be locked or the secret missing.
Get(c) ==
  /\ Serve(c)
  /\ current' = c
  /\ \/ Fails(c)
     \/ Found(c).key # None /\ Ends(c, Refreshed(Found(c), policy)) /\ UNCHANGED files

\* putSecret(): the vault may be locked or the reference taken.
Put(c) ==
  /\ Serve(c)
  /\ current' = c
  /\ \/ Fails(c)
     \/ /\ Found(c).key # None
        /\ records' = records \cup {Found(c).key}
        /\ Ends(c, Refreshed(Found(c), policy)) \/ Ends(c, Found(c))
        /\ UNCHANGED <<header, policy>>

\* deleteSecret(), deleteExpired(), exists(), touch() and getPolicy() need no
\* key; the secret deleted may be the last.
Delete(c) ==
  /\ Serve(c)
  /\ current' = c
  /\ \/ Fails(c)
     \/ /\ records' \in {records, {}}
        /\ Ends(c, Refreshed(Found(c), policy)) \/ Ends(c, Found(c))
        /\ UNCHANGED <<header, policy>>

\* Mistake: the new policy waits for the next request.
SetPolicyLater(c) ==
  /\ Serve(c)
  /\ current' = c
  /\ policy' \in Policies
  /\ Ends(c, Found(c))
  /\ UNCHANGED <<header, records>>

SetPolicy(c) ==
  /\ Serve(c)
  /\ current' = c
  /\ \/ Fails(c)
     \/ /\ policy' \in Policies
        /\ Ends(c, Refreshed(Found(c), policy'))
        /\ UNCHANGED <<header, records>>

\* unlock, changePassphrase and the status of a locked vault read the header.
ReadsHeader(c) ==
  /\ Serve(c)
  /\ current' = c
  /\ \E o \in Reads :
       IF o.kind = "status" /\ Found(c).key # None
       THEN Ends(c, Refreshed(Found(c), policy)) \/ Ends(c, Found(c))
       ELSE /\ step' = "header" /\ asked' = o /\ at' = c
            /\ ctx' = [ctx EXCEPT ![c] = Found(c)]
            /\ untimed' = IF c = current THEN untimed ELSE untimed \ {c}
            /\ UNCHANGED <<queue, gone>>
  /\ UNCHANGED files

Opens(wrap) == IF header = None THEN FALSE ELSE header.wrap = wrap

\* The header has been read, or it or the policy cannot be.
Status ==
  /\ Serving /\ step = "header" /\ asked.kind = "status"
  /\ \/ Ends(at, ctx[at])
     \/ header # None /\ Ends(at, Refreshed(ctx[at], policy))
  /\ UNCHANGED <<current, files>>

\* A wrong wrapping key, or a header that cannot be read, changes nothing.
Unlock ==
  /\ Serving /\ step = "header" /\ asked.kind = "unlock" /\ header # None
  /\ \/ Ends(at, ctx[at])
     \/ /\ Opens(asked.wrap)
        /\ Ends(at, Refreshed([ctx[at] EXCEPT !.key = header.key], policy))
  /\ UNCHANGED <<current, files>>

\* The key is set when the policy cannot be read: the request fails without a refresh.
CannotRefresh ==
  /\ Serving /\ step = "header" /\ asked.kind = "unlock" /\ Opens(asked.wrap)
  /\ Release
  /\ ctx' = [ctx EXCEPT ![at].key = header.key]
  /\ untimed' = untimed \cup {at}
  /\ UNCHANGED <<current, files>>

\* A header has to be made: the first, or one under the next wrapping key.
Prepare ==
  /\ Serving /\ step = "header" /\ asked.kind # "status"
  /\ IF asked.kind = "unlock" THEN header = None ELSE Opens(asked.wrap)
  /\ step' = "publish"
  /\ UNCHANGED <<queue, gone, asked, at, current, ctx, files, untimed>>

WrongWrappingKey ==
  /\ Serving /\ step = "header" /\ asked.kind = "change"
  /\ ~Opens(asked.wrap)
  /\ Release
  /\ UNCHANGED <<current, ctx, files, untimed>>

Published(wrap, k) ==
  /\ header' = [wrap |-> wrap, key |-> k]
  /\ ctx' = [ctx EXCEPT ![at].key = k]
  /\ step' = "clean"
  /\ UNCHANGED <<queue, gone, asked, at, current, records, policy, untimed>>

\* A master key nothing was ever encrypted under.
NewKey(k) == k \notin records /\ \A c \in Contexts : ctx[c].key # k

\* The temporary file is whole and takes the header's name; then the key changes.
Publish ==
  /\ Serving /\ step = "publish"
  /\ \/ asked.kind = "unlock" /\ \E k \in Keys : NewKey(k) /\ Published(asked.wrap, k)
     \/ asked.kind = "change" /\ Published(asked.next, header.key)

\* The temporary file cannot be written.
CannotPublish ==
  /\ Serving /\ step = "publish"
  /\ Release
  /\ UNCHANGED <<current, ctx, files, untimed>>

\* The temporary name is gone and the directory written.
Clean ==
  /\ Serving /\ step = "clean"
  /\ Ends(at, Refreshed(ctx[at], policy))
  /\ UNCHANGED <<current, files>>

\* One of the two fails, or the refresh behind them: so does the request, without a refresh.
CannotClean ==
  /\ Serving /\ step = "clean"
  /\ Release
  /\ untimed' = untimed \cup {at}
  /\ UNCHANGED <<current, ctx, files>>

\* Mistake: the context keeps its key while the files are removed.
ResetKeeping(c) ==
  /\ Serve(c)
  /\ current' = c /\ ctx' = [ctx EXCEPT ![c] = Found(c)] /\ step' = "wipe"
  /\ UNCHANGED <<queue, gone, asked, at, files, untimed>>

\* reset(): the context is disposed of, then the files are removed in order.
Reset(c) ==
  /\ Serve(c)
  /\ Disposed(c)
  /\ step' = "wipe"
  /\ UNCHANGED <<queue, gone, asked, at, files>>

\* Mistake: the header is removed first.
WipeHeaderFirst ==
  /\ Serving /\ step = "wipe"
  /\ header' = None
  /\ step' = "wipeHeader"
  /\ UNCHANGED <<queue, gone, asked, at, current, ctx, records, policy, untimed>>

Wipe ==
  /\ Serving /\ step = "wipe"
  /\ records' = {} /\ policy' = Default
  /\ step' = "wipeHeader"
  /\ UNCHANGED <<queue, gone, asked, at, current, ctx, header, untimed>>

WipeHeader ==
  /\ Serving /\ step = "wipeHeader"
  /\ Release
  /\ header' = None
  /\ UNCHANGED <<current, ctx, records, policy, untimed>>

CannotWipe ==
  /\ Serving /\ step \in {"wipe", "wipeHeader"}
  /\ Release
  /\ UNCHANGED <<current, ctx, files, untimed>>

-----------------------------------------------------------------------------
(* The world.                                                               *)

\* The idle timer fires or the sleep timer sees the clock jump.
Expire(c) ==
  /\ ctx[c].timers # Off
  /\ Disposed(c)
  /\ UNCHANGED <<queue, gone, step, asked, at, files>>

\* The service stops and is started again; its connections are lost.
Crash ==
  /\ queue' = <<>> /\ gone' = {}
  /\ step' = "begin" /\ asked' = None /\ at' = None
  /\ current' = None /\ ctx' = [c \in Contexts |-> Fresh] /\ untimed' = {}
  /\ UNCHANGED files

Progress ==
  \/ Refuse
  \/ \E c \in Contexts : Lock(c) \/ Get(c) \/ Put(c) \/ Delete(c) \/ SetPolicy(c) \/ ReadsHeader(c) \/ Reset(c)
  \/ Status \/ Unlock \/ CannotRefresh \/ Prepare \/ WrongWrappingKey \/ Publish \/ CannotPublish \/ Clean \/ CannotClean
  \/ Wipe \/ WipeHeader \/ CannotWipe

Next ==
  \/ \E r \in Requests : Ask(r) \/ Disconnect(r)
  \/ Progress
  \/ \E c \in Contexts : Expire(c)
  \/ Crash

Spec == Init /\ [][Next]_vars

\* Reads, writes and removals of files end, in success or failure, and timers fire.
FairSpec == Spec /\ WF_vars(Progress) /\ \A c \in Contexts : WF_vars(Expire(c))

-----------------------------------------------------------------------------
(* Properties.                                                              *)

\* Every stored secret can be decrypted with the master key of the header,
\* whatever unlocks, changes of passphrase, resets, failures, expiries and
\* crashes came before: after a reset that was cut short there is either a
\* header without secrets or nothing.
SecretsReadable == records # {} => header # None /\ records = {header.key}

\* The context that serves the next request has the key of the header or none.
CurrentKeyOpensHeader ==
  current # None /\ ctx[current].key # None => header # None /\ ctx[current].key = header.key

\* A key does not outlive its timers: once no request is in service, a context
\* that holds a key has the timers of the stored policy, and one that expired
\* during a request, which no request can reach, has a timer that ends it.
\* The exception is a request that set the key and then failed, as it cleaned up
\* behind the new header or read the policy.
KeysExpire ==
  \A c \in Contexts \ untimed : ctx[c].key # None /\ step = "begin" =>
    IF c = current THEN ctx[c].timers = policy ELSE ctx[c].timers # Off

\* A change of passphrase rewraps the master key; only a reset loses it.
MasterKeyKept ==
  [][header # None /\ header' # None => header'.key = header.key]_vars

\* Every request leaves the queue, those of closed connections too.
QueueMovesOn == \A r \in Requests : r \in ToSet(queue) ~> r \notin ToSet(queue)
=============================================================================
