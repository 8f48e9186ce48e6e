# Formal models of the InFlow CLI

This directory holds TLA+ models of the parts of the InFlow CLI whose state is
shared, between processes, between requests, between threads or with a server,
and where an order of events that no test was written for decides whether a
secret is lost, a purchase is paid twice or a command hangs. TLC model-checks
every model on small instances; TLAPS proves most of the safety invariants for
every number of processes, connections, users, secrets, crashes and faults.

All source paths are relative to `src/packages/` unless they start with `src/`.

Contents: [the system](#the-system), [the models](#the-models),
[the runs](#the-runs), [bounds](#bounds), [fairness](#fairness),
[the proofs](#the-proofs), [what the checks found](#what-the-checks-found),
[what is not modelled](#what-is-not-modelled), [plan](#plan).

## The system

`packages/core` is the library (storage, vault, API client, flows), `packages/cli`
the commands over it, `src/packaging` the Linux service. Every command is a
process of its own; an MCP server or a host of the SDK is a long-lived one with
many requests at once. They share one SQLite file, one vault daemon (or service)
and one account at InFlow.

| Component | State it keeps | What is hard | Correct when | Modules |
| --- | --- | --- | --- | --- |
| credential storage (`core/src/utils/storage.ts`, `secure-storage/lifecycle.ts`, `sqlite.ts`) | `settings` rows with opaque references, `secret_lifecycle` rows, secrets in the vault | rows and secrets cannot change together; several processes; crashes; recovery beside a live writer | a stored reference can be read; nothing referenced is discarded; nothing leaks silently; a refresh never undoes a login or logout | `CredentialStorage`, `AuthSession` |
| session refresh (`core/src/session.ts`, `utils/api-client.ts`) | stored session, map of refreshes in flight, one retry state for each request | reads before an await; 401 after somebody else's refresh; rotation of refresh tokens | one refresh is shared; a retry has a newer token; the user stays logged in | `SessionRefresh` |
| login, status, logout (`core/src/auth`, `flows/auth-*.ts`) | session, API key, pending record; device code and sessions at the server | four writes that are not one transaction; two pollers of one code; a prior token revoked late; a status made of several reads | a granted token is stored once; no current session is revoked; no stale pending record; a status shows what was so | `AuthFlows`, `AuthStatus` |
| MCP servers and vault reset (`cli/src/cli.tsx`, `commands/vault/index.ts`) | loaded credentials, reset generation, database file | a process lives through the removal of its database | no server acts with a session saved after a reset it was told of | `SessionReset` |
| AEP credentials and approvals (`core/src/aep/storage.ts`, `cli/src/commands/aep`) | one setting for all Services of the user: identities, credentials, their secrets; approvals at InFlow | a command reads, changes and writes the state without a transaction; the owner is asked for once; documents change while the user decides | credentials can be read; none is lost or comes back; the state is its owner's; a Service gets what the user approved | `AepCredentials`, `AepApprovals` |
| payments (`core/src/flows/{mpp,x402}-*.ts`, `payment-fetch.ts`, `cli/src/commands/{mpp,x402}`) | transaction at InFlow, charge on a card, running command | lost answers; Escape against approval; resumption after a time limit; polling | paid at most once; ambiguity is reported; "not sent" is true; a status shows the transaction | `Payment`, `StatusWatch` |
| seller requests and inspection (`cli/src/commands/aep/runtime.tsx`, `flows/*-inspect.ts`, `commands/inspect`) | terms of the seller, stored credentials, the answers in hand | a request is sent without authentication, with it and with a payment, and any of them may be lost | executed once; the report is what was answered | `SellerRequests`, `Inspection` |
| OpenAPI calls and documents (`core/src/openapi/*.ts`) | cached documents, validators, remembered locations | expiry and replacement; composed schemas; a failure behind the sending | answers are fresh; only what the document allows is sent; once | `OpenApiCalls`, `SourceDocuments` |
| offerings and directory (`cli/src/commands/odp`, `commands/directory`) | what the service was seen to offer | it changes between look and question; failures wrapped by other layers | asked only what is offered; a failure reported as what it is | `Catalog` |
| vault control connection (`secure-storage/vault-control-connection.ts`) | queue and its byte count, active request, connection, timers | timers against answers; stale executions; replaced daemon | an answer never meets another request; one connection; every request settles | `VaultControl` |
| synchronous secret store (`vault-sync-secret-store.ts`) | status word and buffers in shared memory, session, worker | two threads over shared memory; deadlines; termination in mid-copy | no torn answer; settled once; secrets erased; every call returns | `SyncSecretStore` |
| vault messages (`vault-ipc.ts`) | a partly read frame | chunks of any size; the connection ends anywhere | a frame is taken whole or not at all; no bytes stay behind | `VaultFrames` |
| vault service of a tenant (`vault-tenant-manager.ts`, `vault-backend-lifetime.ts`, `vault-local-backend.ts`, `vault-daemon-handler.ts`, `vault-files.ts`, `vault-atomic-file.ts`) | header file, records, policy, contexts with keys and timers, request queue | a timer disposes of a context in mid-request; files fail half way; crashes | every secret opens with the header's key; a key has timers that end it; the queue moves on | `VaultService` |
| socket server and Linux broker (`vault-socket.ts`, `vault-daemon.ts`) | admitted connections, transferred sockets, queue of each user | admission at its limit; shutdown beside requests; a broker that closes in mid-transfer | slots are exact and returned; operations of a user do not overlap; no accepted request is lost | `VaultSocket` |
| vault cryptography (`vault-crypto.ts`, `vault-protected-key.ts`, `core/native`) | protected page of the master key, native buffers | every call may fail half way | no page and no secret outlives its call; records open under the master key | `KeyMemory` |
| vault commands and startup (`cli/src/commands/vault`, `vault-client.ts`, `vault-peer-recovery.ts`) | socket path, daemons, unlock factors | two commands start, replace, reset and stop daemons at once; a rotation is nine requests | no command stops what it may not; a reset leaves nothing unlocked; a reported factor opens the vault | `VaultStartup`, `VaultFactors` |
| system service without systemd (`src/packaging/linux/vault-launcher.c`) | lock file with a record, socket | two starts; a stale record; reused pids | one broker listens; a stop ends it and nothing else | `SystemService` |
| peer verification (`vault-peer-verifier.ts`, `vault-broker-auth.ts`, `native/vault_peer_*.c`) | the broker's key files; processes and pids | a pid is given to another program in mid-check; a crash between two files | the peer is who the check says | `BrokerIdentity`, `ListenerOwner` |
| Windows service and its clients (`vault-windows-*.ts`, `native/*windows*`) | dispatcher, slots, generations, service control manager | three threads joined by queues; suspension and stop; upgrade between check and use | answers reach their askers; locked on suspension; secrets go to the own release | `WindowsVault`, `WindowsClient` |
| balances, subscriptions, deposit addresses, user; packaging; the rest of the command line frame | none that outlives a call | | | see [what is not modelled](#what-is-not-modelled) |

How they interact. A command asks the **token provider** for headers, which
reads the **credential storage** and may refresh at the server and write back.
The storage writes rows in SQLite and calls the **synchronous store**, whose
worker sends frames to the **vault service**. Commands of the `vault` group use
the **control connection** to the same service instead, and start, replace and
reset it. The **login** flows write three settings one after the other; the
**aep** commands write one setting as a whole; the **payment** flows go to the
API, to the seller and to the bank behind it, over transports that add
credentials of the aep commands.

Each of these boundaries is one model's environment and another's subject: a
write of a setting is one step in `AuthFlows` and `SessionRefresh` and fifteen
kinds of steps in `CredentialStorage`; a vault call is one step there and a
protocol in `SyncSecretStore`; the daemon of `VaultControl` answers at will, and
`VaultSocket` and `VaultService` say what is behind it; what verifies a peer is a
yes or no in `VaultStartup` and a sequence of questions in `BrokerIdentity`.

## The models

A module models one component; its header names the files, each action the
handler it translates. Modules whose names begin with `MC` give them finite
instances. Where several models that share nothing are checked in one run, the
`MC` module has a variable `part`, chosen at the start, that says whose behaviour
this is; the variables of the other parts stay at an initial value. Such a run is
the union of the runs of its parts. `PartsSpec` is its specification, and
the theorems `PartsAreSafe` show that it behaves as each part's own specification.

A property that joins several statements (`OutcomeTrue`, `StatusTrue`,
`CatalogTrue`, `ConnectionKept`, ...) names each of them as an operator with a
comment of its own.

`CommandParts` instantiates the commands that speak to InFlow and to sellers (`Payment`,
`SellerRequests`, `StatusWatch`, `Catalog`, `AuthStatus`, `Inspection`, `AepApprovals`) and
states their properties; `MCSessionRefresh` adds `SessionRefresh` and the recursive
`OpenApiCalls`, so that the proofs can use the first without the last.

### Secrets and sessions of the user

#### `CredentialStorage` and its abstraction `AuthSession`

`class Storage` is synchronous, so a process runs one operation at a time and
`pc[p]` says where it is; processes interleave between SQLite transactions and
vault calls, each of which is one action. `setting`, `row` and `vault` are the
two tables and the vault. `InsertRow`, `Put`, `Activate` are `lifecycle.create`;
`Commit` and `Unset` the transactions of `setX` and `clearX`; `MarkDeleting`,
`Erase`, `DropRow` are `lifecycle.delete`, reached from `discardSecrets`; `Open`
to `RecoverDone` are `initialize` and `recoverInterruptedWork`. `PutFail`,
`EraseFail`, `CommitFail`, `UnsetFail`, `MarkFail` and `RecoverFail` are failed calls: of the
vault, with their effect or without it where the code cannot know, or of any
transaction, which finds the database busy or full. `Crash` leaves the disk as it is.

A setting is the set of references it holds. That is what the code compares: the
session identifier is the access token's reference, and two settings with the
same one are the same set. `login` is a history variable, the login the stored
session descends from.

`AuthSession` is what `core/README.md` promises of the storage: a register with
a login, a refresh that replaces a session by another one of the same login, a
logout. `Register` is the refinement mapping, `SessionRegister` the claim that
the storage implements it.

Three things can leave a secret in the vault that nothing will ever remove: a
crash; a write that has read the value it replaces before its transaction and
found it replaced; and a discard whose row cannot be marked as being deleted,
for `discardSecrets` swallows the error and goes on (`MarkFail`; the row stays
"active", which no recovery lists). `NoSilentLeak` says that there is no fourth way.

#### `SessionRefresh`

The loop of `sendWithRetries` and the token provider. A request is a record with
its place in the loop, its attempts and what it knows of the session; `turn[p]`
marks the synchronous stretch between reading the session and starting or
joining a refresh; `flight[p][s]` is the entry of the map `inFlightRefresh`. `home` is the process
that makes each call, chosen at the start.
`StoreRefreshed` is the conditional write; `StoreFails` is any other failure of it (a locked
or failing vault, a transaction that does not commit), after which the stored session is one
the server has retired: it is `stranded`, like one whose answer was lost, and the exception in
`StoredSessionUsable`. `ReadFails` is a read of the session or of a token that throws. The
server is modelled by how the
code uses it: it exchanges a live refresh token, retiring it if `Rotation`, and
an answer may be lost after it took effect. Sessions are numbered as they are
granted, so "newer" is `>`.

#### `AuthFlows` and `AuthStatus`

In `AuthFlows` a process runs one command: a device login in a terminal or for an agent, an
API key login, a status that drives the pending login, a logout. Every write of
a setting is a step, because every one is a transaction of its own. `code` and
`live` are the server's: device codes, given once, and sessions whose refresh
token works. A logout in another process, a refresh by another command and the
expiry of a pending record happen in between. The stored connection settings
are left out: nothing here depends on them.

`AuthStatus` is one `auth status` beside one other process: the snapshot reads
the session, the API key and the flow in progress one after the other, and of
each first the row and then the secret. `moments` are the contents of the
settings while it was taken. The code reads the settings in the order in which a
device login replaces them, so that it can show nobody signed in where somebody
always was; `FrameTrue` allows it exactly when something new was stored
meanwhile.

#### `SessionReset`

MCP servers load credentials when they start and look at the reset generation
before each tool; commands log in, and reset the vault, meanwhile. `file` is what
the path of the database names, `data` the content of every database that some
process may still have open, `marks` the generations drawn. `checked` and `told`
say what a server last looked at and whether a reset told it. `astray` is a
history variable, a generation written into a database the path names no more.

#### `AepCredentials` and `AepApprovals`

`AepCredentials` has the setting `aep.state` for one Service with one grant type, so what `revoke`
selects is everything or one credential. `stored` is the setting, `vault` the
secrets. `setAepState` stores every credential anew, so a secret is named by the
credential and the number of the write that made it, and a number nothing knows
any more is used again. A storage operation runs from `load` to `discard`, one
action for each read or transaction; `ToCreate`, `ToChange` and `ToClear` are
the three ways `state()` goes on. `AfterEnroll` to `AfterFetch` say where a
command goes when its operation returns. `findAepIdentity` and
`deleteAepCredentials` are operations of `Storage` itself, and read no secrets.
The platform signs for an identity only when its user is logged in; everything
else platform, Service and approver answer is a choice. The order in which the
SDK's fetch uses the storage is external.

`AepApprovals` follows two of these commands through what they ask the user:
`Sign` asks InFlow for a signature, which may need an approval; `Poll`,
`Continue`, `TimeUp` and `Escape` are the wait; `Again` is the next command, of
another kind or resuming the approval; `Change` is the Service that changes what
it requires, or InFlow that gives the agent up. There is one document, which is
required or not.

### Purchases and services of others

#### `Payment`

One purchase with `mpp pay` or `x402 pay` and the `fetch` commands that resume
it. `tx` is the transaction at InFlow, `card` the charge on a linked card which
the seller's first use of the credential starts, `served` how often the seller
accepted the credential. `Deliver` is the delivery of the credential: its answer
arrives, or is lost after the seller acted, or is lost before. `Decide` and
`Bank` are the approver, the clock and the bank.

Assumptions, which the README of the CLI states or the code relies on: commands
of one purchase run one at a time, and fetch only follows an ending that says to
resume; the server cancels only what is pending and never gives a second
credential for one transaction. The codes the API server can answer are one
ending (`PAYMENT_FAILED`); aborting a command without its terminal event is not
modelled; the polling of `awaitPayload` inside the buyer SDK is external.

#### `StatusWatch`

`x402 status` and `mpp status` over `pollAsync`: `seen` are the answers, `shown`
the frames. `Snapshot`, `Terminal`, `GiveUp` and `Repeat` are the ways a poll
goes on, `Move` what InFlow does with the transaction and `Cancel` a command that
cancels its approval. A watch without bounds of its own stays when the answers
of the instance are used up; only the others must end.

#### `SellerRequests` and `Inspection`

`SellerRequests` is about what is sent: the probe of an inspection, the request
of a payment with its repetitions, a call of `openapi call`, to a seller whose
terms (authentication, price) change, with stored credentials that can be revoked
and an approval on the way. `Inspection` is about what is told: any answer of the
seller, with offers of both protocols, through the four commands that inspect, to
the report for people and for agents. There are up to two offers of a protocol.

#### `OpenApiCalls`, `OpenApiCases` and `SourceDocuments`

`OpenApiCalls` selects an operation, checks its inputs against their schemas
(`Check`, recursive like `validateSchema`) and places them into a request, which
is shown or sent. `Says` is the reference definition the check is compared
with: the set of answers a schema can give for a value when the keywords the code
does not evaluate may turn out either way. `OpenApiCases` lists the documents and
inputs of the instance.

`SourceDocuments` is the retrieval of documents: the cache all processes share,
validators and lifetimes, intermediaries that answer with an age, redirects, the
discovery of the document that describes a Service and the memory of where it
was. The origin serves one version of its site after another; time is counted in
ticks of at least one retrieval. What an intermediary answers is of one lifetime and one
retrieval ago at most (`MaxAge`): it was fresh when it was asked last.

#### `Catalog`

One `odp` or `directory` command: its input, its look at what the service offers,
its request over the bare, signing or authenticating transport, and its report.
A failure is a record of the layer it comes from and its cause.

### The vault

#### `VaultControl`

`VaultControlConnection`: `job` is the promise of each request, `waiting` and
`waitingBytes` the queue, `socket[c]` the connection that request `c` opened.
Each action is one turn of the event loop, with the whole chain of calls it
runs (`Pump` is part of every action that ends a request). `zombies` are
executions whose request was settled by a timer while they awaited something.
A frame is whole.

#### `SyncSecretStore`

The main thread blocks in `Atomics.wait`; loads, stores and exchanges on the
status word are actions of their own on both sides, and so are the copy of the
answer, the erasures, the posting of a message and the last check before the
request leaves. `terminate()` ends a worker at any later point (`Die`), in the
middle of `finish()` too. Callbacks of the main thread (`Collect`, `Exited`)
run only between calls, since the thread is blocked during one. The daemon
answers a frame once, with success, failure or nonsense, or never.

A call that was posted just when the worker closed by its idle timer is answered
by nobody and runs to its deadline; `CallsEnd` holds because of the deadline.

#### `VaultFrames`

Cells stand for lengths, pieces of JSON and bytes of secrets. `Encode` and
`Decode` translate the functions of `vault-ipc.ts`; three kinds of clients read a
stream that is cut into chunks anywhere and may end anywhere. `held` are the
buffers that hold what passed through. A request that is too large for a frame fails in
`sendVaultIpcRequest` before the block that closes the connection (`"stranded"`, the exception
in `NothingLeft`). That decoding inverts encoding for
every message (`RoundTrip`) is proved in `VaultSocketProofs` (`MessagesSurvive`);
that a sequence taken for a frame is one that was sent (`OnlyWhole`) is the
invariant `FramesTrue`, checked by TLC and proved there (`FramesAreTrue`).

#### `VaultSocket`

Server and broker: `conn[c]` is one connection with its place in the broker, the
queue or the service, `users` the counts of `admit`, `tail` the last request of
each user, after which the next one waits (`after`). Operations take their time
and end; what they do is `VaultService`'s. Clients may stay silent, leave or stop
reading. `Signal`, `CloseBroker` and `Disconnected` begin the shutdown, on one
side or on both.

#### `VaultService`

One tenant. `queue` is the promise chain of `vault-socket.ts`; `ctx` are the
contexts, of which the manager's map knows one (`current`), while a request in
service may still use another that a timer has disposed of (`at`). A request is
a sequence of steps, one for each wait for a file (`step`); what it asks for is
chosen when it is served, which is when it first matters. A wrapping key stands
for an unlock factor with the salt it was mixed with. `Publish` puts the header
in place and then the key in the context, `CannotClean` is a failure after that.
`refresh` reads the policy before it starts the timers, and that read may fail behind
every operation: what was done stays, and so do the timers (`CannotRefresh` for an unlock).

Two things to know of the code: an operation that fails after it set the key, as it
cleans up behind a new header or reads the policy, leaves the vault unlocked without
having refreshed its timers (`untimed`, the exception in `KeysExpire`); and a context disposed of during an unlock keeps
its key, unreachable for requests and for `vault lock`, until its own timer.

#### `KeyMemory`

One call of the vault at a time, divided where it can fail, on both platforms:
the protected page of the master key, opened and closed for every use, and the
native buffers. Keys are known by where they come from, the header or a page of
zeros: when Windows fails to encrypt the page again, it is cleared and the handle
lives on, and what is encrypted then opens with nothing later (`spoiled`, the
exception in `KeyKept`).

#### `VaultStartup` and `VaultFactors`

In `VaultStartup` commands (start, lock, unlock, status, stop, reset) and daemons are processes
that share the socket path and the vault's files; each look at the path, request
and removal is a step, and a deadline may pass in every state of a loop that has
one. What a command finds out about the process behind the socket (its build,
whether it may be ended) is what `vault-peer-recovery.ts` asks for.

In `VaultFactors` a request to the service is one step, and `vault unlock` and `vault
change-passphrase` are the sequences of requests that `vault-client.ts` makes of
them, among locks, timers, resets and other terminals. A header is the factor
that opens it and the salt it was made with. `outlived` is a history variable:
the reset after which a command's report is of another vault.

#### `SystemService`

The launcher, the broker it becomes (the same process after `exec`), a second
launcher that waits, `vault service start`, and `vault-launcher --stop`. A process
is one incarnation: its index stands for its start time, and its pid is given to
another one when it has been reaped.

#### `BrokerIdentity`, `ListenerOwner`

How the Linux broker makes and keeps its keys and checks who has connected, and
how macOS is asked for the owner of a listening socket, both while pids are given
to other programs. `BrokerIdentity` assumes one broker at a time, which is what
`SystemService` shows.

#### `WindowsVault`, `WindowsClient`

`WindowsVault` has the three threads of the service joined by queues: the native dispatcher of pipe
instances, the worker that drives it, and the worker that runs requests and
obeys the service control manager. A slot serves one connection after another;
its generation goes with every message. `WindowsClient` has the service control manager, the
service process with its two threads and events, and clients that start it,
verify it and keep a connection, while it is stopped, killed or upgraded.

## The runs

| Run | Parts | Question | Properties |
| --- | --- | --- | --- |
| `shared_host` | `CredentialStorage`, `SourceDocuments`, `SystemService` | Is the stored session the register of `AuthSession`, are documents as fresh as promised, and is there one broker that a stop ends? | `SessionRegister`, `DiscardSafe`, `AnswersTrue`, `OneServiceStops` |
| `credential_slots` | `CredentialStorage` (in `MCSharedHost`) | All settings, with a crash and a failing call: can every reference be read, does nothing leak, and does interrupted work end? | `StoredSecretsReadable`, `NoSilentLeak`, `InterruptedWorkEnds` |
| `credential_recovery` | `CredentialStorage` | Is what recovery removes interrupted? **No** | `RecoveryFindsInterruptedWork` |
| `requests_and_purchase` | `SessionRefresh`, `Payment`, `SellerRequests`, `StatusWatch`, `OpenApiCalls`, `Catalog`, `AuthStatus`, `Inspection`, `AepApprovals` | What one command asks of InFlow and of others: is a refresh shared, a purchase paid at most once, a request executed once, and is what is reported true? | `RefreshShared`, `StoredSessionUsable`, `OutcomeTrue`, `ExecutedOnce`, `StatusTrue`, `CallSound`, `CatalogTrue`, `RequestsAndCommandsEnd` |
| `auth_method` | `AuthFlows` | Is one login method active when all commands have ended? **No** | `OneActiveMethod` |
| `payment_failed` | `Payment` | Does `PAYMENT_FAILED` mean that nothing was paid? **No** | `PaymentFailedUnpaid` |
| `access_and_logins` | `AepCredentials`, `AuthFlows`, `SessionReset`, `VaultFactors`, `WindowsClient`, `BrokerIdentity`, `ListenerOwner` | Do overlapping commands of a user keep what was granted, and trust whom they should? | `AccessKept`, `OwnState`, `LoginKept`, `SessionsKeptApart`, `ReportedFactorOpens`, `OwnServiceOnly`, `PeersKnown` |
| `service_and_windows` | `VaultService`, `KeyMemory`, `WindowsVault` | Do secrets stay readable, keys timed and kept, queues moving and answers with their askers? | `SecretsReadable`, `CurrentKeyOpensHeader`, `KeysExpire`, `KeyKept`, `QueueMovesOn`, `AnswerToAsker`, `ControlsObeyed` |
| `sync_store` | `SyncSecretStore` | Is the handshake between the threads sound? | `CallsApart`, `SecretsErased`, `CallsEnd` |
| `vault_socket` | `VaultSocket`, `VaultFrames` | Are slots exact and returned, and frames whole? | `ConnectionsExact`, `SlotsReturn`, `FramesTrue` |
| `startup_and_control` | `VaultStartup`, `VaultControl` | Do commands that start, stop and reset daemons at once keep to what they may do, and timers, answers and connections apart? | `DaemonChecked`, `ResetForgets`, `ServiceKept`, `ConnectionKept`, `CommandsAndRequestsEnd` |
| `daemon_paths` | `VaultStartup` | Does a reachable daemon keep its socket path? **No** | `SocketKept` |

`TypeOK` is proved where a component has proofs; in the other modules it
documents the state.

Every property of a passing run has a mutant, an operator named "Mistake" or
"A plausible bug" above the definition it replaces, with which it fails.

The four runs that end in a violation are disagreements between the code and
what its documentation or tests say:

- **Recovery takes a live process's work for interrupted work**
  (`secure-storage/lifecycle.ts:119`). A process that starts lists every pending
  row of the database, those a running process is just creating as well, and
  deletes their secrets. The setting then refers to a secret that is gone.
  `StoredSecretsReadable` therefore speaks of the references no recovery listed.
- **Two login methods can be stored at once** (`auth/poll.ts:101`). The comment
  says the record is updated atomically and one method is active at a time; the
  four writes are four transactions.
- **`PAYMENT_FAILED` after a payment** (`flows/payment-fetch.ts:148`). A failure
  to write the purchased content to its file is reported by the code that the
  documentation reserves for purchases that were not made.
- **A daemon loses its socket path to another** (`vault-socket.ts:455`). Whether a
  socket is reachable is asked before its path is removed, and a closing server
  removes the path whoever bound it.

## Bounds

| Model | Bound | Why it is enough |
| --- | --- | --- |
| `CredentialStorage` | 2 processes, 6 references (three sessions) or 2 with all slots, 1 crash, 1 fault | three writers of a session: one to replace, one to lose, one to come after. Ownership and lineage relate pairs of processes. The proofs cover every number, also a refresh together with crashes and faults |
| `SourceDocuments` | 2 readers, lifetime 1, age 2, 1 hop, time 3 | a document fresh, stale and replaced; an intermediary older than the lifetime; a redirect. The proof covers every number, site and command |
| `SystemService` | 2 starts, 1 stop, 2 pids, 3 processes | a start, a rival and a stranger that gets a pid again |
| `KeyMemory` | 2 records, 2 failures at any step | the failure that spoils the page, and one after it |
| `SessionRefresh` | 3 sessions, 2 requests, 2 attempts, 1 lost answer or failing storage, 1 crash | one session to expire, one that replaces it and one that overtakes; two attempts are one retry. The proofs cover every number |
| `Payment` | 4 commands | one pay and three resumptions; a resumed command depends on `tx` and `card` only, and these have settled by then. The proof covers every number |
| `SellerRequests` | 3 changes of seller or credentials | more changes than requests of one command between which they matter. The proof covers every number |
| `StatusWatch` | 3 polls, 2 moves | an answer repeated, changed and final; moves before and after a poll. The proof covers every number |
| `OpenApiCalls` | the documents of `OpenApiCases`, references followed 4 deep (32 in the code) | each keyword the code evaluates or passes over, alone and below another one |
| `Catalog` | 2 services that answer or fail | one of each, and two of either. The proof covers every input and answer |
| `AuthStatus` | one command beside it, one request, 2 ticks | every order of one login, logout or refresh with the reads of a snapshot. The proof covers every number |
| `AepApprovals` | 2 commands, 1 document, 1 change | a command and the one that resumes it or follows it. The proof covers every number |
| `AuthFlows` | 2 processes, 3 commands, 2 codes, 3 sessions, 1 crash | two commands overlap and one follows. The proofs cover every number |
| `AepCredentials` | 3 commands in 2 processes, 2 users, 2 credentials, 8 writes, one login, failed write or crash beside them | an enrolment, a grant and what overlaps it. The proofs cover every number |
| `SessionReset` | 1 server, 2 commands, 2 saved sessions, 3 generations, 2 files | two resets that cross. The proofs cover every number, two servers too |
| `VaultFactors` | 2 terminals, 3 factors, 4 salts | a rotation, its rival and the vault made anew. The proofs cover every number |
| `WindowsClient` | 1 connection, 2 releases, 3 processes, 2 pids, 2 incidents | stop, upgrade and a reused pid between a check and its use. The proofs cover every number |
| `BrokerIdentity`, `ListenerOwner` | 2 commands, 2 keys, 2 pids; 2 programs, 3 starts | a pid given away and the key files cut by a crash. The proofs cover every number |
| `VaultControl` | 4 requests, a queue of 2 and of 3 bytes | one active, two that fill the queue, one that is refused; every method class occurs |
| `VaultStartup` | 2 commands, 3 daemons of 2 builds, 1 fault | an old daemon, its replacement and a rival's |
| `VaultService` | 2 connections that ask again and again, 2 contexts, 2 master keys, 2 wrapping keys, two policies | one context in service and one made behind it; keys and contexts nothing refers to are used again, so the run has no end. The proofs cover every number |
| `WindowsVault` | 2 slots with 2 connections in one, or one in each; 2 requests, 1 control, 1 fault | a connection, and its successor in the slot. The proof covers every number |
| `SyncSecretStore` | 2 calls, each of two parts | a call that is given up and one after it; reuse of a session and its replacement both occur. The proof covers every number |
| `VaultSocket` | 3 connections of 1 or 2 users, limits 2 and 3 | one more than each limit. The proofs cover every number and limit |
| `VaultFrames` | messages of up to two fields of 0 to 2 bytes, frames of 12 cells | no field, an empty one, one that is cut within. The proof covers every number and length |

Where one call follows another without limit in the code and a bound counts them
here, the name of the bound says so (`MaxCommands`, `MaxCalls`, `MaxSessions`).
Runs with such a bound have states without a successor and do not check for
deadlock. `credential_recovery` and `credential_slots` do, for each process can
always start again. In `VaultService` there is no such bound, but a deadlock check
would show nothing: a crash is always possible.

Symmetry of processes (and device codes) is used in runs without liveness.

## Fairness

- `CredentialStorage`: a started operation runs on (weak fairness; the code is
  synchronous and vault calls end by their deadline), closed processes are
  started again, and commands end (`Exit`, strong fairness, for a process is
  ready again and again). Nothing is assumed of crashes, faults or of what the
  user asks for. `InterruptedWorkEnds` needs that commands end: only a process
  that starts recovers.
- `requests_and_purchase` (`PartsFairness`): of the steps of a request, a refresh,
  a purchase or a status command one is taken if one can be. This is less than the
  modules state (fairness for each request and refresh) and all their liveness
  needs: every call to the server ends, answered, refused or by its time limit
  (`sendOnce` aborts at `timeoutMs`), a purchase's polls have their default limits in
  force, an event loop goes on. Nothing is assumed of the user, the approver,
  the bank or of a failure.
- `VaultControl`: timers fire and the event loop runs; the daemon need not answer.
- `VaultStartup`: a command's next step is taken, its deadlines pass, and a daemon
  that has begun to start or to end goes on.
- `VaultService`: operations on files end, in success or failure; timers fire.
- `WindowsVault`: the runtime worker runs and every operation of the vault ends;
  the dispatcher and the clients are not fair.
- `SyncSecretStore`: the main thread goes on, at the latest by its deadline; a
  turn of a worker ends; a terminated worker stops and its callbacks run. The
  daemon, the start of the worker's connection and its timers are not fair.
- `VaultSocket`: handlers go on, because timers fire and operations end; what
  closes goes on to do so. Clients are not fair.

`shared_host`, `access_and_logins` and the runs that end in a violation check
safety only.

## The proofs

Each proof is in a module that extends the component's, begins with the inductive
invariant, and has a lemma for each action or group of actions under it. TLC
checked the inductive invariants as invariants of a run before they were proved; only that
of `VaultFrames` speaks of sequences that cannot be enumerated.

### `SharedHostProofs`

Of `CredentialStorage`, for any sets of processes, references and slots and any number of
crashes and faults:

- `TypeCorrect`, `TypeSafety`. `TypeOK` alone is not inductive: a loop's step
  uses the reference it works on, so `Coherence` adds that every program counter
  that needs one has one.
- `OwnershipInvariant`: every reference has one owner at a time. `DiscardSafe`,
  which is the property one wants (nothing referenced is being discarded), is
  not inductive, since a step later an operation discards what it has read
  before: the proof must know that what an operation has in hand (`Held`) is in
  its own slot or nowhere, and what it has drawn (`Making`) nowhere at all. The
  four ways references change hands, giving up, drawing, replacing, remembering,
  are lemmas. `DiscardSafety` follows.
- `LineageInvariant`: while the session a refresh compares with is stored, its
  login is the one the refresh remembers. It needs ownership: no other write can
  bring that session back.
- `StorageImplementsRegister`: the refinement of `AuthSession`, from the three
  invariants: a commit of a login or of a refresh and a clear are steps of the
  register, everything else stutters.
- `SafekeepingInvariant`, `StoredSecretsStayReadable`: a stored reference has its
  secret and an active row unless a recovery listed it. `Progress(p)` says for
  each place of an operation which of its references are finished and how far the
  one in work is; `Safekeeping` joins it with what a recovery may touch, which is
  what it listed. The lemmas `OthersProgress` and `Idling` say when a step of one
  process keeps the progress of the others: it touches only references it owns,
  which ownership keeps apart.
- `NothingLeaks`: the action property `NoSilentLeak`, with its three exceptions. Each step accounts for the
  active secrets nothing refers to by what the operation in work still has in
  hand (`Mine`).

Of `SystemService`, for any number of processes, pids, starts and stops and any reuse of a
pid: `OneServiceIsStopped` (`ServiceInvariance`). Three facts carry it. The
process between its probe and its end holds the lock, so only the holder
has the socket and writes the record (`LockHolding`). A pid names one present process (`PidsApart`).
And a record, whenever it was read, names a process that was born a service (`NamesService`): so a
stop that finds the start time it read has the handle of that process and of no other
(`AimedAt`), also when the pid was given away between any two of its steps.

Of `SourceDocuments`, for any processes, sites, commands, lifetimes and redirects:
`AnswersAreTrue`. What the processes share is the cache, so the invariant says of each row and
of each location, while it lasts, that the origin served it within one lifetime and one
retrieval of its end (`RowIs`, `LocationIs`): an expiry stands for a time at which something
was so. A command carries two such times, its own beginning and the earliest expiry of what it
has found (`Times`), and what led it to its step was so since either (`Grounds`); the
second is what it may remember. Whatever was so stays so while the origin and the clock
go on (`Onward`, `CommandLater`), so that each step only has to show what it adds. An answer of
304 is of the representation the row has, because an entity tag names one.

### `SessionRefreshProofs`

For any number of processes, requests, sessions and attempts: `RefreshIsShared`
and `StoredSessionIsUsable`. Neither is inductive. What makes them so: the stored
session only gives way to later ones, and what a request or a refresh has read
is of the past (`Past`, `Onward`); a session a process has been granted and not
yet stored is known to nobody else (`Brought`, `FreshInv`); and the number of
times a process has asked for a session is one more than it failed only while
its map of refreshes has an entry (`AskedInv`). A session whose exchange is not stored, because the
answer was lost or the storage failed, is remembered as `stranded`.

Of the commands of `CommandParts`, one section each, for any number of polls, changes,
resumptions, rounds and restarts:

- `RequestsExecuteOnce` (`ErrandInv`), of `SellerRequests`: until an answer or the loss of one
  ends the command the seller has executed nothing (`ErrandUnexecuted`), only the transport of
  the pay and fetch commands signs and pays (`ErrandKind`), and no approval is outstanding
  beside a signature (`ErrandSignature`).
- `PurchasesAreTrue`, of `Payment` and `AepApprovals` (`PurchaseInv`, `ApproveInv`): where a
  command is says what it has sent and what the seller made of it (`PurchaseSent`), an outcome
  that may be resumed was not served (`PurchaseResumable`), and what is sent was approved
  (`PurchaseApproved`). An AEP command says and sends nothing before its end, goes on
  only under an approved approval, and asked for that one with the documents it has seen.
- `StatusIsTrue`, of `StatusWatch` and `AuthStatus`. A watch that goes on has shown the changes of
  what it was answered and its last answer was pending (`WatchInv`): the sequence of changes is
  a recursive function, and what appending does to it is proved by the least number that
  would refute it. Who is signed in is read in several steps; references only
  grow, so a secret that is not there belongs to a setting that was replaced or
  cleared since it was read, and nothing read means that nothing is there now
  unless it is new (`SignInInv`).
- `ReportsAreTrue`, of `Catalog` and `Inspection`: where an `odp` command is says what it
  has asked and seen (`BrowseInv`); an inspection looks for a stored credential only for a
  reason its report names, and its three sections take the same view of the answers as
  the commands that pay and sign (`InspectInv`).

### `AepCredentialsProofs`

For any number of processes, users, credentials and writes: `AccessIsKept` and
`StateIsTheUsers`. The invariant says of every command in the middle of an
operation which state it holds in memory, whose it is (`Owned`), from which
stored state it was made (`Written`, `Change`), and which secrets only it knows
(`SecretInv`, with `Private` and `Useless`); the exceptions the properties name
(`overtaken`, `outlived`, `strayed`) are set exactly when a command's state is
behind the stored one. The lemmas `Removes`, `Quiet`, `Writes` and `Moves`
are the four effects a step can have on the others. The smallest and greatest
number of a finite set exist by the well-foundedness of finite sets (`Least`,
`Greatest`).

### `SyncSecretStoreProofs`

For any number of calls: `CallsKeepApart`. The invariant follows one job: it is
not posted and held by nobody, or held by one worker, which alone is the
session's, until its answer is in shared memory (`WaitInv`, `Unposted`); a worker
is clear before every post (`Tidy`, `Clear`). The lemmas
`TurnInv`, `QuietTurn` and `MainInv` say which steps of one thread the other's part of
the invariant survives.

### `VaultServiceProofs`

For any number of connections, contexts, master keys, wrapping keys and policies:

- `TypeSafety`, whose proof needs `QueueInv` (a request in service is in the
  queue and asks for something) and `PublishInv` (only a change of passphrase
  publishes over a header).
- `SecretsAreReadable`, `CurrentKeyIsTheHeaders`. Neither is inductive without
  the other: a secret is encrypted under the context's key, which is the
  header's; nor without `WipeInv` (during a reset no context can be reached and
  the records go before the header).
- `MasterKeyIsKept`: a change of passphrase rewraps the same key.
- `KeysDoExpire`, except after a request that set the key and then failed, from `KeyInv`, the same statement in the middle of a request,
  and `TimerInv`: a context's timers follow the policy, and one that was
  disposed of in the middle of its request had a timer.
- `KeyIsKept`, of `KeyMemory` for any records and failures at any of its steps: each stage of a call
  has one buffer (`StageBuffers`) and every way out gives it back; and the key in use is the
  master key unless a page was cleared (`KeyInUse`), which only Windows does.
- `AnswersReachAskers`, of `WindowsVault` for any slots, users, requests, limits and bounds: whatever
  is under way between the threads is of an earlier connection of its slot, or the slot waits for
  it; requests of a slot are numbered in sequence; and an answer with the number awaited is the
  latest of the connection, made with its user's vault (`AnswerInv`).
- `VaultsLockBetween`, the safety half of `ControlsObeyed`: no lock waits in the queue before a request
  that runs (`NoneAhead`), and only the lock itself, from the head, takes a lock out of the queue
  (`QueueSteps`).
- `PartsAreSafe`, here and in `SharedHostProofs`, `VaultStartupProofs`, `VaultSocketProofs` and
  `AccessAndLoginsProofs`: whichever part a behaviour of the checked specification is of, it is a
  behaviour of each part's own, so what is proved of the parts holds of it.

### `VaultStartupProofs`

Of `VaultStartup`, for any number of commands, daemons, builds and faults:

- `SharedServiceIsKept`: a command that talks to a service of the operating system is at no point
  from which one stops, replaces or removes (`SharedLeft`).
- `ResetIsForgotten`: databases made are younger than the one the reset found, and the reset comes
  to the point where it reports success only when that one has gone (`Forgetting`).

Of `VaultControl`, for any requests, lengths and limits (`ControlInvariance`):

- `OnlyCheckedDaemonsHear`: what was written before the proof of the build carries no secret.
- `ConnectionIsKept`: only the connection of the active request can be open, be idle or
  have a frame under way (`Sound`), so that a timeout of one request or the idle
  timer meets no other. The bytes of the queue are a recursive function over a
  sequence; that appending, taking the head and removing from the middle change them as the
  code's counter changes (`BytesAppend`, `BytesSplit`) is proved without an
  induction theorem: of the numbers that would refute it there is a least one
  (`LeastNatural`, from the well-foundedness of the natural numbers), and it refutes nothing.

### `VaultSocketProofs`

For any number of connections, users and faults and any limits: `ServerIsExact`.
The counts of `admit` are cardinalities of sets of connections (`Counts`); the
requests of a user stand in one line (`Line`, `Tails`). That the line has no
circle, which is what keeps two operations from both being the last, is stated
without recursion: every non-empty set of waiting requests has one whose
predecessor is outside it. Each handler is one of a few effects on the others
(`Moves`, `Rests`, `Forgets`, `Ends`, `Loses`, ...), each a lemma.

Of `VaultFrames`, for messages with any number of byte fields of any length, and any limit:

- `MessagesSurvive` (`RoundTrip`): what is encoded is well formed and decodes to the same message. Both the
  attachments of a frame and their ends are recursive functions; that they exist (`Recursion`) and
  meet cell by cell (`AttachedIs`, `AttachmentEndIs`) is proved by the least number that would refute it.
- `FramesAreTrue` (`FramesInvariance`): what a client has read, followed by what is on the wire, is
  the beginning of what the peer said (`Begins`), however it was cut; a frame is as long as its first
  number says, so that no part of it and nothing longer is one (`WholeOnly`).

### `AccessAndLoginsProofs`

Six components of the run `access_and_logins`, each for any sets and bounds:

- `LoginsAreKept` (`FlowsInvariance`): tokens that are granted and not yet stored are of
  a session nobody has stored, revoked or remembered; a code that was not
  announced is known to nobody else; a session about to be revoked is not the
  stored one.
- `SessionsStayApart` (`ResetsInvariance`): the path names nothing only at the
  start and after a torn reset (`Kept`); a server that would pass the check has the
  path's database, and has had it since the last reset that left its generation
  there (`Faithful`); a login's database is the path's unless a reset has begun since.
- `ReportedFactorsOpen` (`UnlocksInvariance`): a command that found its factor right is
  right about the header with the salt it used, as long as that header is there.
- `OwnServiceIsTold` (`WindowsInvariance`): what was checked of a connection is true of
  the process at its other end; a main thread that lives is known to the service control
  manager, and a process that serves a pipe without is told to stop.
- `PeersAreKnown` (`BrokerInvariance`, `ListenerInvariance`): public keys are
  published from the private one only; who has the pid of a command while it lives is the
  command; births only grow, so that a process found twice with one start
  time is one process.
- `PartsAreSafe`, as in `VaultServiceProofs`.

### What they rest on

They rest on the named assumptions of the modules, which say that the markers
(`None`, `Nobody`, `NoRef`) are no members of the sets they stand beside, that bounds are
numbers and sets that are counted finite. TLC evaluates them in the runs of
those modules. No theorem assumes a bound: crashes, faults, commands and sessions are
unbounded in them.

### Only model-checked

- Liveness (`InterruptedWorkEnds`, `SecretsErased`, `QueueMovesOn`, `ControlsObeyed`, `CallsEnd`,
  `SlotsReturn`, `RequestsAndCommandsEnd`, `CommandsAndRequestsEnd`): fairness is out of the
  prover's reach.
- `CallSound`: `OpenApiCalls` is recursive like the code (`RECURSIVE`, over schemas inside
  schemas), which no installed prover can follow. It is the only invariant of a run without a
  theorem.
- The composition of the parts of `requests_and_purchase`: its module reaches the recursive
  `OpenApiCalls`, so the theorems of `SessionRefreshProofs` are about each part's own
  specification. The parts of the other runs are composed by the theorems `PartsAreSafe`.

## What the checks found

Beyond the four violations above, modelling, checking and the attempts to prove
turned up behaviour that no document speaks of. Where a property has an exception
for it, its comment says so.

- **Credential storage.** A replaced secret whose row cannot be marked, because another
  process holds the database for the whole busy timeout or the disk is full, stays in the vault for ever:
  `discardSecrets` (`utils/storage.ts:560-566`) swallows the error and no later start looks at
  "active" rows (the third exception in `NoSilentLeak`). A concurrent first opening of the database can fail as
  corrupt (`SQLITE_BUSY` before the busy timeout is set); not modelled. The document cache
  (`core/src/aep/storage.ts:62-86`) is read and replaced as a whole: two processes
  lose each other's records; not modelled.
- **Session refresh.** When the tokens of a refresh cannot be stored (`utils/storage.ts:215-237`)
  the server has already retired the stored refresh token: the user has to log in again,
  though no answer was lost (`stranded`).
- **Vault messages.** `sendVaultIpcRequest` encodes its request outside of the block that closes the
  connection (`vault-socket.ts:116-118`): one that is too large leaves the connection open, and the
  promise of its answer without anybody who handles its failure.
- **AEP credentials.** A revoke that overlaps a save puts back references to
  secrets the save has deleted, after which `getAepState` fails for every command
  of the user until a logout; a command still running when its user logs out
  leaves a state behind; an identity asked for after a login as another user
  is stored under the first one (`overtaken`, `outlived`, `strayed`).
- **AEP approvals.** A denial by InFlow or the Service after the user approved has the
  code of a declined approval; a fetch may report "not enrolled" or "cancelled" though it
  sent something; a resumed enrolment does not compare documents.
- **Resets.** With two MCP servers, the proof attempt found that a server whose
  database another reset removed writes its new generation into the removed
  file: until the wipe of that reset, or for ever if the daemon does not answer,
  the other server goes on with sessions saved after the reset began (`astray`, 19
  steps; `utils/storage.ts:520-528`).
- **Unlocks.** Three commands can make `vault unlock` report success for a factor that
  no longer opens the vault: one unlocks while another, which read the salt before, makes the vault anew
  with its own factor after a reset (`outlived`). `set-policy` is two requests; two at once
  lose a change; not modelled.
- **Startup.** `shutdownStaleDaemon` can end a compatible daemon that another command just
  started; a reset that found no daemon can remove files under one just started.
- **System service.** A stop that reads the stale record of an ended broker while a launcher holds the
  lock returns success, and the service starts; a launcher that begins while a stop
  holds the lock waits out its ten seconds.
- **Payments.** A status in a terminal without an interval shows a
  pending transaction as failed (`async-poll.ts:57`, `x402-status.ts:78-118`, `mpp-status.ts:71-110`), while
  `cli/src/commands/x402/schema.ts:121` promises the current snapshot (the exception in `EndingTrue`); a
  cancelled approval is pending for an x402 poll to its deadline; the view of a cancellation says
  cancelled whatever became of it.
- **Seller requests.** The authenticated probe of a combined inspection is
  reported as blocked when its answer was lost; a payment is preceded by an
  unpaid request also when a credential is at hand, and a seller that stopped
  charging is reported as paid.
- **Inspection.** A 401 without an AEP challenge is reported as "Authentication not
  required" once the Service has a document; the human view says "Payment required" of x402 offers of which
  none is supported; `aep inspect` says "Not required" of a resource that answers with an error.
- **OpenAPI.** Values that `patternProperties` or `prefixItems` allow are held to
  the keywords beside them and refused (the exception in `ChecksSound`).
- **Sign-in status.** `auth status` can show nobody signed in where somebody always
  was; an MCP server decides once whose credentials its requests carry, so that after a login of
  the other kind the status says signed in and every request fails (`cli.tsx:318-337`).
- **Documents.** The time a document stays fresh is reduced by the `Age` of its own answer, and
  not by that of a redirect on the way to it (`openapi/documents.ts:140`). The proof attempt found
  that the redirect which led to a document may therefore have ended before what is promised
  of the document; `Was` allows it the age of an intermediary. With an intermediary older than one lifetime and one retrieval the
  statement would be false for a command that asked for no refresh.
- **Offerings.** Services that fail within `discover` are passed over without a word.
- **Key memory.** After a failed re-protection on Windows the handle encrypts with zeros until the
  vault is locked (`spoiled`); buffers in JavaScript are not erased on every path.
- **Windows client.** The runtime thread is started before the readiness event
  is reset (`vault_peer_windows.c:913`): readiness can be lost, and the service is reported stopped after
  20 seconds.

## What is not modelled

- The primitives of cryptography: a wrapping key opens exactly what was wrapped
  with it. Buffers of JavaScript and the hardening of the process. Signatures of
  executables: an answer of the operating system.
- Repetition of API calls after network failures: it repeats the request and
  touches no state of the client. What the server does with a request it gets
  twice is not in this repository.
- In `AepCredentials`, what `auth logout` does after `clearAepState`: it resets the vault and removes
  the database (`cli/src/commands/auth/index.tsx:406-417`), which are `SessionReset`'s and
  `VaultStartup`'s. In `AuthFlows`, a logout whose write throws: it goes on to the reset.
- A process that impersonates the pipe of the Windows service: `WindowsClient` has services of two
  releases that are stopped, killed and replaced, and other programs that are given their pids.
- `vault unlock` with an explicit format, which reads the status without starting a daemon and
  changes nothing (`cli/src/commands/vault/index.ts:118-125`); `VaultStartup` has the one that does.
- Stored connection settings, the cache of AEP documents, the write-ahead log
  files of SQLite, `MemoryStorage`, `vault set-policy`, development servers.
- Challenge selection, amounts, formats, views, prompts, argument parsing, pages
  of offerings, payment filters, and the reads of balances, subscriptions, deposit addresses and
  the user: sequential, and without a state that outlives the command.
- The reading of OpenAPI documents before `localSchema`, the address checks of
  `public-fetch.ts`, the budget of schema evaluations.
- Installers and packages: sequential, outside the program.
- Under systemd the socket is the unit's; `SystemService` is the host without it.

## Plan

1. Done: every component above that keeps a state, with its runs; the eight modules of proofs.
2. Done: theorems for every invariant of the runs but `CallSound`, which is out of the prover's reach.
3. Compositions: `VaultControl` with `VaultSocket`, so that a client's deadline
   meets the server's queue; an abstract vault, a map of secrets with a lock,
   that `VaultService` implements.
4. The document cache of AEP and the first opening of the database, both as
   further operations of `CredentialStorage`.
