-------------------------- MODULE VaultServiceProofs --------------------------
(***************************************************************************)
(* Proofs about the parts of MCVaultService: VaultService for any number   *)
(* of requests, contexts, keys and wrapping keys, KeyMemory for any number *)
(* of records and failures, and WindowsVault for any number of slots,      *)
(* users, connections and requests.                                        *)
(*                                                                         *)
(* The properties of VaultService are not inductive by themselves: that a  *)
(* published header keeps the master key needs to know that a first header *)
(* is made only while there is none (PublishInv), that a reset removes the *)
(* header last of all (WipeInv), and that timers which disposed of a       *)
(* context in the middle of its request are those of the stored policy     *)
(* (TimerInv).                                                             *)
(***************************************************************************)
EXTENDS MCVaultService, TLAPS

Reading == {"header", "publish", "clean"}

\* A request that waits for a file is in service; one that reads the header has
\* a context.
QueueInv ==
  /\ step # "begin" => queue # <<>>
  /\ step \in Reading => at \in Contexts /\ asked \in Reads

\* A header is made for the first unlock or for a change, never else.
PublishInv ==
  step = "publish" => IF header = None THEN asked.kind = "unlock" ELSE asked.kind = "change"

\* While files are removed no context can be reached, and the header goes last.
WipeInv ==
  /\ step \in {"wipe", "wipeHeader"} => current = None
  /\ step = "wipeHeader" => records = {}

TypeInv == TypeOK /\ QueueInv

\* KeysExpire in the middle of a request, too.
KeyInv ==
  \A c \in Contexts \ untimed : ctx[c].key # None /\ ~(step = "clean" /\ c = at) =>
    IF c = current THEN ctx[c].timers = policy ELSE ctx[c].timers # Off

\* The current context's timers are stopped or follow the policy; a context was
\* disposed of in the middle of its request only if the policy sets a timer.
TimerInv ==
  /\ current # None => ctx[current].timers \in {Off, policy}
  /\ step \in Reading /\ at # current => policy # Off

SafeInv == SecretsReadable /\ CurrentKeyOpensHeader /\ PublishInv /\ WipeInv

ExpiryInv == KeyInv /\ TimerInv

-----------------------------------------------------------------------------
(* The queue.                                                               *)

\* Releasing the queue keeps it a queue of requests.
LEMMA ReleaseTyped ==
  ASSUME TypeInv, Serving, Release
  PROVE  /\ queue' \in Seq(Requests) /\ gone' \subseteq Requests
         /\ step' = "begin" /\ asked' = None /\ at' = None
         /\ QueueInv'
  BY DEF Release, Serving, TypeInv, TypeOK, QueueInv, Reading

\* A context that is found is a context.
LEMMA FoundTyped ==
  ASSUME TypeOK, NEW c \in Contexts
  PROVE  /\ Found(c) \in Context /\ ctx[c] \in Context /\ Fresh \in Context /\ Off \in Policy
         /\ \A p \in Policy : Refreshed(Found(c), p) \in Context /\ Refreshed(ctx[c], p) \in Context
         /\ \A k \in Keys : [ctx[c] EXCEPT !.key = k] \in Context
  BY DEF TypeOK, Found, Context, Fresh, Off, Policy, Refreshed

\* The end of an operation in context c.
LEMMA EndsTyped ==
  ASSUME TypeInv, Serving, NEW c \in Contexts, NEW context \in Context, Ends(c, context)
  PROVE  /\ queue' \in Seq(Requests) /\ gone' \subseteq Requests
         /\ step' = "begin" /\ asked' = None /\ at' = None
         /\ ctx' \in [Contexts -> Context] /\ untimed' \subseteq Contexts
         /\ QueueInv'
<1>1. Release
  BY DEF Ends
<1>2. ctx' \in [Contexts -> Context] /\ untimed' \subseteq Contexts
  BY DEF Ends, TypeInv, TypeOK
<1> QED
  BY <1>1, <1>2, ReleaseTyped DEF Release

LEMMA FailsTyped ==
  ASSUME TypeInv, NEW c \in Contexts, Serving, Fails(c), current' = c
  PROVE  TypeInv'
<1>1. Ends(c, Found(c)) /\ UNCHANGED files
  BY DEF Fails
<1>2. Found(c) \in Context
  BY FoundTyped DEF TypeInv
<1> QED
  BY <1>1, <1>2, EndsTyped DEF TypeInv, TypeOK, files

\* An operation that ends refreshed leaves everything typed.
LEMMA RefreshedTyped ==
  ASSUME TypeInv, NEW c \in Contexts, Serving, NEW p \in Policy, Ends(c, Refreshed(Found(c), p)),
         current' = c, header' = header, records' \subseteq Keys, policy' \in Policy
  PROVE  TypeInv'
<1>1. Refreshed(Found(c), p) \in Context
  BY FoundTyped DEF TypeInv
<1> QED
  BY <1>1, EndsTyped DEF TypeInv, TypeOK

\* One whose refresh failed does so, too.
LEMMA UnrefreshedTyped ==
  ASSUME TypeInv, NEW c \in Contexts, Serving, Ends(c, Found(c)), current' = c,
         header' = header, records' \subseteq Keys, policy' \in Policy
  PROVE  TypeInv'
<1>1. Found(c) \in Context
  BY FoundTyped DEF TypeInv
<1> QED
  BY <1>1, EndsTyped DEF TypeInv, TypeOK

-----------------------------------------------------------------------------
(* Types.                                                                   *)

LEMMA TypeInvInit == Init => TypeInv
<1> SUFFICES ASSUME Init PROVE TypeInv
  OBVIOUS
<1>1. TypeOK
  BY DEF Init, TypeOK, Context, Fresh, Off, Policy, Default
<1>2. QueueInv
  BY DEF Init, QueueInv, Reading
<1> QED
  BY <1>1, <1>2 DEF TypeInv

LEMMA PublishedTyped ==
  ASSUME TypeInv, Serving, step = "publish", NEW wrap \in Wraps, NEW k \in Keys, Published(wrap, k)
  PROVE  TypeInv'
<1>1. [ctx[at] EXCEPT !.key = k] \in Context
  BY FoundTyped DEF TypeInv, QueueInv, Reading
<1>2. QueueInv'
  BY DEF Published, Serving, TypeInv, QueueInv, Reading
<1> QED
  BY <1>1, <1>2 DEF Published, TypeInv, TypeOK

LEMMA TypeInvStep == TypeInv /\ PublishInv /\ [Next]_vars => TypeInv'
<1> SUFFICES ASSUME TypeInv, PublishInv, [Next]_vars PROVE TypeInv'
  OBVIOUS
<1>1. ASSUME NEW r \in Requests, Ask(r) PROVE TypeInv'
  <2>1. queue' \in Seq(Requests) /\ queue' # <<>>
    BY <1>1 DEF Ask, TypeInv, TypeOK
  <2> QED
    BY <1>1, <2>1 DEF Ask, TypeInv, TypeOK, QueueInv, files
<1>2. ASSUME NEW r \in Requests, Disconnect(r) PROVE TypeInv'
  BY <1>2 DEF Disconnect, TypeInv, TypeOK, QueueInv, files
<1>3. ASSUME Refuse PROVE TypeInv'
  BY <1>3, ReleaseTyped DEF Refuse, Release, TypeInv, TypeOK, files
<1>4. ASSUME NEW c \in Contexts, Lock(c) PROVE TypeInv'
  <2>1. Serving /\ Ends(c, Fresh) /\ Fresh \in Context /\ current' = c /\ UNCHANGED files
    BY <1>4, FoundTyped DEF Lock, Serve, TypeInv
  <2> QED
    BY <2>1, EndsTyped DEF TypeInv, TypeOK, files
<1>5. ASSUME NEW c \in Contexts, Get(c) PROVE TypeInv'
  <2>1. Serving /\ current' = c /\ policy \in Policy /\ records \subseteq Keys
    BY <1>5 DEF Get, Serve, TypeInv, TypeOK
  <2>2. CASE Fails(c)
    BY <2>1, <2>2, FailsTyped
  <2>3. CASE Ends(c, Refreshed(Found(c), policy)) /\ UNCHANGED files
    BY <2>1, <2>3, RefreshedTyped DEF files
  <2> QED
    BY <1>5, <2>2, <2>3 DEF Get
<1>6. ASSUME NEW c \in Contexts, Put(c) PROVE TypeInv'
  <2>1. Serving /\ current' = c /\ policy \in Policy /\ records \subseteq Keys /\ Found(c).key \in Keys \cup {None}
    BY <1>6, FoundTyped DEF Put, Serve, TypeInv, TypeOK, Context
  <2>2. CASE Fails(c)
    BY <2>1, <2>2, FailsTyped
  <2>3. CASE /\ Found(c).key # None /\ records' = records \cup {Found(c).key}
             /\ Ends(c, Refreshed(Found(c), policy)) /\ UNCHANGED <<header, policy>>
    BY <2>1, <2>3, RefreshedTyped
  <2>4. CASE /\ Found(c).key # None /\ records' = records \cup {Found(c).key}
             /\ Ends(c, Found(c)) /\ UNCHANGED <<header, policy>>
    BY <2>1, <2>4, UnrefreshedTyped
  <2> QED
    BY <1>6, <2>2, <2>3, <2>4 DEF Put
<1>7. ASSUME NEW c \in Contexts, Delete(c) PROVE TypeInv'
  <2>1. Serving /\ current' = c /\ policy \in Policy /\ records \subseteq Keys
    BY <1>7 DEF Delete, Serve, TypeInv, TypeOK
  <2>2. CASE Fails(c)
    BY <2>1, <2>2, FailsTyped
  <2>3. CASE /\ records' \in {records, {}}
             /\ Ends(c, Refreshed(Found(c), policy)) /\ UNCHANGED <<header, policy>>
    BY <2>1, <2>3, RefreshedTyped
  <2>4. CASE /\ records' \in {records, {}}
             /\ Ends(c, Found(c)) /\ UNCHANGED <<header, policy>>
    BY <2>1, <2>4, UnrefreshedTyped
  <2> QED
    BY <1>7, <2>2, <2>3, <2>4 DEF Delete
<1>8. ASSUME NEW c \in Contexts, SetPolicy(c) PROVE TypeInv'
  <2>1. Serving /\ current' = c /\ records \subseteq Keys
    BY <1>8 DEF SetPolicy, Serve, TypeInv, TypeOK
  <2>2. CASE Fails(c)
    BY <2>1, <2>2, FailsTyped
  <2>3. CASE policy' \in Policies /\ Ends(c, Refreshed(Found(c), policy')) /\ UNCHANGED <<header, records>>
    <3>1. policy' \in Policy
      BY <2>3, PoliciesAssumption
    <3> QED
      BY <2>1, <2>3, <3>1, RefreshedTyped
  <2> QED
    BY <1>8, <2>2, <2>3 DEF SetPolicy
<1>9. ASSUME NEW c \in Contexts, ReadsHeader(c) PROVE TypeInv'
  <2>1. Serving /\ queue # <<>> /\ current' = c /\ policy \in Policy /\ UNCHANGED files /\ Found(c) \in Context
    BY <1>9, FoundTyped DEF ReadsHeader, Serve, Serving, TypeInv, TypeOK
  <2>2. CASE Ends(c, Refreshed(Found(c), policy))
    BY <2>1, <2>2, RefreshedTyped DEF TypeInv, TypeOK, files
  <2>4. CASE Ends(c, Found(c))
    BY <2>1, <2>4, UnrefreshedTyped DEF TypeInv, TypeOK, files
  <2>3. CASE /\ step' = "header" /\ at' = c /\ ctx' = [ctx EXCEPT ![c] = Found(c)]
             /\ untimed' = (IF c = current THEN untimed ELSE untimed \ {c})
             /\ asked' \in Reads /\ UNCHANGED <<queue, gone>>
    <3>1. QueueInv'
      BY <2>1, <2>3 DEF QueueInv
    <3> QED
      BY <2>1, <2>3, <3>1 DEF TypeInv, TypeOK, files
  <2> QED
    BY <1>9, <2>2, <2>3, <2>4 DEF ReadsHeader
<1>10. ASSUME NEW c \in Contexts, Reset(c) PROVE TypeInv'
  <2>1. queue # <<>> /\ Fresh \in Context
    BY <1>10, FoundTyped DEF Reset, Serve, Serving, TypeInv
  <2>2. QueueInv'
    BY <1>10, <2>1 DEF Reset, QueueInv, Reading
  <2> QED
    BY <1>10, <2>1, <2>2 DEF Reset, Disposed, TypeInv, TypeOK, files
<1>11. ASSUME Status PROVE TypeInv'
  <2>1. Serving /\ at \in Contexts /\ policy \in Policy /\ UNCHANGED <<current, files>>
    BY <1>11 DEF Status, TypeInv, TypeOK, QueueInv, Reading
  <2>2. PICK context \in Context : Ends(at, context)
    BY <1>11, <2>1, FoundTyped DEF Status, TypeInv
  <2> QED
    BY <2>1, <2>2, EndsTyped DEF TypeInv, TypeOK, files
<1>12. ASSUME Unlock PROVE TypeInv'
  <2>1. Serving /\ at \in Contexts /\ policy \in Policy /\ UNCHANGED <<current, files>> /\ header.key \in Keys
    BY <1>12 DEF Unlock, TypeInv, TypeOK, QueueInv, Reading
  <2>2. [ctx[at] EXCEPT !.key = header.key] \in Context /\ ctx[at] \in Context
    BY <2>1, FoundTyped DEF TypeInv
  <2>3. Refreshed([ctx[at] EXCEPT !.key = header.key], policy) \in Context
    BY <2>1, <2>2 DEF Refreshed, Context
  <2>4. PICK context \in Context : Ends(at, context)
    BY <1>12, <2>2, <2>3 DEF Unlock
  <2> QED
    BY <2>1, <2>4, EndsTyped DEF TypeInv, TypeOK, files
<1>13. ASSUME Prepare PROVE TypeInv'
  <2>1. QueueInv'
    BY <1>13 DEF Prepare, Serving, TypeInv, QueueInv, Reading
  <2> QED
    BY <1>13, <2>1 DEF Prepare, TypeInv, TypeOK, files
<1>14. ASSUME WrongWrappingKey PROVE TypeInv'
  BY <1>14, ReleaseTyped DEF WrongWrappingKey, Release, TypeInv, TypeOK, files
<1>15. ASSUME Publish PROVE TypeInv'
  <2>1. Serving /\ step = "publish" /\ asked \in Reads
    BY <1>15 DEF Publish, TypeInv, QueueInv, Reading
  <2>2. CASE asked.kind = "unlock" /\ \E k \in Keys : NewKey(k) /\ Published(asked.wrap, k)
    <3>1. asked.wrap \in Wraps
      BY <2>1, <2>2 DEF Reads
    <3>2. PICK k \in Keys : Published(asked.wrap, k)
      BY <2>2
    <3> QED
      BY <2>1, <3>1, <3>2, PublishedTyped
  <2>3. CASE asked.kind = "change" /\ Published(asked.next, header.key)
    <3>1. asked.next \in Wraps
      BY <2>1, <2>3 DEF Reads
    <3>2. header.key \in Keys
      BY <1>15, <2>3 DEF Publish, TypeInv, TypeOK, PublishInv
    <3> QED
      BY <2>1, <2>3, <3>1, <3>2, PublishedTyped
  <2> QED
    BY <1>15, <2>2, <2>3 DEF Publish
<1>16. ASSUME CannotPublish PROVE TypeInv'
  BY <1>16, ReleaseTyped DEF CannotPublish, Release, TypeInv, TypeOK, files
<1>17. ASSUME Clean PROVE TypeInv'
  <2>1. Serving /\ at \in Contexts /\ policy \in Policy /\ Ends(at, Refreshed(ctx[at], policy))
    BY <1>17 DEF Clean, TypeInv, TypeOK, QueueInv, Reading
  <2>2. Refreshed(ctx[at], policy) \in Context
    BY <2>1, FoundTyped DEF TypeInv
  <2> QED
    BY <1>17, <2>1, <2>2, EndsTyped DEF Clean, TypeInv, TypeOK, files
<1>18. ASSUME CannotClean PROVE TypeInv'
  <2>1. at \in Contexts
    BY <1>18 DEF CannotClean, TypeInv, QueueInv, Reading
  <2> QED
    BY <1>18, <2>1, ReleaseTyped DEF CannotClean, Release, TypeInv, TypeOK, files
<1>19. ASSUME Wipe PROVE TypeInv'
  <2>1. QueueInv'
    BY <1>19 DEF Wipe, Serving, QueueInv, Reading
  <2> QED
    BY <1>19, <2>1 DEF Wipe, TypeInv, TypeOK, Default, Policy
<1>20. ASSUME WipeHeader PROVE TypeInv'
  BY <1>20, ReleaseTyped DEF WipeHeader, Release, TypeInv, TypeOK
<1>21. ASSUME CannotWipe PROVE TypeInv'
  BY <1>21, ReleaseTyped DEF CannotWipe, Release, TypeInv, TypeOK, files
<1>22. ASSUME NEW c \in Contexts, Expire(c) PROVE TypeInv'
  <2>1. Fresh \in Context
    BY FoundTyped DEF TypeInv
  <2>2. QueueInv'
    BY <1>22 DEF Expire, TypeInv, QueueInv
  <2> QED
    BY <1>22, <2>1, <2>2 DEF Expire, Disposed, TypeInv, TypeOK, files
<1>23. ASSUME Crash PROVE TypeInv'
  BY <1>23 DEF Crash, TypeInv, TypeOK, QueueInv, Reading, Context, Fresh, Off, Policy, files
<1>24. CASE UNCHANGED vars
  BY <1>24 DEF vars, files, TypeInv, TypeOK, QueueInv
<1>25. ASSUME CannotRefresh PROVE TypeInv'
  <2>1. at \in Contexts /\ header.key \in Keys
    BY <1>25 DEF CannotRefresh, Opens, TypeInv, TypeOK, QueueInv, Reading
  <2>2. [ctx[at] EXCEPT !.key = header.key] \in Context
    BY <2>1, FoundTyped DEF TypeInv
  <2> QED
    BY <1>25, <2>1, <2>2, ReleaseTyped DEF CannotRefresh, Release, TypeInv, TypeOK, files
<1> QED
  BY <1>1, <1>2, <1>3, <1>4, <1>5, <1>6, <1>7, <1>8, <1>9, <1>10, <1>11, <1>12, <1>13, <1>14, <1>15, <1>16, <1>17, <1>18, <1>19, <1>20, <1>21, <1>22, <1>23, <1>24, <1>25 DEF Next, Progress

-----------------------------------------------------------------------------
(* Keys and secrets.                                                        *)

LEMMA SafeInvInit == Init => SafeInv
  BY DEF Init, SafeInv, SecretsReadable, CurrentKeyOpensHeader, PublishInv, WipeInv

\* A key, if there is one, is the header's.
OfHeader(k) == k # None => header # None /\ k = header.key

\* A context the manager finds has the header's key or none.
LEMMA FoundSafe ==
  ASSUME TypeInv, SafeInv, NEW c \in Contexts
  PROVE  OfHeader(Found(c).key)
  BY NoneAssumption DEF Found, Fresh, OfHeader, TypeInv, TypeOK, SafeInv, CurrentKeyOpensHeader

\* An operation that ends in a context with the header's key or none is safe.
LEMMA EndsSafe ==
  ASSUME TypeInv, SafeInv, NEW c \in Contexts, NEW context, Ends(c, context), OfHeader(context.key),
         current' \in {c, current}, header' = header,
         records' # {} => header # None /\ records' = {header.key}
  PROVE  SafeInv'
<1>1. step' = "begin" /\ ctx' = [ctx EXCEPT ![c] = context] /\ ctx \in [Contexts -> Context]
  BY DEF Ends, Release, TypeInv, TypeOK
<1>2. CurrentKeyOpensHeader'
  <2>1. CASE current' = c
    BY <1>1, <2>1 DEF CurrentKeyOpensHeader, OfHeader
  <2>2. CASE current' = current /\ current # c
    BY <1>1, <2>2 DEF CurrentKeyOpensHeader, SafeInv, TypeInv, TypeOK
  <2> QED
    BY <2>1, <2>2
<1> QED
  BY <1>1, <1>2 DEF SafeInv, SecretsReadable, PublishInv, WipeInv

\* A step that releases the queue and changes neither files nor contexts is safe.
LEMMA ReleaseSafe ==
  ASSUME SafeInv, Release, UNCHANGED <<current, ctx, files>>
  PROVE  SafeInv'
  BY DEF SafeInv, SecretsReadable, CurrentKeyOpensHeader, PublishInv, WipeInv, Release, files

LEMMA SafeInvStep == TypeInv /\ SafeInv /\ [Next]_vars => SafeInv'
<1> SUFFICES ASSUME TypeInv, SafeInv, [Next]_vars PROVE SafeInv'
  OBVIOUS
<1>1. ASSUME NEW r \in Requests, Ask(r) \/ Disconnect(r) PROVE SafeInv'
  BY <1>1 DEF Ask, Disconnect, files, SafeInv, SecretsReadable, CurrentKeyOpensHeader, PublishInv, WipeInv
<1>3. ASSUME Refuse PROVE SafeInv'
  BY <1>3, ReleaseSafe DEF Refuse
<1>4. ASSUME NEW c \in Contexts, Lock(c) PROVE SafeInv'
  <2>1. OfHeader(Fresh.key)
    BY DEF OfHeader, Fresh
  <2> QED
    BY <1>4, <2>1, EndsSafe DEF Lock, files, SafeInv, SecretsReadable
<1>5. ASSUME NEW c \in Contexts, Fails(c), current' = c PROVE SafeInv'
  BY <1>5, FoundSafe, EndsSafe DEF Fails, files, SafeInv, SecretsReadable
<1>6. ASSUME NEW c \in Contexts, NEW p, Ends(c, Refreshed(Found(c), p)), current' = c, header' = header,
             records' \subseteq records \cup ({Found(c).key} \ {None})
      PROVE  SafeInv'
  <2>1. Found(c) \in Context /\ Refreshed(Found(c), p).key = Found(c).key
    BY FoundTyped DEF TypeInv, Refreshed, Context
  <2>2. OfHeader(Found(c).key)
    BY FoundSafe
  <2>3. records' # {} => header # None /\ records' = {header.key}
    BY <1>6, <2>2 DEF OfHeader, SafeInv, SecretsReadable
  <2> QED
    BY <1>6, <2>1, <2>2, <2>3, EndsSafe
<1>f. ASSUME NEW c \in Contexts, Ends(c, Found(c)), current' = c, header' = header,
             records' \subseteq records \cup ({Found(c).key} \ {None})
      PROVE  SafeInv'
  <2>1. OfHeader(Found(c).key)
    BY FoundSafe
  <2>2. records' # {} => header # None /\ records' = {header.key}
    BY <1>f, <2>1 DEF OfHeader, SafeInv, SecretsReadable
  <2> QED
    BY <1>f, <2>1, <2>2, EndsSafe
<1>7. ASSUME NEW c \in Contexts, Get(c) \/ Put(c) \/ Delete(c) \/ SetPolicy(c) PROVE SafeInv'
  BY <1>5, <1>6, <1>f, <1>7 DEF Get, Put, Delete, SetPolicy, files
<1>8. ASSUME NEW c \in Contexts, ReadsHeader(c) PROVE SafeInv'
  <2>1. CASE Ends(c, Refreshed(Found(c), policy))
    BY <1>6, <1>8, <2>1 DEF ReadsHeader, files
  <2>3. CASE Ends(c, Found(c))
    BY <1>f, <1>8, <2>3 DEF ReadsHeader, files
  <2>2. CASE /\ step' = "header" /\ ctx' = [ctx EXCEPT ![c] = Found(c)] /\ asked' \in Reads
    <3>1. CurrentKeyOpensHeader'
      BY <1>8, <2>2, FoundSafe DEF ReadsHeader, CurrentKeyOpensHeader, OfHeader, files, TypeInv, TypeOK
    <3>2. PublishInv'
      BY <1>8, <2>2 DEF ReadsHeader, Serve, PublishInv
    <3> QED
      BY <1>8, <2>2, <3>1, <3>2 DEF ReadsHeader, files, SafeInv, SecretsReadable, WipeInv
  <2> QED
    BY <1>8, <2>1, <2>2, <2>3 DEF ReadsHeader
<1>9. ASSUME NEW c \in Contexts, Reset(c) PROVE SafeInv'
  <2>1. current' = None
    BY <1>9 DEF Reset, Serve, Resolves, Disposed
  <2> QED
    BY <1>9, <2>1 DEF Reset, files, SafeInv, SecretsReadable, CurrentKeyOpensHeader, PublishInv, WipeInv
<1>10. ASSUME NEW context, Serving, step \in Reading, Ends(at, context), OfHeader(context.key) \/ at # current,
              UNCHANGED <<current, files>>
       PROVE  SafeInv'
  <2>1. CASE OfHeader(context.key)
    BY <1>10, <2>1, EndsSafe DEF TypeInv, QueueInv, files, SafeInv, SecretsReadable
  <2>2. CASE at # current
    BY <1>10, <2>2 DEF Ends, Release, TypeInv, TypeOK, files,
       SafeInv, SecretsReadable, CurrentKeyOpensHeader, PublishInv, WipeInv
  <2> QED
    BY <1>10, <2>1, <2>2
<1>11. at = current /\ step \in Reading => OfHeader(ctx[at].key)
  BY NoneAssumption DEF TypeInv, TypeOK, QueueInv, SafeInv, CurrentKeyOpensHeader, OfHeader
<1>12. ASSUME Status \/ Clean PROVE SafeInv'
  <2>1. at \in Contexts /\ step \in Reading /\ Serving /\ UNCHANGED <<current, files>>
    BY <1>12 DEF Status, Clean, TypeInv, QueueInv, Reading
  <2>2. ctx[at] \in Context /\ Refreshed(ctx[at], policy).key = ctx[at].key
    BY <2>1 DEF TypeInv, TypeOK, Refreshed, Context
  <2>3. PICK context : Ends(at, context) /\ context.key = ctx[at].key
    BY <1>12, <2>2 DEF Status, Clean
  <2> QED
    BY <1>10, <1>11, <2>1, <2>3
<1>13. ASSUME Unlock PROVE SafeInv'
  <2>1. at \in Contexts /\ step \in Reading /\ Serving /\ UNCHANGED <<current, files>> /\ header # None
    BY <1>13 DEF Unlock, TypeInv, QueueInv, Reading
  <2>2. ctx[at] \in Context /\ Refreshed([ctx[at] EXCEPT !.key = header.key], policy).key = header.key
    BY <2>1 DEF TypeInv, TypeOK, Refreshed, Context
  <2>3. PICK context : Ends(at, context) /\ (context.key = ctx[at].key \/ OfHeader(context.key))
    BY <1>13, <2>1, <2>2 DEF Unlock, OfHeader
  <2> QED
    BY <1>10, <1>11, <2>1, <2>3
<1>14. ASSUME Prepare PROVE SafeInv'
  <2>1. asked \in Reads
    BY <1>14 DEF Prepare, TypeInv, QueueInv, Reading
  <2>2. asked.kind \in {"unlock", "change", "status"}
    BY <2>1 DEF Reads
  <2>3. PublishInv'
    BY <1>14, <2>2 DEF Prepare, Opens, files, PublishInv
  <2> QED
    BY <1>14, <2>3 DEF Prepare, files, SafeInv, SecretsReadable, CurrentKeyOpensHeader, WipeInv
<1>15. ASSUME WrongWrappingKey \/ CannotPublish \/ CannotWipe PROVE SafeInv'
  BY <1>15, ReleaseSafe DEF WrongWrappingKey, CannotPublish, CannotWipe
<1>16. ASSUME CannotClean PROVE SafeInv'
  BY <1>16, ReleaseSafe DEF CannotClean
<1>r. ASSUME CannotRefresh PROVE SafeInv'
  <2>1. /\ at \in Contexts /\ header # None /\ step' = "begin" /\ UNCHANGED <<current, header, records>>
        /\ ctx' = [ctx EXCEPT ![at].key = header.key]
    BY <1>r DEF CannotRefresh, Opens, Release, files, TypeInv, QueueInv, Reading
  <2>2. current # None => ctx'[current].key \in {ctx[current].key, header.key}
    BY <2>1 DEF TypeInv, TypeOK, Context
  <2>3. CurrentKeyOpensHeader'
    BY <2>1, <2>2 DEF CurrentKeyOpensHeader, SafeInv
  <2> QED
    BY <2>1, <2>3 DEF SafeInv, SecretsReadable, PublishInv, WipeInv
<1>17. ASSUME NEW wrap \in Wraps, NEW k \in Keys, Serving, step = "publish", Published(wrap, k),
              header # None => k = header.key
       PROVE  SafeInv'
  <2>1. at \in Contexts /\ header' = [wrap |-> wrap, key |-> k] /\ header' # None /\ header'.key = k
    BY <1>17, NoneAssumption DEF Published, TypeInv, QueueInv, Reading
  <2>2. SecretsReadable'
    BY <1>17, <2>1 DEF Published, SafeInv, SecretsReadable
  <2>3. CurrentKeyOpensHeader'
    <3>1. CASE current = at
      BY <1>17, <2>1, <3>1 DEF Published, CurrentKeyOpensHeader, TypeInv, TypeOK
    <3>2. CASE current # at
      BY <1>17, <2>1, <3>2 DEF Published, CurrentKeyOpensHeader, SafeInv, TypeInv, TypeOK
    <3> QED
      BY <3>1, <3>2
  <2> QED
    BY <1>17, <2>2, <2>3 DEF Published, SafeInv, PublishInv, WipeInv
<1>18. ASSUME Publish PROVE SafeInv'
  <2>1. Serving /\ step = "publish" /\ asked \in Reads
    BY <1>18 DEF Publish, TypeInv, QueueInv, Reading
  <2>2. CASE asked.kind = "unlock" /\ \E k \in Keys : NewKey(k) /\ Published(asked.wrap, k)
    <3>1. asked.wrap \in Wraps /\ header = None
      BY <2>1, <2>2 DEF Reads, SafeInv, PublishInv
    <3> QED
      BY <1>17, <2>1, <2>2, <3>1
  <2>3. CASE asked.kind = "change" /\ Published(asked.next, header.key)
    <3>1. asked.next \in Wraps /\ header.key \in Keys
      BY <2>1, <2>3 DEF Reads, SafeInv, PublishInv, TypeInv, TypeOK
    <3> QED
      BY <1>17, <2>1, <2>3, <3>1
  <2> QED
    BY <1>18, <2>2, <2>3 DEF Publish
<1>19. ASSUME Wipe \/ WipeHeader PROVE SafeInv'
  BY <1>19 DEF Wipe, WipeHeader, Release, SafeInv, SecretsReadable, CurrentKeyOpensHeader, PublishInv, WipeInv
<1>20. ASSUME NEW c \in Contexts, Expire(c) PROVE SafeInv'
  BY <1>20 DEF Expire, Disposed, files, TypeInv, TypeOK,
     SafeInv, SecretsReadable, CurrentKeyOpensHeader, PublishInv, WipeInv
<1>21. ASSUME Crash PROVE SafeInv'
  BY <1>21 DEF Crash, files, SafeInv, SecretsReadable, CurrentKeyOpensHeader, PublishInv, WipeInv
<1>22. CASE UNCHANGED vars
  BY <1>22 DEF vars, files, SafeInv, SecretsReadable, CurrentKeyOpensHeader, PublishInv, WipeInv
<1> QED
  BY <1>1, <1>3, <1>4, <1>7, <1>8, <1>9, <1>12, <1>13, <1>14, <1>15, <1>16, <1>r, <1>18, <1>19, <1>20, <1>21, <1>22 DEF Next, Progress

-----------------------------------------------------------------------------
(* Timers.                                                                  *)

LEMMA ExpiryInvInit == Init => ExpiryInv
  BY DEF Init, ExpiryInv, KeyInv, TimerInv, Reading, Fresh

\* The policy is typed, and so are the timers of every context.
LEMMA TimersTyped ==
  ASSUME TypeInv, NEW c \in Contexts, NEW p
  PROVE  /\ Refreshed(Found(c), p).timers = p /\ Refreshed(ctx[c], p).timers = p
         /\ \A k : Refreshed([ctx[c] EXCEPT !.key = k], p).timers = p
         /\ Fresh.key = None /\ Fresh.timers = Off
  BY FoundTyped DEF TypeInv, TypeOK, Refreshed, Context, Fresh

\* An operation that ends outside any other context, with the policy it leaves.
LEMMA EndsTimed ==
  ASSUME TypeInv, ExpiryInv, NEW c \in Contexts, NEW context, Ends(c, context),
         \/ context = Fresh
         \/ context.timers = policy' /\ (c # current' => policy' # Off)
         \/ context = ctx[c] /\ c \in {current, at} /\ ~(step = "clean" /\ c = at) /\ policy' = policy /\ current' = current,
         \/ current' = current /\ (c = current \/ policy' = policy)
         \/ current = None /\ current' = c,
         context.timers = policy' \/ policy' = policy,
         step = "clean" => at = c
  PROVE  ExpiryInv'
<1>1. /\ step' = "begin" /\ ctx' = [ctx EXCEPT ![c] = context] /\ ctx \in [Contexts -> Context]
      /\ untimed' = IF c \in {current, at} /\ context = ctx[c] THEN untimed ELSE untimed \ {c}
  BY DEF Ends, Release, TypeInv, TypeOK
<1>2. Fresh.key = None /\ Fresh.timers = Off
  BY DEF Fresh
<1>3. ASSUME NEW d \in Contexts \ untimed', d # c, ctx'[d].key # None
      PROVE  IF d = current' THEN ctx'[d].timers = policy' ELSE ctx'[d].timers # Off
  <2>1. d \in Contexts \ untimed /\ ctx'[d] = ctx[d] /\ ~(step = "clean" /\ d = at)
    BY <1>1, <1>3, NoneAssumption
  <2>2. IF d = current THEN ctx[d].timers = policy ELSE ctx[d].timers # Off
    BY <1>3, <2>1 DEF ExpiryInv, KeyInv
  <2> QED
    BY <1>3, <2>1, <2>2, NoneAssumption
<1>4. ASSUME c \in Contexts \ untimed', ctx'[c].key # None
      PROVE  IF c = current' THEN ctx'[c].timers = policy' ELSE ctx'[c].timers # Off
  <2>1. ctx'[c] = context /\ context # Fresh
    BY <1>1, <1>2, <1>4
  <2>2. CASE context.timers = policy' /\ (c # current' => policy' # Off)
    BY <2>1, <2>2
  <2>3. CASE /\ context = ctx[c] /\ c \in {current, at} /\ ~(step = "clean" /\ c = at)
             /\ policy' = policy /\ current' = current
    <3>1. c \in Contexts \ untimed /\ ctx[c].key # None
      BY <1>1, <1>4, <2>1, <2>3
    <3> QED
      BY <2>1, <2>3, <3>1 DEF ExpiryInv, KeyInv
  <2> QED
    BY <2>1, <2>2, <2>3
<1>5. KeyInv'
  BY <1>1, <1>3, <1>4 DEF KeyInv
<1>6. TimerInv'
  <2>1. ASSUME current' # None PROVE ctx'[current'].timers \in {Off, policy'}
    <3>1. CASE current' = c
      <4>1. ctx'[c] = context
        BY <1>1
      <4>2. CASE context = ctx[c] /\ policy' = policy /\ current' = current
        BY <2>1, <3>1, <4>1, <4>2 DEF ExpiryInv, TimerInv
      <4> QED
        BY <1>2, <3>1, <4>1, <4>2
    <3>2. CASE current' # c
      BY <1>1, <2>1, <3>2, NoneAssumption DEF ExpiryInv, TimerInv, TypeInv, TypeOK
    <3> QED
      BY <3>1, <3>2
  <2> QED
    BY <1>1, <2>1 DEF TimerInv, Reading
<1> QED
  BY <1>5, <1>6 DEF ExpiryInv

\* A step that leaves the policy and the contexts alone, out of a file or to one.
LEMMA ExpiryStands ==
  ASSUME ExpiryInv, step # "clean", UNCHANGED <<current, ctx, policy>>,
         untimed \subseteq untimed', step' \in Reading => step \in Reading /\ at' = at
  PROVE  ExpiryInv'
  BY DEF ExpiryInv, KeyInv, TimerInv

LEMMA ExpiryInvStep == TypeInv /\ SafeInv /\ ExpiryInv /\ [Next]_vars => ExpiryInv'
<1> SUFFICES ASSUME TypeInv, SafeInv, ExpiryInv, [Next]_vars PROVE ExpiryInv'
  OBVIOUS
<1>1. ASSUME NEW r \in Requests, Ask(r) \/ Disconnect(r) PROVE ExpiryInv'
  BY <1>1 DEF Disconnect, Ask, files, ExpiryInv, KeyInv, TimerInv
<1>2. ASSUME Refuse PROVE ExpiryInv'
  BY <1>2, ExpiryStands DEF Refuse, Release, Reading, files
<1>3. ASSUME NEW c \in Contexts, Serve(c) PROVE step = "begin" /\ (current = None \/ current = c)
  BY <1>3 DEF Serve, Resolves
<1>4. ASSUME NEW c \in Contexts, Lock(c) PROVE ExpiryInv'
  BY <1>3, <1>4, EndsTimed DEF Lock, files
<1>5. ASSUME NEW c \in Contexts, Serve(c), Ends(c, Found(c)), policy' = policy, current' = c
      PROVE  ExpiryInv'
  <2>1. Found(c) = Fresh \/ (Found(c) = ctx[c] /\ c = current)
    BY DEF Found
  <2> QED
    BY <1>3, <1>5, <2>1, EndsTimed
<1>6. ASSUME NEW c \in Contexts, Serve(c), Ends(c, Refreshed(Found(c), policy')), current' = c
      PROVE  ExpiryInv'
  <2>1. Refreshed(Found(c), policy').timers = policy'
    BY TimersTyped
  <2> QED
    BY <1>3, <1>6, <2>1, EndsTimed
<1>7. ASSUME NEW c \in Contexts, Get(c) \/ Put(c) \/ Delete(c) \/ SetPolicy(c) PROVE ExpiryInv'
  BY <1>5, <1>6, <1>7 DEF Get, Put, Delete, SetPolicy, Fails, files
<1>8. ASSUME NEW c \in Contexts, ReadsHeader(c) PROVE ExpiryInv'
  <2>1. Serve(c)
    BY <1>8 DEF ReadsHeader
  <2>2. CASE Ends(c, Refreshed(Found(c), policy))
    BY <1>6, <1>8, <2>1, <2>2 DEF ReadsHeader, files
  <2>4. CASE Ends(c, Found(c))
    BY <1>5, <1>8, <2>1, <2>4 DEF ReadsHeader, files
  <2>3. CASE /\ step' = "header" /\ at' = c /\ ctx' = [ctx EXCEPT ![c] = Found(c)]
             /\ untimed' = (IF c = current THEN untimed ELSE untimed \ {c})
    <3>1. step = "begin" /\ (current = None \/ current = c) /\ current' = c /\ policy' = policy
      BY <1>3, <1>8, <2>1 DEF ReadsHeader, files
    <3>2. KeyInv'
      BY <2>3, <3>1, NoneAssumption DEF ExpiryInv, KeyInv, Found, Fresh, TypeInv, TypeOK
    <3>3. TimerInv'
      BY <2>3, <3>1, NoneAssumption DEF ExpiryInv, TimerInv, Found, Fresh, TypeInv, TypeOK
    <3> QED
      BY <3>2, <3>3 DEF ExpiryInv
  <2> QED
    BY <1>8, <2>2, <2>3, <2>4 DEF ReadsHeader
<1>9. ASSUME NEW c \in Contexts, Reset(c) PROVE ExpiryInv'
  <2>1. step = "begin" /\ (current = None \/ current = c) /\ current' = None /\ policy' = policy /\ step' = "wipe"
    BY <1>3, <1>9 DEF Reset, Disposed, files
  <2> QED
    BY <1>9, <2>1, NoneAssumption DEF Reset, Disposed, Fresh, Reading, ExpiryInv, KeyInv, TimerInv, TypeInv, TypeOK
<1>10. ASSUME step \in Reading, NEW context, Ends(at, context), UNCHANGED <<current, files>>,
              context.timers = policy \/ (context = ctx[at] /\ step = "header")
       PROVE  ExpiryInv'
  <2>1. at \in Contexts /\ (at # current => policy # Off)
    BY <1>10 DEF TypeInv, QueueInv, ExpiryInv, TimerInv
  <2> QED
    BY <1>10, <2>1, EndsTimed DEF files
<1>11. ASSUME Status \/ Unlock \/ Clean PROVE ExpiryInv'
  <2>1. at \in Contexts /\ step \in Reading /\ UNCHANGED <<current, files>>
    BY <1>11 DEF Status, Unlock, Clean, TypeInv, QueueInv, Reading
  <2>2. /\ Refreshed(ctx[at], policy).timers = policy
        /\ Refreshed([ctx[at] EXCEPT !.key = header.key], policy).timers = policy
    BY <2>1, TimersTyped
  <2>3. PICK context : Ends(at, context) /\ (context.timers = policy \/ (context = ctx[at] /\ step = "header"))
    BY <1>11, <2>2 DEF Status, Unlock, Clean
  <2> QED
    BY <1>10, <2>1, <2>3
<1>12. ASSUME Prepare PROVE ExpiryInv'
  BY <1>12, ExpiryStands DEF Prepare, Reading, files
<1>13. ASSUME WrongWrappingKey \/ CannotPublish PROVE ExpiryInv'
  BY <1>13, ExpiryStands DEF WrongWrappingKey, CannotPublish, Release, Reading, files
<1>14. ASSUME NEW wrap, NEW k, step = "publish", Published(wrap, k) PROVE ExpiryInv'
  <2>1. /\ step' = "clean" /\ UNCHANGED <<at, current, policy, untimed>> /\ at \in Contexts
        /\ ctx' = [ctx EXCEPT ![at].key = k]
    BY <1>14 DEF Published, TypeInv, QueueInv, Reading
  <2>2. \A c \in Contexts : ctx'[c].timers = ctx[c].timers /\ (c # at => ctx'[c] = ctx[c])
    BY <2>1 DEF TypeInv, TypeOK, Context
  <2>3. KeyInv'
    BY <1>14, <2>1, <2>2 DEF ExpiryInv, KeyInv
  <2>4. TimerInv'
    BY <1>14, <2>1, <2>2 DEF ExpiryInv, TimerInv, Reading, TypeInv, TypeOK
  <2> QED
    BY <2>3, <2>4 DEF ExpiryInv
<1>15. ASSUME Publish PROVE ExpiryInv'
  BY <1>14, <1>15 DEF Publish
<1>16. ASSUME CannotClean PROVE ExpiryInv'
  BY <1>16 DEF CannotClean, Release, files, ExpiryInv, KeyInv, TimerInv, Reading
<1>17. ASSUME Wipe PROVE ExpiryInv'
  <2>1. current = None /\ current' = None
    BY <1>17 DEF Wipe, SafeInv, WipeInv
  <2> QED
    BY <1>17, <2>1, NoneAssumption DEF Wipe, ExpiryInv, KeyInv, TimerInv, Reading
<1>18. ASSUME WipeHeader \/ CannotWipe PROVE ExpiryInv'
  BY <1>18, ExpiryStands DEF WipeHeader, CannotWipe, Release, Reading, files
<1>19. ASSUME NEW c \in Contexts, Expire(c) PROVE ExpiryInv'
  <2>1. /\ current' = (IF current = c THEN None ELSE current) /\ ctx' = [ctx EXCEPT ![c] = Fresh]
        /\ untimed' = untimed \ {c} /\ UNCHANGED <<step, at, policy>> /\ ctx[c].timers # Off
    BY <1>19 DEF Expire, Disposed, files
  <2>2. Fresh.key = None /\ Fresh.timers = Off
    BY DEF Fresh
  <2>3. KeyInv'
    BY <2>1, <2>2, NoneAssumption DEF ExpiryInv, KeyInv, TypeInv, TypeOK
  <2>4. ASSUME current' # None PROVE ctx'[current'].timers \in {Off, policy'}
    BY <2>1, <2>2, <2>4 DEF ExpiryInv, TimerInv, TypeInv, TypeOK
  <2>5. ASSUME step' \in Reading, at' # current' PROVE policy' # Off
    <3>1. CASE at # current
      BY <2>1, <2>5, <3>1 DEF ExpiryInv, TimerInv
    <3>2. CASE at = current
      <4>1. current = c /\ current # None
        BY <2>1, <2>5, <3>2, NoneAssumption
      <4> QED
        BY <2>1, <4>1 DEF ExpiryInv, TimerInv
    <3> QED
      BY <3>1, <3>2
  <2> QED
    BY <2>3, <2>4, <2>5 DEF ExpiryInv, TimerInv
<1>22. ASSUME CannotRefresh PROVE ExpiryInv'
  <2>1. /\ step' = "begin" /\ UNCHANGED <<current, policy>> /\ untimed' = untimed \cup {at} /\ step = "header"
        /\ ctx' = [ctx EXCEPT ![at].key = header.key] /\ at \in Contexts
    BY <1>22 DEF CannotRefresh, Release, files, TypeInv, QueueInv, Reading
  <2>2. \A c \in Contexts : ctx'[c].timers = ctx[c].timers /\ (c # at => ctx'[c] = ctx[c])
    BY <2>1 DEF TypeInv, TypeOK, Context
  <2>3. KeyInv'
    BY <2>1, <2>2 DEF ExpiryInv, KeyInv
  <2>4. TimerInv'
    BY <2>1, <2>2 DEF ExpiryInv, TimerInv, Reading, TypeInv, TypeOK
  <2> QED
    BY <2>3, <2>4 DEF ExpiryInv
<1>20. ASSUME Crash PROVE ExpiryInv'
  BY <1>20 DEF Crash, files, ExpiryInv, KeyInv, TimerInv, Reading, Fresh
<1>21. CASE UNCHANGED vars
  BY <1>21 DEF vars, files, ExpiryInv, KeyInv, TimerInv
<1> QED
  BY <1>1, <1>2, <1>4, <1>7, <1>8, <1>9, <1>11, <1>12, <1>13, <1>15, <1>16, <1>17, <1>18, <1>19, <1>20, <1>21, <1>22 DEF Next, Progress

-----------------------------------------------------------------------------
(* Theorems.                                                                *)

Inv == TypeInv /\ SafeInv /\ ExpiryInv

\* The inductive invariant holds of every execution of the service.
THEOREM InductiveInv == Spec => []Inv
<1>1. Init => Inv
  BY TypeInvInit, SafeInvInit, ExpiryInvInit DEF Inv
<1>2. Inv /\ [Next]_vars => Inv'
  BY TypeInvStep, SafeInvStep, ExpiryInvStep DEF Inv, SafeInv
<1> QED
  BY <1>1, <1>2, PTL DEF Spec

\* Every variable keeps its type: no request outlives its place in the queue,
\* and a step that reads or writes a file has a context.
THEOREM TypeSafety == Spec => []TypeOK
<1>1. Inv => TypeOK
  BY DEF Inv, TypeInv
<1> QED
  BY <1>1, InductiveInv, PTL

\* Every secret in the database can be decrypted with the master key of the
\* header, whatever failed, expired or stopped (VaultLocalBackend).
THEOREM SecretsAreReadable == Spec => []SecretsReadable
<1>1. Inv => SecretsReadable
  BY DEF Inv, SafeInv
<1> QED
  BY <1>1, InductiveInv, PTL

\* The next request never uses a key that is not the header's (VaultTenantManager).
THEOREM CurrentKeyIsTheHeaders == Spec => []CurrentKeyOpensHeader
<1>1. Inv => CurrentKeyOpensHeader
  BY DEF Inv, SafeInv
<1> QED
  BY <1>1, InductiveInv, PTL

\* A key in memory has timers that end it, except after a request that set the
\* key and then failed (LifetimeVaultBackend).
THEOREM KeysDoExpire == Spec => []KeysExpire
<1>1. Inv => KeysExpire
  BY DEF Inv, ExpiryInv, KeyInv, KeysExpire
<1> QED
  BY <1>1, InductiveInv, PTL

\* A step that leaves a header behind leaves its master key: a change of
\* passphrase never loses the secrets (VaultLocalBackend.changePassphrase()).
THEOREM MasterKeyIsKept == Spec => MasterKeyKept
<1> DEFINE Kept == header # None /\ header' # None => header'.key = header.key
<1>1. Inv /\ [Next]_vars => [Kept]_vars
  <2> SUFFICES ASSUME Inv, [Next]_vars, header # None, header' # None, header' # header
               PROVE  header'.key = header.key
    OBVIOUS
  <2>1. Publish
    BY DEF Next, Progress, vars, files, Ask, Disconnect, Refuse, Lock, Get, Put, Delete, SetPolicy, ReadsHeader,
       Reset, Fails, Status, Unlock, CannotRefresh, Prepare, WrongWrappingKey, CannotPublish, Clean, CannotClean, Wipe, WipeHeader,
       CannotWipe, Expire, Crash
  <2>2. asked.kind # "unlock"
    BY <2>1 DEF Publish, Inv, SafeInv, PublishInv
  <2> QED
    BY <2>1, <2>2 DEF Publish, Published
<1>2. Spec => [][Kept]_vars
  BY <1>1, InductiveInv, PTL DEF Spec
<1> QED
  BY <1>2 DEF MasterKeyKept


-----------------------------------------------------------------------------
(* KeyMemory: no page and no buffer outlives its call, for every number of  *)
(* records and of failures.  Each stage of a call has one buffer, and while *)
(* the factor is hashed one page more; every way out of the stage gives     *)
(* them back.  That a record opens needs the key it is derived from: it is  *)
(* the master key unless a page was cleared, which only Windows does.       *)

HeldPages == IF held THEN 1 ELSE 0

\* The buffers of a stage.
StageBuffers(at0) ==
  CASE at0 = "hash" -> {"password"} [] at0 = "output" -> {"wrapping"}
    [] at0 = "cipher" -> {"recordKey"} [] at0 = "result" -> {"text"} [] OTHER -> {}

KeyInUse ==
  /\ call.at \in {"expand", "cipher", "result"} => held
  /\ call.at \in {"cipher", "result"} /\ ~spoiled => call.using = "master"
  /\ held /\ ~spoiled => key.memory = "master"
  /\ ~windows => ~spoiled

RecordsOpen ==
  /\ ~windows => \A r \in Records : record[r] # "zero"
  /\ ~wrong

MemoryInv ==
  /\ Memory!TypeOK
  /\ secret = StageBuffers(call.at)
  /\ pages = HeldPages + (IF call.at = "hash" THEN 1 ELSE 0)
  /\ KeyInUse /\ RecordsOpen

LEMMA CallFields ==
  ASSUME Memory!TypeOK, NEW l \in Memory!Labels
  PROVE  /\ [call EXCEPT !.at = l] \in Memory!Call
         /\ [call EXCEPT !.at = l].at = l
         /\ [call EXCEPT !.at = l].using = call.using
  BY DEF Memory!TypeOK, Memory!Call

LEMMA IdleIs ==
  /\ Memory!Idle \in Memory!Call /\ Memory!Idle.at = "idle"
  /\ \A op \in Memory!Methods, l \in Memory!Labels, r \in Records :
       /\ [Memory!Idle EXCEPT !.op = op, !.at = l, !.of = r] \in Memory!Call
       /\ [Memory!Idle EXCEPT !.op = op, !.at = l, !.of = r].at = l
  BY MemoryAssumption DEF Memory!BoundsAssumption, Memory!Idle, Memory!Call, Memory!Methods, Memory!Labels, Memory!Content

\* A call begins where it holds nothing yet.
LEMMA BeginKeeps ==
  ASSUME MemoryInv, NEW op \in Memory!Methods, NEW l \in {"allocate", "unwrap", "expand"}, NEW r \in Records,
         call.at = "idle", Memory!Begin(op, l, r), l = "expand" => held,
         UNCHANGED <<windows, sidecar, held, key, record, pages, secret, failures, spoiled, wrong>>
  PROVE  MemoryInv'
<1>0. l \in Memory!Labels
  BY DEF Memory!Labels
<1>1. call' \in Memory!Call /\ call'.at = l
  BY <1>0, IdleIs DEF Memory!Begin
<1>2. Memory!TypeOK'
  BY <1>1 DEF MemoryInv, Memory!TypeOK
<1> QED
  BY <1>1, <1>2 DEF MemoryInv, StageBuffers, HeldPages, KeyInUse, RecordsOpen

LEMMA MemoryStep == MemoryInv /\ [Memory!Next]_memoryVars => MemoryInv'
<1> SUFFICES ASSUME MemoryInv, [Memory!Next]_memoryVars PROVE MemoryInv'
  OBVIOUS
<1>0. /\ Memory!TypeOK /\ KeyInUse /\ RecordsOpen
      /\ secret = StageBuffers(call.at) /\ pages = HeldPages + (IF call.at = "hash" THEN 1 ELSE 0)
      /\ windows \in BOOLEAN /\ sidecar \in BOOLEAN /\ held \in BOOLEAN /\ spoiled \in BOOLEAN /\ wrong \in BOOLEAN
      /\ key \in [memory : Memory!Content, sealed : BOOLEAN]
      /\ record \in [Records -> Memory!Content \cup {"none"}]
      /\ call \in Memory!Call /\ call.of \in Records /\ call.using \in Memory!Content
      /\ failures \in 0..MaxFailures /\ MaxFailures \in Nat
  BY MemoryAssumption DEF MemoryInv, Memory!TypeOK, Memory!Call, Memory!BoundsAssumption
<1>g. ASSUME NEW l \in Memory!Labels, Memory!Goto(l)
      PROVE  call' \in Memory!Call /\ call'.at = l /\ call'.using = call.using
  BY <1>0, <1>g, CallFields DEF Memory!Goto
<1>e. ASSUME Memory!Ends
      PROVE  call' \in Memory!Call /\ call'.at = "idle"
  BY <1>e, IdleIs DEF Memory!Ends
<1>f. ASSUME Memory!Fails PROVE failures' \in 0..MaxFailures
  BY <1>0, <1>f DEF Memory!Fails
<1>l. {"hash", "output", "publish", "protect", "cipher", "result"} \subseteq Memory!Labels
      /\ secret \subseteq Memory!Buffers /\ StageBuffers("idle") = {} /\ {"allocate", "unwrap", "expand"} \subseteq Memory!Labels
      /\ Memory!Content = {"master", "zero"}
  BY <1>0 DEF Memory!Labels, Memory!TypeOK, StageBuffers, Memory!Content
<1> USE DEF Memory!TypeOK, MemoryInv, KeyInUse, RecordsOpen, StageBuffers, HeldPages
<1> HIDE DEF Memory!Content
<1>1. ASSUME Memory!BeginDerive PROVE MemoryInv'
  BY <1>0, <1>1, BeginKeeps, IdleIs DEF Memory!BeginDerive, Memory!Starts, Memory!Methods, Memory!Call
<1>2. ASSUME Memory!BeginUnlock PROVE MemoryInv'
  BY <1>0, <1>2, BeginKeeps, IdleIs DEF Memory!BeginUnlock, Memory!Starts, Memory!Methods, Memory!Call
<1>3. ASSUME Memory!BeginChange PROVE MemoryInv'
  BY <1>0, <1>3, BeginKeeps, IdleIs DEF Memory!BeginChange, Memory!Starts, Memory!Methods, Memory!Call
<1>4. ASSUME Memory!BeginPut PROVE MemoryInv'
  BY <1>0, <1>4, BeginKeeps DEF Memory!BeginPut, Memory!Methods
<1>5. ASSUME Memory!BeginGet PROVE MemoryInv'
  BY <1>0, <1>5, BeginKeeps DEF Memory!BeginGet, Memory!Methods
<1>d. call.at # "hash" => pages \in Nat /\ Memory!Destroyed = 0
  BY <1>0 DEF Memory!Destroyed, Memory!Released
<1>6. ASSUME Memory!Lock PROVE MemoryInv'
  <2>2. call.at = "idle" /\ call' = call /\ secret' = secret /\ ~held' /\ held' \in BOOLEAN
        /\ ~spoiled' /\ spoiled' \in BOOLEAN /\ pages' = 0
    BY <1>6, <1>d DEF Memory!Lock
  <2>3. Memory!TypeOK'
    BY <1>0, <1>6, <2>2 DEF Memory!Lock
  <2>4. secret' = StageBuffers(call'.at) /\ pages' = HeldPages'
    BY <1>0, <2>2
  <2>5. KeyInUse' /\ RecordsOpen'
    BY <1>0, <1>6, <2>2 DEF Memory!Lock
  <2> QED
    BY <2>2, <2>3, <2>4, <2>5
<1>7. ASSUME Memory!Reset PROVE MemoryInv'
  <2>1. record' \in [Records -> Memory!Content \cup {"none"}] /\ \A r \in Records : record'[r] # "zero"
    BY <1>7 DEF Memory!Reset
  <2>2. call.at = "idle" /\ call' = call /\ secret' = secret /\ ~held' /\ held' \in BOOLEAN
        /\ ~spoiled' /\ spoiled' \in BOOLEAN /\ pages' = 0
    BY <1>7, <1>d DEF Memory!Reset
  <2>3. Memory!TypeOK'
    <3>1. sidecar' \in BOOLEAN
      BY <1>7 DEF Memory!Reset
    <3>2. UNCHANGED <<windows, key, failures, wrong>>
      BY <1>7 DEF Memory!Reset
    <3> QED
      BY <1>0, <2>1, <2>2, <3>1, <3>2
  <2>4. secret' = StageBuffers(call'.at) /\ pages' = HeldPages'
    BY <1>0, <2>2
  <2>5. KeyInUse' /\ RecordsOpen'
    BY <1>0, <1>7, <2>1, <2>2 DEF Memory!Reset
  <2> QED
    BY <2>2, <2>3, <2>4, <2>5
<1>8. ASSUME Memory!Allocate PROVE MemoryInv'
  BY <1>0, <1>8, <1>g, <1>e, <1>f, <1>l DEF Memory!Allocate, Memory!Buffers
<1>9. ASSUME Memory!Hash PROVE MemoryInv'
  BY <1>0, <1>9, <1>g, <1>e, <1>f, <1>l DEF Memory!Hash, Memory!Buffers, Memory!Released
<1>10. ASSUME Memory!Output PROVE MemoryInv'
  BY <1>0, <1>10, <1>e, <1>f, <1>l DEF Memory!Output, Memory!Buffers
<1>11. ASSUME Memory!Unwrap PROVE MemoryInv'
  BY <1>0, <1>11, <1>g, <1>e, <1>l DEF Memory!Unwrap
<1>12. ASSUME Memory!Publish PROVE MemoryInv'
  BY <1>0, <1>12, <1>g, <1>e, <1>f, <1>l DEF Memory!Publish
<1>13. ASSUME Memory!Protect PROVE MemoryInv'
  <2>1. CASE Memory!Fails /\ Memory!Ends /\ UNCHANGED <<held, key, pages, spoiled>>
    BY <1>0, <1>13, <2>1, <1>e, <1>f, <1>l DEF Memory!Protect
  <2>2. CASE /\ key' = [memory |-> "master", sealed |-> windows] /\ held' = TRUE /\ pages' = Memory!Destroyed + 1
             /\ Memory!Ends /\ spoiled' = FALSE /\ UNCHANGED failures
    <3>1. pages' = 1 /\ call.at # "hash" /\ secret' = {} /\ UNCHANGED <<windows, sidecar, record, wrong>>
      BY <1>0, <1>13, <1>d, <2>2 DEF Memory!Protect
    <3>2. key' \in [memory : Memory!Content, sealed : BOOLEAN] /\ key'.memory = "master"
      BY <1>0, <1>l, <2>2
    <3>3. call' \in Memory!Call /\ call'.at = "idle" /\ held' /\ held' \in BOOLEAN /\ ~spoiled' /\ spoiled' \in BOOLEAN
      BY <1>e, <2>2
    <3>4. Memory!TypeOK'
      BY <1>0, <1>l, <2>2, <3>1, <3>2, <3>3
    <3> QED
      BY <1>0, <1>l, <3>1, <3>2, <3>3, <3>4
  <2> QED
    BY <1>13, <2>1, <2>2 DEF Memory!Protect
<1>14. ASSUME Memory!Expand PROVE MemoryInv'
  <2>0. /\ Memory!Closed(Memory!Opened) \in [memory : Memory!Content, sealed : BOOLEAN]
        /\ Memory!Closed(Memory!Opened).memory = key.memory
        /\ Memory!NotClosed(Memory!Opened) \in [memory : Memory!Content, sealed : BOOLEAN]
    BY <1>0, <1>l DEF Memory!Closed, Memory!NotClosed, Memory!Opened
  <2>1. CASE /\ key' = Memory!Closed(Memory!Opened) /\ secret' = secret \cup {"recordKey"}
             /\ call' = [call EXCEPT !.at = "cipher", !.using = key.memory]
             /\ UNCHANGED <<failures, spoiled>>
    <3>1. call' \in Memory!Call /\ call'.at = "cipher" /\ call'.using = key.memory
      BY <1>0, <1>l, <2>1 DEF Memory!Call
    <3> QED
      BY <1>0, <1>14, <1>l, <2>0, <2>1, <3>1 DEF Memory!Expand, Memory!Buffers
  <2>2. CASE /\ Memory!Fails /\ Memory!Ends /\ key' \in {key, Memory!Closed(Memory!Opened)}
             /\ UNCHANGED <<secret, spoiled>>
    BY <1>0, <1>14, <1>e, <1>f, <1>l, <2>0, <2>2 DEF Memory!Expand
  <2>3. CASE /\ windows /\ Memory!Fails /\ Memory!Ends /\ key' = Memory!NotClosed(Memory!Opened)
             /\ spoiled' = TRUE /\ UNCHANGED secret
    BY <1>0, <1>14, <1>e, <1>f, <1>l, <2>0, <2>3 DEF Memory!Expand
  <2> QED
    BY <1>14, <2>1, <2>2, <2>3 DEF Memory!Expand
<1>15. ASSUME Memory!Encrypt PROVE MemoryInv'
  BY <1>0, <1>15, <1>g, <1>e, <1>f, <1>l DEF Memory!Encrypt, Memory!Buffers
<1>16. ASSUME Memory!Decrypt PROVE MemoryInv'
  <2>1. /\ wrong' = wrong
        /\ \/ secret' = (secret \ {"recordKey"}) \cup {"text"} /\ Memory!Goto("result") /\ failures' = failures
           \/ secret' = secret \ {"recordKey"} /\ Memory!Ends /\ (Memory!Fails \/ failures' = failures)
    BY <1>0, <1>16 DEF Memory!Decrypt, Memory!Authentic
  <2> QED
    BY <1>0, <1>16, <2>1, <1>g, <1>e, <1>f, <1>l DEF Memory!Decrypt, Memory!Buffers
<1>17. ASSUME Memory!Store PROVE MemoryInv'
  <2>1. /\ record' \in [Records -> Memory!Content \cup {"none"}]
        /\ ~windows => \A r \in Records : record'[r] # "zero"
    BY <1>0, <1>17 DEF Memory!Store
  <2> QED
    BY <1>0, <1>17, <1>e, <1>f, <1>l, <2>1 DEF Memory!Store, Memory!Buffers
<1>18. ASSUME Memory!Answer PROVE MemoryInv'
  BY <1>0, <1>18, <1>e, <1>f, <1>l DEF Memory!Answer, Memory!Buffers
<1>19. CASE UNCHANGED memoryVars
  BY <1>19 DEF memoryVars
<1> QED
  BY <1>1, <1>2, <1>3, <1>4, <1>5, <1>6, <1>7, <1>8, <1>9, <1>10, <1>11, <1>12, <1>13, <1>14, <1>15,
     <1>16, <1>17, <1>18, <1>19 DEF Memory!Next

\* Whichever step of a call fails, its pages and buffers are given back; and a
\* record opens unless Windows failed to protect the key's page again.
THEOREM KeyIsKept == Memory!Spec => []KeyKept
<1>1. Memory!Init => MemoryInv
  <2> SUFFICES ASSUME Memory!Init PROVE MemoryInv
    OBVIOUS
  <2>1. call \in Memory!Call /\ call.at = "idle"
    BY IdleIs DEF Memory!Init
  <2>2. Memory!TypeOK
    <3>1. record \in [Records -> Memory!Content \cup {"none"}] /\ key \in [memory : Memory!Content, sealed : BOOLEAN]
      BY DEF Memory!Init, Memory!Content
    <3>2. failures \in 0..MaxFailures
      BY MemoryAssumption DEF Memory!Init, Memory!BoundsAssumption
    <3> QED
      BY <2>1, <3>1, <3>2 DEF Memory!Init, Memory!TypeOK
  <2>3. RecordsOpen
    BY DEF Memory!Init, RecordsOpen
  <2> QED
    BY <2>1, <2>2, <2>3 DEF Memory!Init, MemoryInv, KeyInUse, StageBuffers, HeldPages
<1>2. MemoryInv => KeyKept
  BY DEF MemoryInv, KeyKept, Memory!KeyKept, KeyInUse, RecordsOpen, StageBuffers, HeldPages
<1> QED
  BY <1>1, <1>2, MemoryStep, PTL DEF Memory!Spec, Memory!vars, memoryVars

-----------------------------------------------------------------------------
(***************************************************************************)
(* WindowsVault, for any number of slots, users, connections and requests. *)
(*                                                                         *)
(* AnswerToAsker is not inductive.  Three threads know a connection, each  *)
(* at its own moment, and what one has told the next is still under way.   *)
(* AnswerInv says of everything under way what makes it harmless when it   *)
(* arrives: it is of an earlier connection, or the slot waits for what     *)
(* will come of it; it comes in an order in which the runtime worker finds *)
(* each request in sequence; and an answer that carries the number of the  *)
(* request a slot waits for is the latest one of the connection, done with *)
(* the vault of its user.                                                  *)
(***************************************************************************)

\* What is in a queue, and which follows which.
In(q) == {q[i] : i \in DOMAIN q}

Then(q) == {p \in In(q) \X In(q) : \E i, j \in DOMAIN q : i < j /\ p = <<q[i], q[j]>>}

\* What is under way from the dispatcher to the runtime worker, and what is behind it.
Transit == In(messages) \cup In(events)

Later == Then(messages) \cup (In(messages) \X In(events)) \cup Then(events)

\* What the dispatcher tells of.
Told == {"verify", "closed", "request"}

Events == [type : Told, id : Windows!Identities, user : Users \cup {Nobody}]

Messages == Events \cup {[type |-> "ready"]} \cup [type : {"exit"}, why : {"worker"}]

Replies == [id : Windows!Identities, user : Users \cup {Nobody}]

Entries == [id : Windows!Identities, user : Users \cup {Nobody}, running : BOOLEAN]

PipeTyped ==
  /\ slot \in [Slots -> Windows!Slot]
  /\ peers \in [Slots -> [generation : Nat, user : Users \cup {Nobody}]]
  /\ connections \in [Slots -> [generation : Nat, sequence : Nat,
                                active : BOOLEAN, pending : BOOLEAN, user : Users \cup {Nobody}]]
  /\ events \in Seq(Events) /\ messages \in Seq(Messages)
  /\ replies \in Seq(Replies) /\ admitted \in Seq(Entries \cup {Windows!Sleeping})

\* Of one slot, a request comes with a later generation than what was told before
\* it, and a close once of each.
Follows(x, y) ==
  x.type \in Told /\ y.type \in Told /\ x.id.slot = y.id.slot =>
    \/ x.id.generation < y.id.generation
    \/ x.id.generation = y.id.generation /\ y.type = "closed" /\ x.type # "closed"

\* The runtime worker finds the request in sequence.
Expected(x) ==
  LET c == connections[x.id.slot] IN
  \/ x.id.generation > c.generation /\ x.id.request = 1
  \/ /\ x.id.generation = c.generation /\ c.active /\ ~c.pending
     /\ x.id.request = c.sequence + 1 /\ x.user = c.user

\* What has been told is of an earlier connection, or the slot waits for its answer.
Awaited(x) ==
  LET p == slot[x.id.slot] IN
  \/ x.id.generation < p.generation
  \/ /\ x.id.generation = p.generation /\ x.id.request = p.request /\ x.user = p.user
     /\ p.box = Windows!NoMail
     /\ \/ x.type = "verify" /\ p.stage = "authorize"
        \/ x.type = "request" /\ p.stage = "response"

\* An answer on its way is late, or the one its slot waits for.
Ripe(r) ==
  LET p == slot[r.id.slot]
      c == connections[r.id.slot] IN
  \/ r.id.generation < p.generation
  \/ r.id.generation = p.generation /\ r.id.request < p.request
  \/ /\ r.id.generation = p.generation /\ r.id.request = p.request /\ r.user = p.user
     /\ c.generation = p.generation /\ c.sequence = p.request /\ ~c.pending

\* The runtime worker has done the latest request of the slot.
Caught(k) ==
  \/ slot[k].request = 0 /\ connections[k].generation < slot[k].generation
  \/ /\ connections[k].generation = slot[k].generation
     /\ connections[k].sequence = slot[k].request /\ ~connections[k].pending

\* What the three threads think of slot k.
SlotSound(k) ==
  LET p == slot[k]
      c == connections[k] IN
  /\ p.stage # "connect" => p.user \in Users
  /\ c.generation <= p.generation
  /\ c.generation = p.generation => c.active /\ c.user = p.user /\ c.sequence <= p.request
  /\ p.stage \in {"connect", "authorize"} => p.request = 0 /\ c.generation < p.generation
  /\ p.stage \in {"connect", "header"} => p.box = Windows!NoMail
  /\ p.stage = "authorize" /\ p.box # Windows!NoMail =>
       /\ p.box.mail = "verdict"
       /\ p.box.authorized => peers[k] = [generation |-> p.generation, user |-> p.user]
  /\ p.stage \in {"header", "response", "write"} => peers[k] = [generation |-> p.generation, user |-> p.user]
  /\ p.stage \in {"header", "write"} \/ (p.stage = "response" /\ p.box # Windows!NoMail) => Caught(k)
  /\ p.stage \in {"response", "write"} => p.request >= 1
  /\ p.stage \in {"response", "write"} /\ p.box # Windows!NoMail =>
       p.box = [mail |-> "answer", to |-> Windows!Identity(k), user |-> p.user]

\* A request of the queue is late, or the latest of its connection.
Known(e) ==
  LET c == connections[e.id.slot] IN
  \/ e.id.generation < c.generation
  \/ e.id.generation = c.generation /\ e.id.request < c.sequence
  \/ e.id.generation = c.generation /\ e.id.request = c.sequence /\ e.user = c.user

-----------------------------------------------------------------------------
(* The parts of the invariant.                                              *)

Ordered == \A p \in Later : Follows(p[1], p[2])

InSequence == \A x \in Transit : x.type = "request" => Expected(x)

AllAwaited == \A x \in Transit : x.type \in Told => Awaited(x)

PeersReady ==
  \A x \in In(events) : x.type = "request" =>
    peers[x.id.slot] = [generation |-> x.id.generation, user |-> x.user]

AllRipe == \A r \in In(replies) : Ripe(r)

PipeSound ==
  pipe = "up" => /\ \A k \in Slots : SlotSound(k)
                 /\ AllAwaited /\ PeersReady /\ AllRipe

Quiet ==
  pipe # "up" => events = <<>> /\ \A k \in Slots : slot[k].stage = "connect"

Queued == \A e \in In(admitted) : e # Windows!Sleeping => Known(e)

Standing ==
  /\ failure \notin {"sequence", "peer"}
  /\ ~store => loop = "ended" /\ admitted = <<>>

AnswerInv ==
  PipeTyped /\ Ordered /\ InSequence /\ PipeSound /\ Quiet /\ Queued /\ Standing

-----------------------------------------------------------------------------
(* Queues.                                                                  *)

LEMMA AppendIn ==
  ASSUME NEW S, NEW q \in Seq(S), NEW e \in S
  PROVE  /\ Append(q, e) \in Seq(S)
         /\ In(Append(q, e)) = In(q) \cup {e}
         /\ Then(Append(q, e)) \subseteq Then(q) \cup (In(q) \X {e})
<1> DEFINE r == Append(q, e)
<1>1. r \in Seq(S) /\ Len(r) = Len(q) + 1 /\ Len(q) \in Nat
      /\ r[Len(q) + 1] = e /\ \A i \in 1..Len(q) : r[i] = q[i]
  OBVIOUS
<1>2. DOMAIN r = 1..(Len(q) + 1) /\ DOMAIN q = 1..Len(q)
  BY <1>1
<1> HIDE DEF r
<1>3. In(r) = In(q) \cup {e}
  BY <1>1, <1>2 DEF In
<1>4. ASSUME NEW p \in Then(r) PROVE p \in Then(q) \cup (In(q) \X {e})
  <2>1. PICK i \in DOMAIN r, j \in DOMAIN r : i < j /\ p = <<r[i], r[j]>>
    BY <1>4 DEF Then
  <2>2. i \in 1..Len(q) /\ r[i] = q[i] /\ q[i] \in In(q)
    BY <1>1, <1>2, <2>1 DEF In
  <2>3. CASE j = Len(q) + 1
    BY <1>1, <2>1, <2>2, <2>3
  <2>4. CASE j # Len(q) + 1
    <3>1. j \in 1..Len(q) /\ r[j] = q[j] /\ q[j] \in In(q)
      BY <1>1, <1>2, <2>4 DEF In
    <3> QED
      BY <1>2, <2>1, <2>2, <3>1 DEF Then
  <2> QED
    BY <2>3, <2>4
<1> QED
  BY <1>1, <1>3, <1>4 DEF r

LEMMA TailIn ==
  ASSUME NEW S, NEW q \in Seq(S), q # <<>>
  PROVE  /\ Tail(q) \in Seq(S) /\ Head(q) \in S /\ Head(q) \in In(q)
         /\ In(Tail(q)) \subseteq In(q)
         /\ Then(Tail(q)) \subseteq Then(q)
         /\ \A x \in In(Tail(q)) : <<Head(q), x>> \in Then(q)
<1> DEFINE r == Tail(q)
<1>1. /\ r \in Seq(S) /\ Len(q) \in Nat /\ Len(q) >= 1 /\ Len(r) = Len(q) - 1
      /\ Head(q) = q[1] /\ \A i \in 1..Len(r) : r[i] = q[i + 1]
  OBVIOUS
<1>2. DOMAIN r = 1..(Len(q) - 1) /\ DOMAIN q = 1..Len(q)
  BY <1>1
<1> HIDE DEF r
<1>3. 1 \in DOMAIN q /\ q[1] \in S /\ q[1] \in In(q)
  BY <1>1, <1>2 DEF In
<1>4. \A i \in DOMAIN r : i + 1 \in DOMAIN q /\ r[i] = q[i + 1] /\ r[i] \in In(q) /\ 1 < i + 1
  BY <1>1, <1>2 DEF In
<1>5. In(r) \subseteq In(q)
  BY <1>4 DEF In
<1>6. Then(r) \subseteq Then(q)
  <2> SUFFICES ASSUME NEW p \in Then(r) PROVE p \in Then(q)
    OBVIOUS
  <2>1. PICK i \in DOMAIN r, j \in DOMAIN r : i < j /\ p = <<r[i], r[j]>>
    BY DEF Then
  <2>2. i \in Nat /\ j \in Nat /\ i + 1 < j + 1
    BY <1>1, <1>2, <2>1
  <2> QED
    BY <1>4, <2>1, <2>2 DEF Then
<1>7. ASSUME NEW x \in In(r) PROVE <<q[1], x>> \in Then(q)
  <2>1. PICK i \in DOMAIN r : x = r[i]
    BY <1>7 DEF In
  <2> QED
    BY <1>3, <1>4, <2>1 DEF Then
<1> QED
  BY <1>1, <1>3, <1>5, <1>6, <1>7 DEF r

\* What is left when element i is removed, cell by cell.
LEMMA RemoveCells ==
  ASSUME NEW S, NEW q \in Seq(S), NEW i \in DOMAIN q
  PROVE  /\ RemoveAt(q, i) \in Seq(S) /\ DOMAIN RemoveAt(q, i) = 1..(Len(q) - 1)
         /\ Len(q) \in Nat /\ DOMAIN q = 1..Len(q) /\ i \in 1..Len(q)
         /\ \A j \in 1..(Len(q) - 1) : RemoveAt(q, i)[j] = IF j < i THEN q[j] ELSE q[j + 1]
<1> DEFINE m == SubSeq(q, 1, i - 1)
           n == SubSeq(q, i + 1, Len(q))
<1>1. Len(q) \in Nat /\ DOMAIN q = 1..Len(q) /\ i \in 1..Len(q)
  OBVIOUS
<1>2. m \in Seq(S) /\ Len(m) = i - 1 /\ \A j \in 1..(i - 1) : m[j] = q[j]
  BY <1>1
<1>3. n \in Seq(S) /\ Len(n) = Len(q) - i /\ \A j \in 1..(Len(q) - i) : n[j] = q[i + j]
  BY <1>1
<1> HIDE DEF m, n
<1>4. /\ m \o n \in Seq(S) /\ Len(m \o n) = Len(q) - 1
      /\ \A j \in 1..(Len(q) - 1) :
           (m \o n)[j] = IF j <= i - 1 THEN m[j] ELSE n[j - (i - 1)]
  <2>1. /\ m \o n \in Seq(S) /\ Len(m \o n) = Len(m) + Len(n)
        /\ \A j \in 1..(Len(m) + Len(n)) :
             (m \o n)[j] = IF j <= Len(m) THEN m[j] ELSE n[j - Len(m)]
    BY <1>2, <1>3
  <2>2. Len(m) + Len(n) = Len(q) - 1
    BY <1>1, <1>2, <1>3
  <2> QED
    BY <2>1, <2>2, <1>2
<1>5. ASSUME NEW j \in 1..(Len(q) - 1) PROVE (m \o n)[j] = IF j < i THEN q[j] ELSE q[j + 1]
  <2>1. CASE j < i
    <3>1. (m \o n)[j] = m[j] /\ j \in 1..(i - 1)
      BY <1>1, <1>4, <2>1
    <3> QED
      BY <1>2, <2>1, <3>1
  <2>2. CASE ~(j < i)
    <3>1. (m \o n)[j] = n[j - (i - 1)] /\ j - (i - 1) \in 1..(Len(q) - i) /\ i + (j - (i - 1)) = j + 1
      BY <1>1, <1>4, <2>2
    <3> QED
      BY <1>3, <2>2, <3>1
  <2> QED
    BY <2>1, <2>2
<1>6. DOMAIN (m \o n) = 1..(Len(q) - 1)
  <2>1. \A z \in Seq(S) : DOMAIN z = 1..Len(z)
    OBVIOUS
  <2> QED
    BY <1>4, <2>1
<1> QED
  BY <1>1, <1>4, <1>5, <1>6 DEF RemoveAt, m, n

LEMMA RemoveIn ==
  ASSUME NEW S, NEW q \in Seq(S), NEW i \in DOMAIN q
  PROVE  RemoveAt(q, i) \in Seq(S) /\ In(RemoveAt(q, i)) \subseteq In(q)
<1> DEFINE r == RemoveAt(q, i)
<1>1. /\ r \in Seq(S) /\ DOMAIN r = 1..(Len(q) - 1) /\ Len(q) \in Nat /\ DOMAIN q = 1..Len(q)
      /\ \A j \in 1..(Len(q) - 1) : r[j] = IF j < i THEN q[j] ELSE q[j + 1]
  BY RemoveCells
<1> HIDE DEF r
<1>2. ASSUME NEW j \in DOMAIN r PROVE r[j] \in In(q)
  <2>1. j \in DOMAIN q /\ j + 1 \in DOMAIN q /\ (r[j] = q[j] \/ r[j] = q[j + 1])
    BY <1>1
  <2> QED
    BY <2>1 DEF In
<1>3. In(r) \subseteq In(q)
  BY <1>2 DEF In
<1> QED
  BY <1>1, <1>3 DEF r

LEMMA NothingIn == In(<<>>) = {} /\ Then(<<>>) = {}
  BY DEF In, Then

-----------------------------------------------------------------------------

LEMMA ToldIs ==
  ASSUME PipeTyped, NEW x \in Transit, x.type \in Told
  PROVE  x \in Events
<1>1. x \in Messages
  BY DEF PipeTyped, Transit, In, Messages
<1>2. x = [type |-> "ready"] => x.type \notin Told
  BY DEF Told
<1>3. x \in [type : {"exit"}, why : {"worker"}] => x.type \notin Told
  BY DEF Told
<1> QED
  BY <1>1, <1>2, <1>3 DEF Messages

LEMMA EventIs ==
  ASSUME NEW x \in Events
  PROVE  /\ x.id.slot \in Slots /\ x.id.generation \in Nat /\ x.id.request \in Nat
         /\ x.type \in Told /\ x.user \in Users \cup {Nobody} /\ x \in Messages
  BY DEF Events, Windows!Identities, Messages

LEMMA SlotIs ==
  ASSUME PipeTyped, NEW k \in Slots
  PROVE  /\ slot[k] \in Windows!Slot
         /\ slot[k].generation \in Nat /\ slot[k].request \in Nat /\ slot[k].user \in Users \cup {Nobody}
         /\ slot[k].stage \in {"connect", "authorize", "header", "response", "write"}
         /\ connections[k].generation \in Nat /\ connections[k].sequence \in Nat
         /\ connections[k].active \in BOOLEAN /\ connections[k].pending \in BOOLEAN
         /\ connections[k].user \in Users \cup {Nobody}
         /\ Windows!Identity(k) = [slot |-> k, generation |-> slot[k].generation, request |-> slot[k].request]
         /\ Windows!Identity(k) \in Windows!Identities
<1>1. slot[k] \in Windows!Slot
  BY DEF PipeTyped
<1>2. /\ slot[k].generation \in Nat /\ slot[k].request \in Nat /\ slot[k].user \in Users \cup {Nobody}
      /\ slot[k].stage \in {"connect", "authorize", "header", "response", "write"}
  BY <1>1 DEF Windows!Slot
<1>3. /\ connections[k].generation \in Nat /\ connections[k].sequence \in Nat
      /\ connections[k].active \in BOOLEAN /\ connections[k].pending \in BOOLEAN
      /\ connections[k].user \in Users \cup {Nobody}
  BY DEF PipeTyped
<1> QED
  BY <1>1, <1>2, <1>3 DEF Windows!Identity, Windows!Identities

LEMMA UnderWay ==
  ASSUME PipeTyped, NEW x \in In(events)
  PROVE  x \in Events /\ x \in Transit
  BY DEF PipeTyped, In, Transit

LEMMA ReplyIs ==
  ASSUME PipeTyped, NEW r \in In(replies)
  PROVE  /\ r \in Replies /\ r.id.slot \in Slots /\ r.id.generation \in Nat /\ r.id.request \in Nat
         /\ r.user \in Users \cup {Nobody}
<1>1. r \in Replies
  BY DEF PipeTyped, In
<1> QED
  BY <1>1 DEF Replies, Windows!Identities

LEMMA EntryIs ==
  ASSUME PipeTyped, NEW e \in In(admitted), e # Windows!Sleeping
  PROVE  /\ e \in Entries /\ e.id.slot \in Slots /\ e.id.generation \in Nat /\ e.id.request \in Nat
         /\ e.id \in Windows!Identities /\ e.user \in Users \cup {Nobody}
<1>1. e \in Entries
  BY DEF PipeTyped, In
<1> QED
  BY <1>1 DEF Entries, Windows!Identities

\* The dispatcher tells of something.
LEMMA Tells ==
  ASSUME PipeTyped, NEW e \in Events, events' = Append(events, e), messages' = messages
  PROVE  /\ events' \in Seq(Events) /\ messages' \in Seq(Messages)
         /\ In(events)' = In(events) \cup {e}
         /\ Transit' = Transit \cup {e}
         /\ Later' \subseteq Later \cup (Transit \X {e})
<1>1. events \in Seq(Events) /\ messages \in Seq(Messages)
  BY DEF PipeTyped
<1>2. /\ events' \in Seq(Events) /\ In(events') = In(events) \cup {e}
      /\ Then(events') \subseteq Then(events) \cup (In(events) \X {e})
  BY <1>1, AppendIn
<1>3. In(events)' = In(events') /\ Then(events)' = Then(events') /\ In(messages)' = In(messages)
      /\ Then(messages)' = Then(messages)
  BY DEF In, Then
<1>4. Transit' = Transit \cup {e}
  BY <1>2, <1>3 DEF Transit
<1>5. Later' \subseteq Later \cup (Transit \X {e})
  BY <1>2, <1>3 DEF Later, Transit
<1> QED
  BY <1>1, <1>2, <1>3, <1>4, <1>5

\* The pipe worker takes what was told, and may pass it on.
LEMMA Passes ==
  ASSUME PipeTyped, events # <<>>, events' = Tail(events),
         messages' = messages \/ messages' = Append(messages, Head(events))
  PROVE  /\ events' \in Seq(Events) /\ messages' \in Seq(Messages)
         /\ In(events)' \subseteq In(events)
         /\ Head(events) \in Events /\ Head(events) \in In(events) /\ Head(events) \in Transit
         /\ Transit' \subseteq Transit /\ Later' \subseteq Later
         /\ \A x \in In(events)' : <<Head(events), x>> \in Later
         /\ \A x \in In(messages) : <<x, Head(events)>> \in Later
<1> DEFINE e == Head(events)
<1>1. events \in Seq(Events) /\ messages \in Seq(Messages)
  BY DEF PipeTyped
<1>2. /\ events' \in Seq(Events) /\ e \in Events /\ e \in In(events)
      /\ In(events') \subseteq In(events) /\ Then(events') \subseteq Then(events)
      /\ \A x \in In(events') : <<e, x>> \in Then(events)
  BY <1>1, TailIn
<1> HIDE DEF e
<1>3. In(events)' = In(events') /\ Then(events)' = Then(events') /\ In(messages)' = In(messages')
      /\ Then(messages)' = Then(messages')
  BY DEF In, Then
<1>4. e \in Messages
  BY <1>2, EventIs
<1>5. /\ messages' \in Seq(Messages) /\ In(messages') \subseteq In(messages) \cup {e}
      /\ Then(messages') \subseteq Then(messages) \cup (In(messages) \X {e})
  <2>1. CASE messages' = messages
    BY <1>1, <2>1
  <2>2. CASE messages' = Append(messages, e)
    BY <1>1, <1>4, <2>2, AppendIn
  <2> QED
    BY <2>1, <2>2 DEF e
<1>6. Transit' \subseteq Transit
  BY <1>2, <1>3, <1>5 DEF Transit
<1>7. Later' \subseteq Later
  BY <1>2, <1>3, <1>5 DEF Later
<1> QED
  BY <1>2, <1>3, <1>5, <1>6, <1>7 DEF Transit, Later, e

\* The runtime worker takes a message.
LEMMA Receives ==
  ASSUME PipeTyped, messages # <<>>, messages' = Tail(messages), events' = events
  PROVE  /\ events' \in Seq(Events) /\ messages' \in Seq(Messages)
         /\ In(events)' = In(events)
         /\ Head(messages) \in Messages /\ Head(messages) \in Transit
         /\ Transit' \subseteq Transit /\ Later' \subseteq Later
         /\ \A x \in Transit' : <<Head(messages), x>> \in Later
<1> DEFINE m == Head(messages)
<1>1. events \in Seq(Events) /\ messages \in Seq(Messages)
  BY DEF PipeTyped
<1>2. /\ messages' \in Seq(Messages) /\ m \in Messages /\ m \in In(messages)
      /\ In(messages') \subseteq In(messages) /\ Then(messages') \subseteq Then(messages)
      /\ \A x \in In(messages') : <<m, x>> \in Then(messages)
  BY <1>1, TailIn
<1> HIDE DEF m
<1>3. In(events)' = In(events) /\ Then(events)' = Then(events) /\ In(messages)' = In(messages')
      /\ Then(messages)' = Then(messages')
  BY DEF In, Then
<1>4. Transit' \subseteq Transit
  BY <1>2, <1>3 DEF Transit
<1>5. Later' \subseteq Later
  BY <1>2, <1>3 DEF Later
<1>6. \A x \in Transit' : <<m, x>> \in Later
  BY <1>2, <1>3 DEF Later, Transit
<1> QED
  BY <1>1, <1>2, <1>3, <1>4, <1>5, <1>6 DEF Transit, m

Exit == [type |-> "exit", why |-> "worker"]

\* The pipe worker ends.
LEMMA Cuts ==
  ASSUME PipeTyped, events' = <<>>, messages' = messages \/ messages' = Append(messages, Exit)
  PROVE  /\ events' \in Seq(Events) /\ messages' \in Seq(Messages)
         /\ In(events)' = {} /\ Exit.type \notin Told
         /\ Transit' \subseteq Transit \cup {Exit} /\ Later' \subseteq Later \cup (Transit \X {Exit})
<1>1. events \in Seq(Events) /\ messages \in Seq(Messages) /\ Exit \in Messages
  BY DEF PipeTyped, Messages, Exit
<1>2. /\ messages' \in Seq(Messages) /\ In(messages') \subseteq In(messages) \cup {Exit}
      /\ Then(messages') \subseteq Then(messages) \cup (In(messages) \X {Exit})
  <2>1. CASE messages' = messages
    BY <1>1, <2>1
  <2>2. CASE messages' = Append(messages, Exit)
    BY <1>1, <2>2, AppendIn
  <2> QED
    BY <2>1, <2>2
<1>3. In(events)' = {} /\ Then(events)' = {} /\ In(messages)' = In(messages')
      /\ Then(messages)' = Then(messages')
  BY NothingIn DEF In, Then
<1>4. Exit.type \notin Told /\ events' \in Seq(Events)
  BY DEF Exit, Told
<1>5. Transit' \subseteq Transit \cup {Exit}
  BY <1>2, <1>3 DEF Transit
<1>6. Later' \subseteq Later \cup (Transit \X {Exit})
  BY <1>2, <1>3 DEF Later, Transit
<1> QED
  BY <1>2, <1>3, <1>4, <1>5, <1>6

\* A slot, its connection and its peer that stand.
LEMMA SlotStays ==
  ASSUME NEW j \in Slots, slot'[j] = slot[j], connections'[j] = connections[j], peers'[j] = peers[j],
         SlotSound(j)
  PROVE  SlotSound(j)'
<1>1. Caught(j)' <=> Caught(j)
  BY DEF Caught
<1>2. Windows!Identity(j)' = Windows!Identity(j)
  BY DEF Windows!Identity
<1> QED
  BY <1>1, <1>2 DEF SlotSound, Windows!NoMail

Contents ==
  /\ events \in Seq(Events) /\ messages \in Seq(Messages)
  /\ replies \in Seq(Replies) /\ admitted \in Seq(Entries \cup {Windows!Sleeping})

\* What is left of the queues is sound as long as slots, peers and connections stand.
Still ==
  /\ UNCHANGED <<slot, peers, connections, pipe>>
  /\ Contents'
  /\ In(events)' \subseteq In(events) /\ Transit' \subseteq Transit /\ Later' \subseteq Later
  /\ In(replies)' \subseteq In(replies)
  /\ In(admitted)' \subseteq In(admitted) \cup {Windows!Sleeping}
  /\ pipe # "up" => events' = events
  /\ Standing'

LEMMA StillKeeps == AnswerInv /\ Still => AnswerInv'
<1> SUFFICES ASSUME AnswerInv, Still PROVE AnswerInv'
  OBVIOUS
<1>1. PipeTyped'
  BY DEF AnswerInv, Still, Contents, PipeTyped
<1>2. Ordered'
  BY DEF AnswerInv, Still, Ordered, Follows
<1>3. InSequence'
  BY DEF AnswerInv, Still, InSequence, Expected
<1>4. PipeSound'
  <2> SUFFICES ASSUME pipe = "up"
               PROVE  /\ \A k \in Slots : SlotSound(k)'
                      /\ AllAwaited' /\ PeersReady' /\ AllRipe'
    BY DEF PipeSound, Still
  <2>1. \A k \in Slots : SlotSound(k)'
    BY DEF AnswerInv, Still, PipeSound, SlotSound, Caught, Windows!Identity, Windows!NoMail
  <2>2. AllAwaited'
    BY DEF AnswerInv, Still, PipeSound, AllAwaited, Awaited, Windows!NoMail
  <2>3. PeersReady'
    BY DEF AnswerInv, Still, PipeSound, PeersReady
  <2>4. AllRipe'
    BY DEF AnswerInv, Still, PipeSound, AllRipe, Ripe
  <2> QED
    BY <2>1, <2>2, <2>3, <2>4
<1>5. Quiet'
  BY DEF AnswerInv, Still, Quiet
<1>6. Queued'
  BY DEF AnswerInv, Still, Queued, Known, Windows!Sleeping
<1> QED
  BY <1>1, <1>2, <1>3, <1>4, <1>5, <1>6 DEF AnswerInv, Still

\* The pipe worker is gone, with its slots and what it had to tell.
Gone ==
  /\ pipe' = "gone" /\ slot' = [k \in Slots |-> Windows!Fresh(slot[k].generation)]
  /\ events' = <<>> /\ replies' = <<>>
  /\ messages' = messages \/ messages' = Append(messages, Exit)
  /\ UNCHANGED <<peers, connections, admitted>>
  /\ Standing'

LEMMA GoneKeeps == AnswerInv /\ Gone => AnswerInv'
<1> SUFFICES ASSUME AnswerInv, Gone PROVE AnswerInv'
  OBVIOUS
<1>0. /\ events' \in Seq(Events) /\ messages' \in Seq(Messages)
      /\ In(events)' = {} /\ Exit.type \notin Told
      /\ Transit' \subseteq Transit \cup {Exit} /\ Later' \subseteq Later \cup (Transit \X {Exit})
  BY Cuts DEF AnswerInv, Gone
<1>1. PipeTyped'
  <2>1. slot' \in [Slots -> Windows!Slot]
    <3> SUFFICES ASSUME NEW k \in Slots PROVE Windows!Fresh(slot[k].generation) \in Windows!Slot
      BY DEF Gone
    <3>1. slot[k].generation \in Nat
      BY SlotIs DEF AnswerInv
    <3> QED
      BY <3>1 DEF Windows!Fresh, Windows!Slot, Windows!NoMail
  <2>2. replies' \in Seq(Replies)
    BY DEF Gone
  <2> QED
    BY <1>0, <2>1, <2>2 DEF AnswerInv, Gone, PipeTyped
<1>2. Ordered'
  BY <1>0 DEF AnswerInv, Ordered, Follows
<1>3. InSequence'
  <2>1. Exit.type # "request"
    BY DEF Exit
  <2> QED
    BY <1>0, <2>1 DEF AnswerInv, Gone, InSequence, Expected
<1>4. PipeSound' /\ Quiet'
  BY DEF Gone, PipeSound, Quiet, Windows!Fresh
<1>5. Queued'
  BY DEF AnswerInv, Gone, Queued, Known, In
<1> QED
  BY <1>1, <1>2, <1>3, <1>4, <1>5 DEF AnswerInv, Gone

\* Slot k becomes n, and e may be told.
Moves(k, n, e) ==
  /\ pipe = "up" /\ slot' = [slot EXCEPT ![k] = n] /\ e.id.slot = k
  /\ \/ events' = events
     \/ /\ events' = Append(events, e)
        /\ \A x \in Transit : Follows(x, e)
        /\ e.type # "closed" => Awaited(e)'
        /\ e.type = "closed" => e.id.generation < n.generation
        /\ e.type = "request" =>
             Expected(e) /\ peers[k] = [generation |-> e.id.generation, user |-> e.user]
  /\ \A x \in Transit : x.type \in Told /\ x.id.slot = k => x.id.generation < n.generation
  /\ SlotSound(k)'
  /\ \A r \in In(replies) : r.id.slot = k => Ripe(r)'
  /\ UNCHANGED <<peers, connections, pipe, messages, replies, admitted, failure, store, loop>>

LEMMA MovesKeep ==
  ASSUME AnswerInv, NEW k \in Slots, NEW n \in Windows!Slot, NEW e \in Events, Moves(k, n, e)
  PROVE  AnswerInv'
<1>0. /\ events' \in Seq(Events) /\ messages' \in Seq(Messages)
      /\ \/ events' = events /\ In(events)' = In(events) /\ Transit' = Transit /\ Later' = Later
         \/ /\ events' = Append(events, e) /\ In(events)' = In(events) \cup {e} /\ Transit' = Transit \cup {e}
            /\ Later' \subseteq Later \cup (Transit \X {e})
  <2>1. CASE events' = events
    BY <2>1 DEF AnswerInv, Moves, PipeTyped, In, Transit, Later, Then
  <2>2. CASE events' = Append(events, e)
    <3>1. messages' = messages
      BY DEF Moves
    <3> QED
      BY <2>2, <3>1, Tells DEF AnswerInv
  <2> QED
    BY <2>1, <2>2 DEF Moves
<1>a. \A j \in Slots : j # k => slot'[j] = slot[j]
  BY DEF AnswerInv, Moves, PipeTyped
<1>b. slot'[k] = n
  BY DEF AnswerInv, Moves, PipeTyped
<1>c. e.id.slot = k /\ e.id.generation \in Nat /\ e.type \in Told
  BY EventIs DEF Moves
<1>1. PipeTyped'
  <2>1. slot' \in [Slots -> Windows!Slot]
    BY DEF AnswerInv, Moves, PipeTyped
  <2> QED
    BY <1>0, <2>1 DEF AnswerInv, Moves, PipeTyped
<1>2. Ordered'
  BY <1>0 DEF AnswerInv, Moves, Ordered
<1>3. InSequence'
  <2> SUFFICES ASSUME NEW x \in Transit', x.type = "request" PROVE Expected(x)'
    BY DEF InSequence
  <2>1. Expected(x)
    BY <1>0 DEF AnswerInv, InSequence, Moves
  <2> QED
    BY <2>1 DEF Expected, Moves
<1>4. ASSUME NEW j \in Slots PROVE SlotSound(j)'
  <2>1. CASE j = k
    BY <2>1 DEF Moves
  <2>2. CASE j # k
    <3>1. slot'[j] = slot[j] /\ connections' = connections /\ peers' = peers /\ SlotSound(j)
      BY <1>4, <1>a, <2>2 DEF AnswerInv, PipeSound, Moves
    <3> QED
      BY <3>1, SlotStays
  <2> QED
    BY <2>1, <2>2
<1>5. AllAwaited'
  <2> SUFFICES ASSUME NEW x \in Transit', x.type \in Told PROVE Awaited(x)'
    BY DEF AllAwaited
  <2>1. CASE x \in Transit /\ x.id.slot = k
    <3>1. x.id.generation < n.generation
      BY <2>1 DEF Moves
    <3> QED
      BY <1>b, <2>1, <3>1 DEF Awaited
  <2>2. CASE x \in Transit /\ x.id.slot # k
    <3>1. x \in Events
      BY <2>2, ToldIs DEF AnswerInv
    <3>2. slot'[x.id.slot] = slot[x.id.slot]
      BY <1>a, <2>2, <3>1, EventIs
    <3>3. Awaited(x)
      BY <2>2 DEF AnswerInv, PipeSound, AllAwaited, Moves
    <3> QED
      BY <3>2, <3>3 DEF Awaited, Windows!NoMail
  <2>3. CASE x \notin Transit
    <3>1. x = e /\ events' = Append(events, e)
      BY <1>0, <2>3
    <3>2. CASE events' = events
      BY <1>0, <2>3, <3>2 DEF Transit, In, Moves
    <3>3. CASE events' # events
      BY <1>b, <1>c, <3>1, <3>3 DEF Moves, Awaited
    <3> QED
      BY <3>2, <3>3
  <2> QED
    BY <2>1, <2>2, <2>3
<1>6. PeersReady'
  <2> SUFFICES ASSUME NEW x \in In(events)', x.type = "request"
               PROVE  peers'[x.id.slot] = [generation |-> x.id.generation, user |-> x.user]
    BY DEF PeersReady
  <2>1. CASE x \in In(events)
    BY <2>1 DEF AnswerInv, PipeSound, PeersReady, Moves
  <2>2. CASE x \notin In(events)
    <3>1. x = e /\ events' # events
      BY <1>0, <2>2 DEF In
    <3> QED
      BY <3>1 DEF Moves
  <2> QED
    BY <2>1, <2>2
<1>7. AllRipe'
  <2> SUFFICES ASSUME NEW r \in In(replies)' PROVE Ripe(r)'
    BY DEF AllRipe
  <2>1. r \in In(replies) /\ Ripe(r)
    BY DEF AnswerInv, PipeSound, AllRipe, Moves, In
  <2>2. r.id.slot \in Slots
    BY <2>1, ReplyIs DEF AnswerInv
  <2>3. CASE r.id.slot = k
    BY <2>1, <2>3 DEF Moves
  <2>4. CASE r.id.slot # k
    BY <1>a, <2>1, <2>2, <2>4 DEF Ripe, Moves
  <2> QED
    BY <2>3, <2>4
<1>8. Quiet' /\ Queued' /\ Standing'
  BY DEF AnswerInv, Moves, Quiet, Queued, Known, In, Standing
<1> QED
  BY <1>1, <1>2, <1>3, <1>4, <1>5, <1>6, <1>7, <1>8 DEF AnswerInv, PipeSound, Moves

\* Nothing the slot has told is of its present connection, unless it waits for it.
LEMMA PassedIs ==
  ASSUME AnswerInv, pipe = "up", NEW k \in Slots,
         slot[k].stage \in {"connect", "header", "write"} \/ slot[k].box # Windows!NoMail,
         NEW x \in Transit, x.type \in Told, x.id.slot = k
  PROVE  x.id.generation < slot[k].generation
<1>1. Awaited(x)
  BY DEF AnswerInv, PipeSound, AllAwaited
<1> QED
  BY <1>1 DEF Awaited

\* Nothing at all is of a later connection, and no close of the present one.
LEMMA NotAhead ==
  ASSUME AnswerInv, pipe = "up", NEW x \in Transit, x.type \in Told
  PROVE  /\ x.id.slot \in Slots
         /\ x.id.generation <= slot[x.id.slot].generation
         /\ x.type = "closed" => x.id.generation < slot[x.id.slot].generation
<1>1. Awaited(x)
  BY DEF AnswerInv, PipeSound, AllAwaited
<1>2. x.id.slot \in Slots /\ x.id.generation \in Nat
  BY ToldIs, EventIs DEF AnswerInv
<1>3. slot[x.id.slot].generation \in Nat
  BY <1>2, SlotIs DEF AnswerInv
<1> QED
  BY <1>1, <1>2, <1>3 DEF Awaited

LEMMA ConnectKeeps ==
  ASSUME AnswerInv, NEW k \in Slots, Windows!Connect(k)
  PROVE  AnswerInv'
<1> DEFINE p == slot[k]
           c == connections[k]
<1>0. /\ pipe = "up" /\ p.stage = "connect"
      /\ events' = Append(events, [type |-> "verify", id |-> Windows!Identity(k), user |-> slot'[k].user])
      /\ UNCHANGED <<peers, connections, pipe, messages, replies, admitted, failure, store, loop>>
  BY DEF Windows!Connect, Windows!worker, Windows!runtime
<1>1. SlotSound(k)
  BY <1>0 DEF AnswerInv, PipeSound
<1>2. /\ p \in Windows!Slot /\ p.generation \in Nat /\ p.request \in Nat
      /\ c.generation \in Nat /\ Windows!Identity(k) \in Windows!Identities
      /\ Windows!Identity(k) = [slot |-> k, generation |-> p.generation, request |-> p.request]
  BY SlotIs DEF AnswerInv
<1>3. p.request = 0 /\ c.generation < p.generation /\ p.box = Windows!NoMail
  BY <1>0, <1>1 DEF SlotSound
<1>4. PICK w \in Users : slot' = [slot EXCEPT ![k].stage = "authorize", ![k].user = w]
  BY DEF Windows!Connect
<1>5. PICK n \in Windows!Slot : n = [p EXCEPT !.stage = "authorize", !.user = w]
  BY <1>2 DEF Windows!Slot
<1>6. /\ n.stage = "authorize" /\ n.user = w /\ n.generation = p.generation /\ n.request = p.request
      /\ n.box = p.box
  BY <1>2, <1>5 DEF Windows!Slot
<1>7. slot' = [slot EXCEPT ![k] = n] /\ slot'[k] = n
  BY <1>4, <1>5 DEF AnswerInv, PipeTyped
<1>8. PICK e \in Events : e = [type |-> "verify", id |-> Windows!Identity(k), user |-> w]
  BY <1>2 DEF Events, Told
<1>e. /\ e.type = "verify" /\ e.user = w /\ events' = Append(events, e)
      /\ e.id = [slot |-> k, generation |-> p.generation, request |-> p.request]
  BY <1>0, <1>2, <1>6, <1>7, <1>8
<1>9. \A x \in Transit : x.type \in Told /\ x.id.slot = k => x.id.generation < p.generation
  BY <1>0, PassedIs
<1>10. \A x \in Transit : Follows(x, e)
  BY <1>2, <1>e, <1>9 DEF Follows
<1>11. Awaited(e)'
  BY <1>2, <1>3, <1>6, <1>7, <1>e DEF Awaited
<1>12. SlotSound(k)'
  BY <1>0, <1>1, <1>2, <1>3, <1>6, <1>7 DEF SlotSound
<1>13. ASSUME NEW r \in In(replies), r.id.slot = k PROVE Ripe(r)'
  <2>1. Ripe(r)
    BY <1>0 DEF AnswerInv, PipeSound, AllRipe
  <2> QED
    BY <1>0, <1>2, <1>3, <1>6, <1>7, <1>13, <2>1 DEF Ripe
<1>14. Moves(k, n, e)
  BY <1>0, <1>2, <1>6, <1>7, <1>e, <1>9, <1>10, <1>11, <1>12, <1>13 DEF Moves
<1> QED
  BY <1>14, MovesKeep

\* The slot gives a connection up.
LEMMA ReconnectedKeeps ==
  ASSUME AnswerInv, NEW k \in Slots, pipe = "up", slot[k].stage # "connect", Windows!Reconnected(k),
         UNCHANGED <<peers, connections, pipe, messages, replies, admitted, failure, store, loop>>
  PROVE  AnswerInv'
<1> DEFINE p == slot[k]
           c == connections[k]
<1>1. SlotSound(k)
  BY DEF AnswerInv, PipeSound
<1>2. /\ p \in Windows!Slot /\ p.generation \in Nat /\ p.request \in Nat /\ p.user \in Users \cup {Nobody}
      /\ c.generation \in Nat /\ Windows!Identity(k) \in Windows!Identities
      /\ Windows!Identity(k) = [slot |-> k, generation |-> p.generation, request |-> p.request]
  BY SlotIs DEF AnswerInv
<1>3. PICK n \in Windows!Slot : n = Windows!Fresh(p.generation + 1)
  <2>1. p.generation + 1 \in Nat
    BY <1>2
  <2>2. Windows!Fresh(p.generation + 1) \in Windows!Slot
    BY <2>1 DEF Windows!Slot, Windows!Fresh, Windows!NoMail
  <2> QED
    BY <2>2
<1>4. /\ n.stage = "connect" /\ n.generation = p.generation + 1 /\ n.request = 0
      /\ n.box = Windows!NoMail
  BY <1>3 DEF Windows!Fresh
<1>e. PICK e \in Events : e = Windows!Event("closed", k)
  BY <1>2 DEF Events, Told, Windows!Event
<1>5. slot' = [slot EXCEPT ![k] = n] /\ slot'[k] = n /\ events' = Append(events, e)
  BY <1>3, <1>e DEF Windows!Reconnected, AnswerInv, PipeTyped
<1>6. e.type = "closed" /\ e.id = [slot |-> k, generation |-> p.generation, request |-> p.request]
  BY <1>2, <1>e DEF Windows!Event
<1>7. \A x \in Transit : x.type \in Told /\ x.id.slot = k =>
        /\ x.id.generation <= p.generation /\ x.id.generation \in Nat
        /\ x.type = "closed" => x.id.generation < p.generation
  BY NotAhead, ToldIs, EventIs DEF AnswerInv
<1>8. \A x \in Transit : Follows(x, e)
  BY <1>2, <1>6, <1>7 DEF Follows
<1>9. SlotSound(k)'
  BY <1>1, <1>2, <1>4, <1>5 DEF SlotSound
<1>10. ASSUME NEW r \in In(replies), r.id.slot = k PROVE Ripe(r)'
  <2>1. Ripe(r) /\ r.id.generation \in Nat
    BY ReplyIs DEF AnswerInv, PipeSound, AllRipe
  <2> QED
    BY <1>2, <1>4, <1>5, <1>10, <2>1 DEF Ripe
<1>11. \A x \in Transit : x.type \in Told /\ x.id.slot = k => x.id.generation < n.generation
  BY <1>2, <1>4, <1>7
<1>12. Moves(k, n, e)
  BY <1>2, <1>4, <1>5, <1>6, <1>8, <1>9, <1>10, <1>11 DEF Moves
<1> QED
  BY <1>12, MovesKeep

LEMMA ReconnectKeeps ==
  ASSUME AnswerInv, NEW k \in Slots, Windows!Reconnect(k)
  PROVE  AnswerInv'
  BY ReconnectedKeeps DEF Windows!Reconnect, Windows!worker, Windows!runtime

LEMMA ReadKeeps ==
  ASSUME AnswerInv, NEW k \in Slots, Windows!Read(k)
  PROVE  AnswerInv'
<1> DEFINE p == slot[k]
           c == connections[k]
<1>0. /\ pipe = "up" /\ p.stage = "header"
      /\ slot' = [slot EXCEPT ![k].stage = "response", ![k].request = p.request + 1]
      /\ events' = Append(events, [type |-> "request", user |-> p.user,
                                   id |-> [Windows!Identity(k) EXCEPT !.request = p.request + 1]])
      /\ UNCHANGED <<peers, connections, pipe, messages, replies, admitted, failure, store, loop>>
  BY DEF Windows!Read, Windows!worker, Windows!runtime
<1>1. SlotSound(k)
  BY <1>0 DEF AnswerInv, PipeSound
<1>2. /\ p \in Windows!Slot /\ p.generation \in Nat /\ p.request \in Nat /\ p.user \in Users \cup {Nobody}
      /\ c.generation \in Nat /\ c.sequence \in Nat /\ c.pending \in BOOLEAN /\ c.active \in BOOLEAN
      /\ Windows!Identity(k) = [slot |-> k, generation |-> p.generation, request |-> p.request]
  BY SlotIs DEF AnswerInv
<1>3. /\ p.box = Windows!NoMail /\ Caught(k) /\ peers[k] = [generation |-> p.generation, user |-> p.user]
  BY <1>0, <1>1 DEF SlotSound
<1>4. PICK n \in Windows!Slot : n = [p EXCEPT !.stage = "response", !.request = p.request + 1]
  <2>1. p.request + 1 \in Nat
    BY <1>2
  <2> QED
    BY <1>2, <2>1 DEF Windows!Slot
<1>5. /\ n.stage = "response" /\ n.user = p.user /\ n.generation = p.generation
      /\ n.request = p.request + 1 /\ n.box = p.box
  BY <1>2, <1>4 DEF Windows!Slot
<1>6. slot' = [slot EXCEPT ![k] = n] /\ slot'[k] = n
  BY <1>0, <1>4 DEF AnswerInv, PipeTyped
<1>7. PICK e \in Events : e = [type |-> "request", user |-> p.user,
                             id |-> [slot |-> k, generation |-> p.generation, request |-> p.request + 1]]
  <2>1. p.request + 1 \in Nat
    BY <1>2
  <2> QED
    BY <1>2, <2>1 DEF Events, Told, Windows!Identities
<1>8. /\ e.type = "request" /\ e.user = p.user /\ events' = Append(events, e)
      /\ e.id = [slot |-> k, generation |-> p.generation, request |-> p.request + 1]
  BY <1>0, <1>2, <1>7
<1>9. \A x \in Transit : x.type \in Told /\ x.id.slot = k => x.id.generation < p.generation
  BY <1>0, PassedIs
<1>10. \A x \in Transit : Follows(x, e)
  BY <1>2, <1>8, <1>9 DEF Follows
<1>11. Awaited(e)'
  BY <1>2, <1>3, <1>5, <1>6, <1>8 DEF Awaited
<1>12. Expected(e)
  BY <1>1, <1>2, <1>3, <1>8 DEF Expected, SlotSound, Caught
<1>13. SlotSound(k)'
  <2>1. connections' = connections /\ peers' = peers /\ slot'[k] = n
    BY <1>0, <1>6
  <2>2. c.generation <= n.generation
    BY <1>1, <1>5 DEF SlotSound
  <2>3. c.generation = n.generation => c.active /\ c.user = n.user /\ c.sequence <= n.request
    BY <1>1, <1>2, <1>5 DEF SlotSound
  <2>4. n.request >= 1 /\ n.user \in Users
    BY <1>0, <1>1, <1>2, <1>5 DEF SlotSound
  <2> QED
    BY <1>3, <1>5, <2>1, <2>2, <2>3, <2>4 DEF SlotSound
<1>14. ASSUME NEW r \in In(replies), r.id.slot = k PROVE Ripe(r)'
  <2>1. Ripe(r) /\ r.id.generation \in Nat /\ r.id.request \in Nat
    BY <1>0, ReplyIs DEF AnswerInv, PipeSound, AllRipe
  <2> QED
    BY <1>2, <1>5, <1>6, <1>14, <2>1 DEF Ripe
<1>15. \A x \in Transit : x.type \in Told /\ x.id.slot = k => x.id.generation < n.generation
  BY <1>5, <1>9
<1>16. e.id.slot = k /\ e.type # "closed" /\ peers[k] = [generation |-> e.id.generation, user |-> e.user]
  BY <1>3, <1>8
<1>17. Moves(k, n, e)
  BY <1>0, <1>6, <1>8, <1>10, <1>11, <1>12, <1>13, <1>14, <1>15, <1>16 DEF Moves
<1> QED
  BY <1>17, MovesKeep

\* The slot takes what is in its box, or has written it.
LEMMA TurnKeeps ==
  ASSUME AnswerInv, NEW k \in Slots, pipe = "up",
         NEW n \in Windows!Slot, slot' = [slot EXCEPT ![k] = n],
         \/ slot[k].stage = "authorize" /\ slot[k].box # Windows!NoMail /\ slot[k].box.authorized
            /\ n = [slot[k] EXCEPT !.stage = "header", !.box = Windows!NoMail]
         \/ slot[k].stage = "response" /\ slot[k].box # Windows!NoMail
            /\ n = [slot[k] EXCEPT !.stage = "write"]
         \/ slot[k].stage = "write" /\ n = [slot[k] EXCEPT !.stage = "header", !.box = Windows!NoMail],
         UNCHANGED <<events, peers, connections, pipe, messages, replies, admitted, failure, store, loop>>
  PROVE  AnswerInv'
<1> DEFINE p == slot[k]
           c == connections[k]
<1>1. SlotSound(k)
  BY DEF AnswerInv, PipeSound
<1>2. /\ p \in Windows!Slot /\ p.generation \in Nat /\ p.request \in Nat /\ p.user \in Users \cup {Nobody}
      /\ c.generation \in Nat /\ c.sequence \in Nat /\ Windows!Identity(k) \in Windows!Identities
      /\ Windows!Identity(k) = [slot |-> k, generation |-> p.generation, request |-> p.request]
  BY SlotIs DEF AnswerInv
<1>3. n.user = p.user /\ n.generation = p.generation /\ n.request = p.request
  BY <1>2 DEF Windows!Slot
<1>4. \/ p.stage = "authorize" /\ p.box # Windows!NoMail /\ p.box.authorized /\ n.stage = "header" /\ n.box = Windows!NoMail
      \/ p.stage = "response" /\ p.box # Windows!NoMail /\ n.stage = "write" /\ n.box = p.box
      \/ p.stage = "write" /\ n.stage = "header" /\ n.box = Windows!NoMail
  BY <1>2 DEF Windows!Slot
<1>5. slot'[k] = n
  BY DEF AnswerInv, PipeTyped
<1>6. PICK e \in Events : e.id.slot = k
  <2>1. Windows!Event("closed", k) \in Events /\ Windows!Event("closed", k).id.slot = k
    BY <1>2 DEF Events, Told, Windows!Event
  <2> QED
    BY <2>1
<1>7. \A x \in Transit : x.type \in Told /\ x.id.slot = k => x.id.generation < n.generation
  BY <1>3, <1>4, PassedIs
<1>8. Windows!Identity(k)' = Windows!Identity(k)
  BY <1>2, <1>3, <1>5 DEF Windows!Identity
<1>9. Caught(k)' <=> Caught(k)
  BY <1>3, <1>5 DEF Caught
<1>10. SlotSound(k)'
  <2>1. CASE p.stage = "authorize" /\ p.box # Windows!NoMail /\ p.box.authorized /\ n.stage = "header" /\ n.box = Windows!NoMail
    <3>1. Caught(k)
      BY <1>1, <2>1 DEF SlotSound, Caught
    <3>2. peers[k] = [generation |-> p.generation, user |-> p.user]
      BY <1>1, <2>1 DEF SlotSound
    <3>3. peers' = peers /\ connections' = connections
      OBVIOUS
    <3>4. Caught(k)' /\ slot'[k] = n
      BY <1>5, <1>9, <3>1
    <3>5. c.generation <= n.generation
          /\ (c.generation = n.generation => c.active /\ c.user = n.user /\ c.sequence <= n.request)
      BY <1>1, <1>3 DEF SlotSound
    <3>6. n.stage = "header" /\ n.box = Windows!NoMail /\ n.user \in Users
      BY <1>1, <1>3, <2>1 DEF SlotSound
    <3> QED
      BY <1>3, <3>2, <3>3, <3>4, <3>5, <3>6 DEF SlotSound
  <2>2. CASE p.stage = "response" /\ p.box # Windows!NoMail /\ n.stage = "write" /\ n.box = p.box
    BY <1>1, <1>2, <1>3, <1>5, <1>8, <1>9, <2>2 DEF SlotSound
  <2>3. CASE p.stage = "write" /\ n.stage = "header" /\ n.box = Windows!NoMail
    <3>1. /\ Caught(k) /\ peers[k] = [generation |-> p.generation, user |-> p.user] /\ p.user \in Users
          /\ c.generation <= p.generation
          /\ c.generation = p.generation => c.active /\ c.user = p.user /\ c.sequence <= p.request
      BY <1>1, <2>3 DEF SlotSound
    <3>2. Caught(k)' /\ slot'[k] = n /\ peers' = peers /\ connections' = connections
      BY <1>5, <1>9, <3>1
    <3>3. n.stage = "header" /\ n.box = Windows!NoMail
      BY <2>3
    <3> QED
      BY <1>3, <3>1, <3>2, <3>3 DEF SlotSound
  <2> QED
    BY <1>4, <2>1, <2>2, <2>3
<1>11. ASSUME NEW r \in In(replies), r.id.slot = k PROVE Ripe(r)'
  <2>1. Ripe(r)
    BY DEF AnswerInv, PipeSound, AllRipe
  <2> QED
    BY <1>3, <1>5, <1>11, <2>1 DEF Ripe
<1>12. Moves(k, n, e)
  BY <1>6, <1>7, <1>10, <1>11 DEF Moves
<1> QED
  BY <1>12, MovesKeep

LEMMA WrittenKeeps ==
  ASSUME AnswerInv, NEW k \in Slots, Windows!Written(k)
  PROVE  AnswerInv'
<1>1. slot[k] \in Windows!Slot
  BY SlotIs DEF AnswerInv
<1>2. PICK n \in Windows!Slot : n = [slot[k] EXCEPT !.stage = "header", !.box = Windows!NoMail]
  BY <1>1 DEF Windows!Slot
<1>3. /\ pipe = "up" /\ slot[k].stage = "write"
      /\ UNCHANGED <<events, peers, connections, pipe, messages, replies, admitted, failure, store, loop>>
  BY DEF Windows!Written, Windows!worker, Windows!runtime
<1>4. slot' = [slot EXCEPT ![k] = n]
  BY <1>2 DEF Windows!Written, AnswerInv, PipeTyped
<1> QED
  BY <1>2, <1>3, <1>4, TurnKeeps

LEMMA MailKeeps ==
  ASSUME AnswerInv, NEW k \in Slots, Windows!Mail(k)
  PROVE  AnswerInv'
<1>1. /\ slot[k] \in Windows!Slot
      /\ slot[k].stage \in {"connect", "authorize", "header", "response", "write"}
  BY SlotIs DEF AnswerInv
<1>2. /\ pipe = "up" /\ slot[k].box # Windows!NoMail /\ slot[k].stage # "write"
      /\ UNCHANGED <<peers, connections, pipe, messages, replies, admitted, failure, store, loop>>
  BY DEF Windows!Mail, Windows!worker, Windows!runtime
<1>3. slot[k].stage \in {"authorize", "response"}
  BY <1>1, <1>2 DEF AnswerInv, PipeSound, SlotSound
<1>4. CASE slot[k].stage = "response"
  <2>1. PICK n \in Windows!Slot : n = [slot[k] EXCEPT !.stage = "write"]
    BY <1>1 DEF Windows!Slot
  <2>2. slot' = [slot EXCEPT ![k] = n] /\ events' = events
    BY <1>4, <2>1 DEF Windows!Mail, AnswerInv, PipeTyped
  <2> QED
    BY <1>2, <1>4, <2>1, <2>2, TurnKeeps
<1>5. CASE slot[k].stage = "authorize" /\ slot[k].box.authorized
  <2>1. PICK n \in Windows!Slot : n = [slot[k] EXCEPT !.stage = "header", !.box = Windows!NoMail]
    BY <1>1 DEF Windows!Slot
  <2>2. slot' = [slot EXCEPT ![k] = n] /\ events' = events
    BY <1>5, <2>1 DEF Windows!Mail, AnswerInv, PipeTyped
  <2> QED
    BY <1>2, <1>5, <2>1, <2>2, TurnKeeps
<1>6. CASE slot[k].stage = "authorize" /\ ~slot[k].box.authorized
  <2>1. Windows!Reconnected(k)
    BY <1>6 DEF Windows!Mail
  <2> QED
    BY <1>2, <1>6, <2>1, ReconnectedKeeps
<1> QED
  BY <1>3, <1>4, <1>5, <1>6

-----------------------------------------------------------------------------
(* The pipe worker.                                                         *)

\* What it takes from the dispatcher.
Taken == events # <<>> /\ events' = Tail(events) /\ messages' \in {messages, Append(messages, Head(events))}

\* Nothing but the verification of the present connection is under way.
LEMMA AloneToVerify ==
  ASSUME AnswerInv, pipe = "up", Taken, Head(events).type = "verify", Windows!Accepts(Head(events).id)
  PROVE  LET e == Head(events)
             p == slot[e.id.slot]
         IN /\ p.stage = "authorize" /\ p.box = Windows!NoMail /\ e.user = p.user
            /\ e.id.slot \in Slots /\ e.id.generation = p.generation
            /\ \A x \in In(messages) : x.type \in Told /\ x.id.slot = e.id.slot => x.id.generation < p.generation
            /\ \A x \in In(events)' : x.id.slot # e.id.slot
<1>1. /\ Head(events) \in Events /\ Head(events) \in Transit
      /\ In(events)' \subseteq In(events)
      /\ \A x \in In(events)' : <<Head(events), x>> \in Later
      /\ \A x \in In(messages) : <<x, Head(events)>> \in Later
  BY Passes DEF AnswerInv, Taken
<1> DEFINE e == Head(events)
           k == e.id.slot
           p == slot[k]
<1>2. k \in Slots /\ e.id.generation \in Nat /\ e.type \in Told
  BY <1>1, EventIs
<1>3. p.generation \in Nat /\ e.id.generation = p.generation
  BY <1>2, SlotIs DEF AnswerInv, Windows!Accepts
<1>4. p.stage = "authorize" /\ p.box = Windows!NoMail /\ e.user = p.user
  <2>1. Awaited(e)
    BY <1>1, <1>2 DEF AnswerInv, PipeSound, AllAwaited
  <2> QED
    BY <1>3, <2>1 DEF Awaited
<1>5. ASSUME NEW x \in In(messages), x.type \in Told, x.id.slot = k PROVE x.id.generation < p.generation
  <2>1. Follows(x, e)
    <3>1. Follows(<<x, e>>[1], <<x, e>>[2])
      BY <1>1 DEF AnswerInv, Ordered
    <3> QED
      BY <3>1
  <2> QED
    BY <1>2, <1>3, <1>5, <2>1 DEF Follows
<1>6. ASSUME NEW x \in In(events)', x.id.slot = k PROVE FALSE
  <2>1. x \in In(events) /\ x \in Transit /\ x \in Events
    BY <1>1, <1>6, UnderWay DEF AnswerInv
  <2>2. x.type \in Told /\ x.id.generation \in Nat
    BY <2>1, EventIs
  <2>3. x.id.generation <= p.generation /\ (x.type = "closed" => x.id.generation < p.generation)
    BY <1>6, <2>1, <2>2, NotAhead
  <2>4. Follows(e, x)
    <3>1. Follows(<<e, x>>[1], <<e, x>>[2])
      BY <1>1 DEF AnswerInv, Ordered
    <3> QED
      BY <3>1
  <2> QED
    BY <1>2, <1>3, <1>6, <2>2, <2>3, <2>4 DEF Follows
<1> QED
  BY <1>2, <1>3, <1>4, <1>5, <1>6

LEMMA VerifyKeeps ==
  ASSUME AnswerInv, pipe = "up", Taken, messages' = messages, Head(events).type = "verify",
         NEW verified \in BOOLEAN,
         Windows!Submit(Head(events).id, [mail |-> "verdict", authorized |-> verified]),
         peers' = IF verified /\ Windows!Accepts(Head(events).id)
                  THEN [peers EXCEPT ![Head(events).id.slot] =
                          [generation |-> Head(events).id.generation, user |-> Head(events).user]]
                  ELSE peers,
         UNCHANGED <<connections, pipe, replies, admitted, failure, store, loop>>
  PROVE  AnswerInv'
<1>0. /\ events' \in Seq(Events) /\ messages' \in Seq(Messages) /\ Head(events) \in Events
      /\ In(events)' \subseteq In(events) /\ Transit' \subseteq Transit /\ Later' \subseteq Later
  BY Passes DEF AnswerInv, Taken
<1>e. PICK e \in Events : e = Head(events)
  BY <1>0
<1>k. PICK k \in Slots : k = e.id.slot
  BY EventIs
<1> DEFINE p == slot[k]
           c == connections[k]
<1>1. CASE ~Windows!Accepts(e.id)
  <2>1. Still
    <3>1. slot' = slot /\ peers' = peers
      BY <1>1, <1>e DEF Windows!Submit
    <3> QED
      BY <1>0, <3>1 DEF Still, Contents, AnswerInv, PipeTyped, In, Standing
  <2> QED
    BY <2>1, StillKeeps
<1>2. CASE Windows!Accepts(e.id)
  <2>1. /\ p.stage = "authorize" /\ p.box = Windows!NoMail /\ e.user = p.user
        /\ k \in Slots /\ e.id.generation = p.generation
        /\ \A x \in In(messages) : x.type \in Told /\ x.id.slot = k => x.id.generation < p.generation
        /\ \A x \in In(events)' : x.id.slot # k
    BY <1>2, <1>e, <1>k, AloneToVerify
  <2>2. p \in Windows!Slot /\ p.generation \in Nat /\ p.user \in Users \cup {Nobody} /\ c.generation \in Nat
    BY <2>1, SlotIs DEF AnswerInv
  <2>3. PICK n \in Windows!Slot : n = [p EXCEPT !.box = [mail |-> "verdict", authorized |-> verified]]
    BY <2>2 DEF Windows!Slot
  <2>4. /\ n.stage = "authorize" /\ n.generation = p.generation /\ n.request = p.request /\ n.user = p.user
        /\ n.box = [mail |-> "verdict", authorized |-> verified]
    BY <2>1, <2>2, <2>3 DEF Windows!Slot
  <2>5. slot' = [slot EXCEPT ![k] = n]
    BY <1>2, <1>e, <1>k, <2>3 DEF Windows!Submit, AnswerInv, PipeTyped
  <2>6. slot' \in [Slots -> Windows!Slot] /\ slot'[k] = n /\ \A j \in Slots : j # k => slot'[j] = slot[j]
    BY <2>1, <2>5 DEF AnswerInv, PipeTyped
  <2>7. /\ peers' \in [Slots -> [generation : Nat, user : Users \cup {Nobody}]]
        /\ \A j \in Slots : j # k => peers'[j] = peers[j]
        /\ verified => peers'[k] = [generation |-> p.generation, user |-> p.user]
    <3>1. peers' = IF verified THEN [peers EXCEPT ![k] = [generation |-> p.generation, user |-> p.user]] ELSE peers
      BY <1>2, <1>e, <1>k, <2>1
    <3>2. peers \in [Slots -> [generation : Nat, user : Users \cup {Nobody}]]
      BY DEF AnswerInv, PipeTyped
    <3>3. CASE verified
      <4>1. PICK w \in [generation : Nat, user : Users \cup {Nobody}] :
              w = [generation |-> p.generation, user |-> p.user]
        BY <2>2
      <4>2. peers' = [peers EXCEPT ![k] = w]
        BY <3>1, <3>3, <4>1
      <4>3. /\ peers' \in [Slots -> [generation : Nat, user : Users \cup {Nobody}]]
            /\ \A j \in Slots : j # k => peers'[j] = peers[j]
            /\ peers'[k] = w
        BY <3>2, <4>2
      <4> QED
        BY <4>1, <4>3
    <3>4. CASE ~verified
      BY <3>1, <3>2, <3>4
    <3> QED
      BY <3>3, <3>4
  <2>8. PipeTyped'
    BY <1>0, <2>6, <2>7 DEF AnswerInv, PipeTyped
  <2>9. Ordered' /\ InSequence'
    BY <1>0 DEF AnswerInv, Ordered, InSequence, Expected
  <2>10. SlotSound(k)
    BY <2>1 DEF AnswerInv, PipeSound
  <2>11. SlotSound(k)'
    <3>1. connections' = connections /\ slot'[k] = n
      BY <2>6
    <3>2. n.box.mail = "verdict" /\ n.box.authorized = verified
      BY <2>4
    <3>3. n.request = 0 /\ c.generation < n.generation /\ c.generation <= n.generation /\ c.generation # n.generation
      BY <2>1, <2>2, <2>4, <2>10 DEF SlotSound
    <3>4. n.box.authorized => peers'[k] = [generation |-> n.generation, user |-> n.user]
      BY <2>4, <2>7, <3>2
    <3>5. n.stage = "authorize" /\ n.user \in Users
      BY <2>1, <2>4, <2>10 DEF SlotSound
    <3> QED
      BY <3>1, <3>2, <3>3, <3>4, <3>5 DEF SlotSound
  <2>12. ASSUME NEW j \in Slots, j # k PROVE SlotSound(j)'
    <3>1. slot'[j] = slot[j] /\ connections' = connections /\ peers'[j] = peers[j] /\ SlotSound(j)
      BY <2>6, <2>7, <2>12 DEF AnswerInv, PipeSound
    <3> QED
      BY <3>1, SlotStays
  <2>13. AllAwaited'
    <3> SUFFICES ASSUME NEW x \in Transit', x.type \in Told PROVE Awaited(x)'
      BY DEF AllAwaited
    <3>1. x \in Transit /\ Awaited(x) /\ x.id.slot \in Slots
      BY <1>0, ToldIs, EventIs DEF AnswerInv, PipeSound, AllAwaited
    <3>2. CASE x.id.slot # k
      BY <2>6, <3>1, <3>2 DEF Awaited, Windows!NoMail
    <3>3. CASE x.id.slot = k
      <4>1. x \in In(messages)
        BY <2>1, <3>3 DEF Transit, In
      <4> QED
        BY <2>1, <2>4, <2>6, <3>3, <4>1 DEF Awaited
    <3> QED
      BY <3>2, <3>3
  <2>14. PeersReady'
    <3> SUFFICES ASSUME NEW x \in In(events)', x.type = "request"
                 PROVE  peers'[x.id.slot] = [generation |-> x.id.generation, user |-> x.user]
      BY DEF PeersReady
    <3>1. x \in In(events) /\ x \in Transit /\ x.id.slot # k
      BY <1>0, <2>1 DEF Transit
    <3>2. x.id.slot \in Slots
      BY <3>1, ToldIs, EventIs DEF AnswerInv, Told
    <3> QED
      BY <2>7, <3>1, <3>2 DEF AnswerInv, PipeSound, PeersReady
  <2>15. AllRipe'
    <3> SUFFICES ASSUME NEW r \in In(replies)' PROVE Ripe(r)'
      BY DEF AllRipe
    <3>1. r \in In(replies) /\ Ripe(r) /\ connections' = connections
      BY DEF In, AnswerInv, PipeSound, AllRipe
    <3>2. r.id.slot \in Slots
      BY <3>1, ReplyIs DEF AnswerInv
    <3> QED
      BY <2>4, <2>6, <3>1, <3>2 DEF Ripe
  <2>16. Quiet' /\ Queued' /\ Standing'
    BY DEF AnswerInv, Quiet, Queued, Known, In, Standing
  <2> QED
    BY <2>8, <2>9, <2>11, <2>12, <2>13, <2>14, <2>15, <2>16 DEF AnswerInv, PipeSound
<1> QED
  BY <1>1, <1>2

\* The close of an earlier connection leaves the peer of the present one alone.
LEMMA ClosedKeeps ==
  ASSUME AnswerInv, pipe = "up", Taken, Head(events).type = "closed",
         peers' = IF peers[Head(events).id.slot].generation = Head(events).id.generation
                  THEN [peers EXCEPT ![Head(events).id.slot] = [generation |-> 0, user |-> Nobody]] ELSE peers,
         UNCHANGED <<slot, connections, pipe, replies, admitted, failure, store, loop>>
  PROVE  AnswerInv'
<1>0. /\ events' \in Seq(Events) /\ messages' \in Seq(Messages) /\ Head(events) \in Events
      /\ In(events)' \subseteq In(events) /\ Transit' \subseteq Transit /\ Later' \subseteq Later
      /\ Head(events) \in Transit /\ \A x \in In(events)' : <<Head(events), x>> \in Later
  BY Passes DEF AnswerInv, Taken
<1>e. PICK e \in Events : e = Head(events)
  BY <1>0
<1>k. PICK k \in Slots : k = e.id.slot
  BY EventIs
<1> DEFINE p == slot[k]
<1>1. e.type = "closed" /\ e.type \in Told /\ e.id.generation \in Nat /\ e \in Transit
  BY <1>0, <1>e, EventIs
<1>2. e.id.generation < p.generation /\ p.generation \in Nat
  BY <1>1, <1>k, NotAhead, SlotIs DEF AnswerInv
<1>3. peers \in [Slots -> [generation : Nat, user : Users \cup {Nobody}]]
  BY DEF AnswerInv, PipeTyped
<1>4. /\ peers' \in [Slots -> [generation : Nat, user : Users \cup {Nobody}]]
      /\ \A j \in Slots : j # k => peers'[j] = peers[j]
      /\ peers[k].generation # e.id.generation => peers'[k] = peers[k]
  <2>1. peers' = IF peers[k].generation = e.id.generation
                 THEN [peers EXCEPT ![k] = [generation |-> 0, user |-> Nobody]] ELSE peers
    BY <1>e, <1>k
  <2>2. PICK w \in [generation : Nat, user : Users \cup {Nobody}] : w = [generation |-> 0, user |-> Nobody]
    OBVIOUS
  <2> QED
    BY <1>3, <2>1, <2>2
<1>5. PipeTyped'
  BY <1>0, <1>4 DEF AnswerInv, PipeTyped
<1>6. Ordered' /\ InSequence'
  BY <1>0 DEF AnswerInv, Ordered, InSequence, Expected
<1>7. ASSUME NEW j \in Slots PROVE SlotSound(j)'
  <2>1. SlotSound(j) /\ slot' = slot /\ connections' = connections
    BY DEF AnswerInv, PipeSound
  <2>2. peers[j] = [generation |-> slot[j].generation, user |-> slot[j].user] => peers'[j] = peers[j]
    BY <1>2, <1>4
  <2>3. Caught(j)' <=> Caught(j)
    BY <2>1 DEF Caught
  <2>4. Windows!Identity(j)' = Windows!Identity(j)
    BY <2>1 DEF Windows!Identity
  <2> QED
    BY <2>1, <2>2, <2>3, <2>4 DEF SlotSound, Windows!NoMail
<1>8. AllAwaited' /\ AllRipe'
  BY <1>0 DEF AnswerInv, PipeSound, AllAwaited, Awaited, AllRipe, Ripe, In, Windows!NoMail
<1>9. PeersReady'
  <2> SUFFICES ASSUME NEW x \in In(events)', x.type = "request"
               PROVE  peers'[x.id.slot] = [generation |-> x.id.generation, user |-> x.user]
    BY DEF PeersReady
  <2>1. /\ x \in In(events) /\ x \in Events /\ x.type \in Told
        /\ x.id.slot \in Slots /\ x.id.generation \in Nat
    BY <1>0, UnderWay, EventIs DEF AnswerInv
  <2>2. peers[x.id.slot] = [generation |-> x.id.generation, user |-> x.user]
    BY <2>1 DEF AnswerInv, PipeSound, PeersReady
  <2>3. CASE x.id.slot # k
    BY <1>4, <2>1, <2>2, <2>3
  <2>4. CASE x.id.slot = k
    <3>1. Follows(e, x)
      <4>1. Follows(<<e, x>>[1], <<e, x>>[2])
        BY <1>0, <1>e DEF AnswerInv, Ordered
      <4> QED
        BY <4>1
    <3>2. x.id.generation # e.id.generation
      BY <1>1, <1>k, <2>1, <2>4, <3>1 DEF Follows
    <3> QED
      BY <1>4, <2>2, <2>4, <3>2
  <2> QED
    BY <2>3, <2>4
<1>10. Quiet' /\ Queued' /\ Standing'
  BY DEF AnswerInv, Quiet, Queued, Known, In, Standing
<1> QED
  BY <1>5, <1>6, <1>7, <1>8, <1>9, <1>10 DEF AnswerInv, PipeSound

\* A request is passed on as it was told: its peer is verified.
LEMMA RequestedIs ==
  ASSUME AnswerInv, pipe = "up", events # <<>>, Head(events).type = "request"
  PROVE  LET e == Head(events) IN
         /\ peers[e.id.slot].generation = e.id.generation
         /\ [e EXCEPT !.user = peers[e.id.slot].user] = e
<1>1. events \in Seq(Events)
  BY DEF AnswerInv, PipeTyped
<1>2. Head(events) \in In(events) /\ Head(events) \in Events
  BY <1>1, TailIn
<1>e. PICK e \in Events : e = Head(events)
  BY <1>2
<1>3. peers[e.id.slot] = [generation |-> e.id.generation, user |-> e.user]
  BY <1>2, <1>e DEF AnswerInv, PipeSound, PeersReady
<1>4. [e EXCEPT !.user = e.user] = e
  BY DEF Events
<1> QED
  BY <1>e, <1>3, <1>4

LEMMA RequestedKeeps ==
  ASSUME AnswerInv, pipe = "up", Taken,
         UNCHANGED <<slot, peers, connections, pipe, replies, admitted, failure, store, loop>>
  PROVE  AnswerInv'
<1>0. /\ events' \in Seq(Events) /\ messages' \in Seq(Messages)
      /\ In(events)' \subseteq In(events) /\ Transit' \subseteq Transit /\ Later' \subseteq Later
  BY Passes DEF AnswerInv, Taken
<1>1. Still
  BY <1>0 DEF Still, Contents, AnswerInv, PipeTyped, In, Standing
<1> QED
  BY <1>1, StillKeeps

LEMMA DispatchedKeeps == AnswerInv /\ Windows!Dispatched => AnswerInv'
<1> SUFFICES ASSUME AnswerInv, Windows!Dispatched PROVE AnswerInv'
  OBVIOUS
<1>0. /\ pipe = "up" /\ events # <<>>
      /\ UNCHANGED <<connections, admitted, failure, store, loop>>
  BY DEF Windows!Dispatched, Windows!runtime
<1>1. CASE /\ Head(events).type = "verify"
           /\ \E verified \in BOOLEAN :
                /\ Windows!Submit(Head(events).id, [mail |-> "verdict", authorized |-> verified])
                /\ peers' = IF verified /\ Windows!Accepts(Head(events).id)
                            THEN [peers EXCEPT ![Head(events).id.slot] =
                                    [generation |-> Head(events).id.generation, user |-> Head(events).user]]
                            ELSE peers
           /\ events' = Tail(events)
           /\ UNCHANGED <<pipe, messages, replies>>
  <2>1. PICK verified \in BOOLEAN :
          /\ Windows!Submit(Head(events).id, [mail |-> "verdict", authorized |-> verified])
          /\ peers' = IF verified /\ Windows!Accepts(Head(events).id)
                      THEN [peers EXCEPT ![Head(events).id.slot] =
                              [generation |-> Head(events).id.generation, user |-> Head(events).user]]
                      ELSE peers
    BY <1>1
  <2>2. Taken /\ messages' = messages
    BY <1>0, <1>1 DEF Taken
  <2>3. UNCHANGED <<connections, pipe, replies, admitted, failure, store, loop>>
    BY <1>0, <1>1
  <2> QED
    BY <1>0, <1>1, <2>1, <2>2, <2>3, VerifyKeeps
<1>2. CASE /\ Head(events).type = "closed"
           /\ peers' = IF peers[Head(events).id.slot].generation = Head(events).id.generation
                       THEN [peers EXCEPT ![Head(events).id.slot] = [generation |-> 0, user |-> Nobody]] ELSE peers
           /\ messages' = Append(messages, Head(events))
           /\ events' = Tail(events)
           /\ UNCHANGED <<slot, pipe, replies>>
  <2>1. Taken
    BY <1>0, <1>2 DEF Taken
  <2>2. UNCHANGED <<slot, connections, pipe, replies, admitted, failure, store, loop>>
    BY <1>0, <1>2
  <2> QED
    BY <1>0, <1>2, <2>1, <2>2, ClosedKeeps
<1>3. CASE /\ Head(events).type = "request"
           /\ messages' = Append(messages, [Head(events) EXCEPT !.user = peers[Head(events).id.slot].user])
           /\ events' = Tail(events)
           /\ UNCHANGED <<slot, peers, pipe, replies>>
  <2>1. Taken
    BY <1>0, <1>3, RequestedIs DEF Taken
  <2> QED
    BY <1>0, <1>3, <2>1, RequestedKeeps
<1>4. CASE Head(events).type = "request" /\ peers[Head(events).id.slot].generation # Head(events).id.generation
  BY <1>0, <1>4, RequestedIs
<1> QED
  BY <1>1, <1>2, <1>3, <1>4 DEF Windows!Dispatched

\* An answer is taken by the request that waits for it alone.
LEMMA RespondKeeps == AnswerInv /\ Windows!Respond => AnswerInv'
<1> SUFFICES ASSUME AnswerInv, Windows!Respond PROVE AnswerInv'
  OBVIOUS
<1>0. /\ pipe = "up" /\ replies # <<>> /\ replies' = Tail(replies)
      /\ Windows!Submit(Head(replies).id, [mail |-> "answer", to |-> Head(replies).id, user |-> Head(replies).user])
      /\ UNCHANGED <<events, peers, connections, pipe, messages, admitted, failure, store, loop>>
  BY DEF Windows!Respond, Windows!worker, Windows!runtime
<1>1. /\ replies' \in Seq(Replies) /\ Head(replies) \in In(replies) /\ In(replies)' \subseteq In(replies)
  <2>1. replies \in Seq(Replies)
    BY DEF AnswerInv, PipeTyped
  <2>2. /\ Tail(replies) \in Seq(Replies) /\ Head(replies) \in In(replies) /\ In(Tail(replies)) \subseteq In(replies)
    BY <1>0, <2>1, TailIn
  <2>3. In(replies)' = In(Tail(replies))
    BY <1>0 DEF In
  <2> QED
    BY <1>0, <2>2, <2>3
<1>2. /\ In(events)' = In(events) /\ Transit' = Transit /\ Later' = Later
  BY <1>0 DEF In, Transit, Later, Then
<1>r. PICK r \in In(replies) : r = Head(replies)
  BY <1>1
<1>3. CASE ~Windows!Accepts(r.id)
  <2>1. slot' = slot
    BY <1>0, <1>r, <1>3 DEF Windows!Submit
  <2>2. Still
    BY <1>0, <1>1, <1>2, <2>1 DEF Still, Contents, AnswerInv, PipeTyped, In, Standing
  <2> QED
    BY <2>2, StillKeeps
<1>4. CASE Windows!Accepts(r.id)
  <2>k. PICK k \in Slots : k = r.id.slot
    BY ReplyIs DEF AnswerInv
  <2> DEFINE p == slot[k]
             c == connections[k]
  <2>1. /\ p \in Windows!Slot /\ p.generation \in Nat /\ p.request \in Nat /\ p.user \in Users \cup {Nobody}
        /\ c.generation \in Nat /\ c.sequence \in Nat
        /\ Windows!Identity(k) = [slot |-> k, generation |-> p.generation, request |-> p.request]
    BY SlotIs DEF AnswerInv
  <2>2. /\ r.id = Windows!Identity(k) /\ p.stage \in {"authorize", "response"} /\ p.box = Windows!NoMail
    BY <1>4, <2>k DEF Windows!Accepts
  <2>3. r.user = p.user /\ c.generation = p.generation /\ c.sequence = p.request /\ ~c.pending
    <3>1. Ripe(r)
      BY <1>0 DEF AnswerInv, PipeSound, AllRipe
    <3> QED
      BY <2>k, <2>1, <2>2, <3>1 DEF Ripe
  <2>4. SlotSound(k)
    BY <1>0 DEF AnswerInv, PipeSound
  <2>5. p.stage = "response"
    BY <2>1, <2>2, <2>3, <2>4 DEF SlotSound
  <2>6. PICK n \in Windows!Slot : n = [p EXCEPT !.box = [mail |-> "answer", to |-> Windows!Identity(k), user |-> p.user]]
    <3>1. Windows!Identity(k) \in Windows!Identities
      BY SlotIs DEF AnswerInv
    <3>2. r.user \in Users
      BY <2>3, <2>4, <2>5 DEF SlotSound
    <3> QED
      BY <2>1, <2>3, <3>1, <3>2 DEF Windows!Slot
  <2>7. /\ n.stage = "response" /\ n.generation = p.generation /\ n.request = p.request /\ n.user = p.user
        /\ n.box = [mail |-> "answer", to |-> Windows!Identity(k), user |-> p.user]
    BY <2>1, <2>5, <2>6 DEF Windows!Slot
  <2>8. slot' = [slot EXCEPT ![k] = n]
    BY <1>0, <1>4, <1>r, <2>k, <2>2, <2>3, <2>6 DEF Windows!Submit, AnswerInv, PipeTyped
  <2>9. slot' \in [Slots -> Windows!Slot] /\ slot'[k] = n /\ \A j \in Slots : j # k => slot'[j] = slot[j]
    BY <2>8 DEF AnswerInv, PipeTyped
  <2>10. PipeTyped'
    BY <1>0, <1>1, <2>9 DEF AnswerInv, PipeTyped
  <2>11. Ordered' /\ InSequence'
    BY <1>0, <1>2 DEF AnswerInv, Ordered, InSequence, Expected
  <2>12. SlotSound(k)'
    <3>1. Windows!Identity(k)' = Windows!Identity(k)
      BY <2>1, <2>7, <2>9 DEF Windows!Identity
    <3>2. connections' = connections /\ peers' = peers /\ slot'[k] = n
      BY <1>0, <2>9
    <3>3. Caught(k)'
      BY <2>3, <2>7, <3>2 DEF Caught
    <3>4. /\ c.generation <= n.generation /\ c.active /\ c.user = n.user /\ c.sequence <= n.request
          /\ peers[k] = [generation |-> n.generation, user |-> n.user] /\ n.request >= 1 /\ n.user \in Users
      BY <2>1, <2>3, <2>4, <2>5, <2>7 DEF SlotSound
    <3>5. n.stage = "response" /\ n.box = [mail |-> "answer", to |-> Windows!Identity(k)', user |-> n.user]
      BY <2>7, <3>1
    <3> QED
      BY <3>2, <3>3, <3>4, <3>5 DEF SlotSound
  <2>13. ASSUME NEW j \in Slots, j # k PROVE SlotSound(j)'
    <3>1. slot'[j] = slot[j] /\ connections' = connections /\ peers' = peers /\ SlotSound(j)
      BY <1>0, <2>9, <2>13 DEF AnswerInv, PipeSound
    <3> QED
      BY <3>1, SlotStays
  <2>14. AllAwaited'
    <3> SUFFICES ASSUME NEW x \in Transit', x.type \in Told PROVE Awaited(x)'
      BY DEF AllAwaited
    <3>1. x \in Transit /\ Awaited(x) /\ x.id.slot \in Slots
      BY <1>0, <1>2, ToldIs, EventIs DEF AnswerInv, PipeSound, AllAwaited
    <3>2. CASE x.id.slot # k
      BY <2>9, <3>1, <3>2 DEF Awaited, Windows!NoMail
    <3>3. CASE x.id.slot = k
      <4>1. CASE x.id.generation < p.generation
        BY <2>7, <2>9, <3>3, <4>1 DEF Awaited
      <4>2. CASE ~(x.id.generation < p.generation)
        <5>1. x.type = "request" /\ x.id.request = p.request /\ x.id.generation = p.generation
          BY <2>5, <3>1, <3>3, <4>2 DEF Awaited
        <5>2. Expected(x)
          BY <3>1, <5>1 DEF AnswerInv, InSequence
        <5> QED
          BY <2>1, <2>3, <3>3, <5>1, <5>2 DEF Expected
      <4> QED
        BY <4>1, <4>2
    <3> QED
      BY <3>2, <3>3
  <2>15. PeersReady'
    BY <1>0, <1>2 DEF AnswerInv, PipeSound, PeersReady
  <2>16. AllRipe'
    <3> SUFFICES ASSUME NEW x \in In(replies)' PROVE Ripe(x)'
      BY DEF AllRipe
    <3>1. x \in In(replies) /\ Ripe(x) /\ connections' = connections
      BY <1>0, <1>1 DEF AnswerInv, PipeSound, AllRipe
    <3>2. x.id.slot \in Slots
      BY <3>1, ReplyIs DEF AnswerInv
    <3> QED
      BY <2>7, <2>9, <3>1, <3>2 DEF Ripe
  <2>17. Quiet' /\ Queued' /\ Standing'
    BY <1>0 DEF AnswerInv, Quiet, Queued, Known, In, Standing
  <2> QED
    BY <1>0, <2>10, <2>11, <2>12, <2>13, <2>14, <2>15, <2>16, <2>17 DEF AnswerInv, PipeSound
<1> QED
  BY <1>3, <1>4

LEMMA FailsKeeps == AnswerInv /\ Windows!WorkerFails => AnswerInv'
<1> SUFFICES ASSUME AnswerInv, Windows!WorkerFails PROVE AnswerInv'
  OBVIOUS
<1>1. Gone
  BY DEF Windows!WorkerFails, Windows!Stopped, Windows!runtime, Gone, Exit, AnswerInv, Standing
<1> QED
  BY <1>1, GoneKeeps

LEMMA TerminateKeeps == AnswerInv /\ Windows!Terminate => AnswerInv'
<1> SUFFICES ASSUME AnswerInv, Windows!Terminate PROVE AnswerInv'
  OBVIOUS
<1>1. Gone
  BY DEF Windows!Terminate, Windows!Stopped, Gone, AnswerInv, Standing
<1> QED
  BY <1>1, GoneKeeps

-----------------------------------------------------------------------------
(* The runtime worker: requests.                                            *)

Connections ==
  [generation : Nat, sequence : Nat, active : BOOLEAN, pending : BOOLEAN, user : Users \cup {Nobody}]

\* The connection of slot k becomes c.
Serves(k, c) ==
  /\ connections' = [connections EXCEPT ![k] = c]
  /\ UNCHANGED <<slot, peers, pipe, events>>
  /\ Contents' /\ Transit' \subseteq Transit /\ Later' \subseteq Later
  /\ \A x \in Transit' : x.type = "request" /\ x.id.slot = k => Expected(x)'
  /\ pipe = "up" => SlotSound(k)' /\ \A r \in In(replies)' : (r \in In(replies) /\ r.id.slot # k) \/ Ripe(r)'
  /\ \A e \in In(admitted)' : e # Windows!Sleeping => (e \in In(admitted) /\ e.id.slot # k) \/ Known(e)'
  /\ Standing'

LEMMA ServesKeep ==
  ASSUME AnswerInv, NEW k \in Slots, NEW c \in Connections, Serves(k, c)
  PROVE  AnswerInv'
<1>1. /\ connections' \in [Slots -> Connections] /\ connections'[k] = c
      /\ \A j \in Slots : j # k => connections'[j] = connections[j]
  BY DEF AnswerInv, PipeTyped, Serves, Connections
<1>2. PipeTyped'
  BY <1>1 DEF AnswerInv, PipeTyped, Serves, Contents, Connections
<1>3. Ordered'
  BY DEF AnswerInv, Ordered, Serves
<1>4. InSequence'
  <2> SUFFICES ASSUME NEW x \in Transit', x.type = "request" PROVE Expected(x)'
    BY DEF InSequence
  <2>1. x \in Transit /\ Expected(x)
    BY DEF AnswerInv, InSequence, Serves
  <2>2. x.id.slot \in Slots
    BY <2>1, ToldIs, EventIs DEF AnswerInv, Told
  <2>3. CASE x.id.slot = k
    BY <2>3 DEF Serves
  <2>4. CASE x.id.slot # k
    BY <1>1, <2>1, <2>2, <2>4 DEF Expected
  <2> QED
    BY <2>3, <2>4
<1>5. ASSUME pipe = "up", NEW j \in Slots PROVE SlotSound(j)'
  <2>1. CASE j = k
    BY <1>5, <2>1 DEF Serves
  <2>2. CASE j # k
    <3>1. slot' = slot /\ connections'[j] = connections[j] /\ peers' = peers /\ SlotSound(j)
      BY <1>1, <1>5, <2>2 DEF AnswerInv, PipeSound, Serves
    <3> QED
      BY <3>1, SlotStays
  <2> QED
    BY <2>1, <2>2
<1>6. ASSUME pipe = "up" PROVE AllAwaited' /\ PeersReady'
  <2>1. AllAwaited /\ PeersReady /\ slot' = slot /\ peers' = peers /\ Transit' \subseteq Transit
    BY <1>6 DEF AnswerInv, Serves, PipeSound
  <2>2. In(events)' = In(events)
    BY DEF Serves, In
  <2>3. AllAwaited'
    BY <2>1 DEF AllAwaited, Awaited, Windows!NoMail
  <2>4. PeersReady'
    BY <2>1, <2>2 DEF PeersReady
  <2> QED
    BY <2>3, <2>4
<1>7. ASSUME pipe = "up" PROVE AllRipe'
  <2> SUFFICES ASSUME NEW r \in In(replies)' PROVE Ripe(r)'
    BY DEF AllRipe
  <2>1. CASE r \in In(replies) /\ r.id.slot # k
    <3>1. Ripe(r) /\ r.id.slot \in Slots /\ slot' = slot
      BY <1>7, <2>1, ReplyIs DEF AnswerInv, PipeSound, AllRipe, Serves
    <3> QED
      BY <1>1, <2>1, <3>1 DEF Ripe
  <2> QED
    BY <1>7, <2>1 DEF Serves
<1>8. Queued'
  <2> SUFFICES ASSUME NEW e \in In(admitted)', e # Windows!Sleeping PROVE Known(e)'
    BY DEF Queued, Windows!Sleeping
  <2>1. CASE e \in In(admitted) /\ e.id.slot # k
    <3>1. Known(e) /\ e.id.slot \in Slots
      BY <2>1, EntryIs DEF AnswerInv, Queued
    <3> QED
      BY <1>1, <2>1, <3>1 DEF Known
  <2> QED
    BY <2>1 DEF Serves
<1>9. Quiet'
  BY DEF AnswerInv, Quiet, Serves
<1> QED
  BY <1>2, <1>3, <1>4, <1>5, <1>6, <1>7, <1>8, <1>9 DEF AnswerInv, PipeSound, Serves

\* A request of slot k is over, perhaps with an answer.
Frees(k, c) ==
  /\ c.generation = connections[k].generation /\ c.sequence = connections[k].sequence
  /\ c.active = connections[k].active /\ c.user = connections[k].user
  /\ c.pending => connections[k].pending
  /\ connections' = [connections EXCEPT ![k] = c]
  /\ UNCHANGED <<slot, peers, pipe, events, messages, failure, store, loop>>
  /\ replies' \in Seq(Replies) /\ admitted' \in Seq(Entries \cup {Windows!Sleeping})
  /\ pipe = "up" => \A r \in In(replies)' : r \in In(replies) \/ Ripe(r)'
  /\ \A e \in In(admitted)' : e # Windows!Sleeping => Known(e)
  /\ store

LEMMA FreesKeep ==
  ASSUME AnswerInv, NEW k \in Slots, NEW c \in Connections, Frees(k, c)
  PROVE  AnswerInv'
<1>1. /\ connections'[k] = c
      /\ \A j \in Slots : j # k => connections'[j] = connections[j]
  BY DEF AnswerInv, PipeTyped, Frees
<1>2. Transit' = Transit /\ Later' = Later
  BY DEF Frees, Transit, Later, In, Then
<1>3. ASSUME NEW x \in Transit, x.type = "request", x.id.slot = k PROVE Expected(x)'
  <2>1. Expected(x)
    BY <1>3 DEF AnswerInv, InSequence
  <2> QED
    BY <1>1, <1>3, <2>1 DEF Expected, Frees
<1>4. ASSUME pipe = "up" PROVE SlotSound(k)'
  <2>1. SlotSound(k) /\ slot' = slot /\ peers' = peers
    BY <1>4 DEF AnswerInv, PipeSound, Frees
  <2>2. Caught(k) => Caught(k)'
    BY <1>1, <2>1 DEF Caught, Frees
  <2>3. Windows!Identity(k)' = Windows!Identity(k)
    BY <2>1 DEF Windows!Identity
  <2>4. /\ connections'[k].generation = connections[k].generation
        /\ connections'[k].sequence = connections[k].sequence
        /\ connections'[k].user = connections[k].user
        /\ connections'[k].active = connections[k].active
    BY <1>1 DEF Frees
  <2> QED
    BY <2>1, <2>2, <2>3, <2>4 DEF SlotSound, Windows!NoMail
<1>5. ASSUME pipe = "up", NEW r \in In(replies)' PROVE Ripe(r)' \/ (r \in In(replies) /\ r.id.slot # k)
  <2>1. CASE r \in In(replies) /\ r.id.slot = k
    <3>1. Ripe(r) /\ slot' = slot
      BY <1>5, <2>1 DEF AnswerInv, PipeSound, AllRipe, Frees
    <3> QED
      BY <1>1, <2>1, <3>1 DEF Ripe, Frees
  <2> QED
    BY <1>5, <2>1 DEF Frees
<1>6. ASSUME NEW e \in In(admitted)', e # Windows!Sleeping PROVE Known(e)' \/ (e \in In(admitted) /\ e.id.slot # k)
  <2>1. Known(e)
    BY <1>6 DEF Frees
  <2>2. e \in Entries
    BY <1>6 DEF Frees, In
  <2>3. e.id.slot \in Slots
    BY <2>2 DEF Entries, Windows!Identities
  <2>4. CASE e.id.slot = k
    BY <1>1, <2>1, <2>4 DEF Known, Frees
  <2>5. CASE e.id.slot # k
    BY <1>1, <2>1, <2>3, <2>5 DEF Known, Frees
  <2> QED
    BY <2>4, <2>5
<1>7. Standing' /\ Contents'
  BY DEF AnswerInv, PipeTyped, Standing, Frees, Contents
<1>8. UNCHANGED <<slot, peers, pipe, events>> /\ connections' = [connections EXCEPT ![k] = c]
  BY DEF Frees
<1>9. Serves(k, c)
  BY <1>2, <1>3, <1>4, <1>5, <1>6, <1>7, <1>8 DEF Serves
<1> QED
  BY <1>9, ServesKeep

\* The connection when request i is over.
LEMMA ReleasedIs ==
  ASSUME AnswerInv, NEW i \in DOMAIN admitted, admitted[i] # Windows!Sleeping, Windows!Released(i)
  PROVE  \E k \in Slots, c \in Connections :
           /\ k = admitted[i].id.slot
           /\ c.generation = connections[k].generation /\ c.sequence = connections[k].sequence
           /\ c.active = connections[k].active /\ c.user = connections[k].user
           /\ c.pending => connections[k].pending
           /\ connections[k].generation = admitted[i].id.generation => ~c.pending
           /\ connections' = [connections EXCEPT ![k] = c]
           /\ admitted' \in Seq(Entries \cup {Windows!Sleeping})
           /\ In(admitted)' \subseteq In(admitted)
<1> DEFINE id == admitted[i].id
<1>1. admitted[i] \in In(admitted)
  BY DEF In
<1>2. PICK k \in Slots : k = id.slot
  BY <1>1, EntryIs DEF AnswerInv
<1>3. admitted' \in Seq(Entries \cup {Windows!Sleeping}) /\ In(admitted)' \subseteq In(admitted)
  <2>1. admitted \in Seq(Entries \cup {Windows!Sleeping}) /\ admitted' = RemoveAt(admitted, i)
    <3>1. admitted \in Seq(Entries \cup {Windows!Sleeping})
      BY DEF AnswerInv, PipeTyped
    <3>2. admitted' = RemoveAt(admitted, i)
      BY DEF Windows!Released, Windows!RemoveAt, RemoveAt
    <3> QED
      BY <3>1, <3>2
  <2>2. RemoveAt(admitted, i) \in Seq(Entries \cup {Windows!Sleeping}) /\ In(RemoveAt(admitted, i)) \subseteq In(admitted)
    BY <2>1, RemoveIn
  <2>3. In(admitted)' = In(RemoveAt(admitted, i))
    BY <2>1 DEF In
  <2> QED
    BY <2>1, <2>2, <2>3
<1>4. connections \in [Slots -> Connections] /\ connections[k] \in Connections
  BY DEF AnswerInv, PipeTyped, Connections
<1>5. CASE connections[k].generation = id.generation
  <2>1. PICK c \in Connections : c = [connections[k] EXCEPT !.pending = FALSE]
    BY <1>4 DEF Connections
  <2>2. /\ c.generation = connections[k].generation /\ c.sequence = connections[k].sequence
        /\ c.active = connections[k].active /\ c.user = connections[k].user /\ ~c.pending
    BY <1>4, <2>1 DEF Connections
  <2>3. connections' = [connections EXCEPT ![k] = c]
    BY <1>2, <1>4, <1>5, <2>1 DEF Windows!Released
  <2> QED
    BY <1>2, <1>3, <2>2, <2>3
<1>6. CASE connections[k].generation # id.generation
  <2>1. connections' = connections
    BY <1>2, <1>6 DEF Windows!Released
  <2>2. connections' = [connections EXCEPT ![k] = connections[k]]
    BY <1>4, <2>1
  <2> QED
    BY <1>2, <1>3, <1>4, <1>6, <2>2
<1> QED
  BY <1>5, <1>6

LEMMA StoreOpen ==
  ASSUME AnswerInv, NEW i \in DOMAIN admitted
  PROVE  store
  BY DEF AnswerInv, Standing

LEMMA StartKeeps ==
  ASSUME AnswerInv, NEW i \in DOMAIN admitted, Windows!Start(i)
  PROVE  AnswerInv'
<1>0. /\ admitted[i] # Windows!Sleeping
      /\ UNCHANGED <<slot, peers, pipe, events, messages, replies, failure, store, loop>>
  BY DEF Windows!Start, Windows!Asked, Windows!dispatcher, Windows!worker
<1>1. admitted[i] \in In(admitted) /\ admitted \in Seq(Entries \cup {Windows!Sleeping})
  BY DEF In, AnswerInv, PipeTyped
<1>2. replies' \in Seq(Replies) /\ In(replies)' = In(replies) /\ store
  BY <1>0, StoreOpen DEF AnswerInv, PipeTyped, In
<1>3. CASE Windows!Active(admitted[i].id)
  <2>k. PICK k \in Slots : k = admitted[i].id.slot
    BY <1>0, <1>1, EntryIs DEF AnswerInv
  <2>c. PICK c \in Connections : c = connections[k]
    BY DEF AnswerInv, PipeTyped, Connections
  <2>1. admitted' = [admitted EXCEPT ![i].running = TRUE] /\ connections' = connections
    BY <1>3 DEF Windows!Start
  <2>2. connections' = [connections EXCEPT ![k] = c]
    BY <2>1, <2>c DEF AnswerInv, PipeTyped
  <2>3. PICK e \in Entries : e = [admitted[i] EXCEPT !.running = TRUE] /\ e.id = admitted[i].id /\ e.user = admitted[i].user
    <3>1. admitted[i] \in Entries
      BY <1>0, <1>1, EntryIs DEF AnswerInv
    <3> DEFINE f == [admitted[i] EXCEPT !.running = TRUE]
    <3>2. f.id = admitted[i].id /\ f.user = admitted[i].user
      BY <3>1 DEF Entries
    <3>3. f \in Entries
      BY <3>1 DEF Entries
    <3> QED
      BY <3>2, <3>3
  <2>4. admitted' = [admitted EXCEPT ![i] = e]
    BY <2>1, <2>3
  <2>5. admitted' \in Seq(Entries \cup {Windows!Sleeping}) /\ In(admitted)' \subseteq In(admitted) \cup {e}
    <3>1. /\ DOMAIN admitted' = DOMAIN admitted
          /\ \A j \in DOMAIN admitted : admitted'[j] = e \/ admitted'[j] = admitted[j]
      BY <1>1, <2>4
    <3>2. admitted' \in Seq(Entries \cup {Windows!Sleeping})
      BY <1>1, <2>4
    <3>3. In(admitted)' = {admitted'[j] : j \in DOMAIN admitted}
      BY <3>1 DEF In
    <3> QED
      BY <3>1, <3>2, <3>3 DEF In
  <2>6. ASSUME NEW x \in In(admitted)', x # Windows!Sleeping PROVE Known(x)
    <3>1. Known(admitted[i])
      BY <1>0, <1>1 DEF AnswerInv, Queued
    <3>2. Known(e)
      BY <2>3, <3>1 DEF Known
    <3>3. CASE x \in In(admitted)
      BY <2>6, <3>3 DEF AnswerInv, Queued
    <3> QED
      BY <2>5, <3>2, <3>3
  <2>7. Frees(k, c)
    BY <1>0, <1>2, <2>c, <2>2, <2>5, <2>6 DEF Frees
  <2> QED
    BY <2>7, FreesKeep
<1>4. CASE ~Windows!Active(admitted[i].id)
  <2>1. Windows!Released(i)
    BY <1>4 DEF Windows!Start
  <2>2. PICK k \in Slots, c \in Connections :
          /\ k = admitted[i].id.slot
          /\ c.generation = connections[k].generation /\ c.sequence = connections[k].sequence
          /\ c.active = connections[k].active /\ c.user = connections[k].user
          /\ c.pending => connections[k].pending
          /\ connections' = [connections EXCEPT ![k] = c]
          /\ admitted' \in Seq(Entries \cup {Windows!Sleeping})
          /\ In(admitted)' \subseteq In(admitted)
    BY <1>0, <2>1, ReleasedIs
  <2>3. \A x \in In(admitted)' : x # Windows!Sleeping => Known(x)
    BY <2>2 DEF AnswerInv, Queued
  <2>4. Frees(k, c)
    BY <1>0, <1>2, <2>2, <2>3 DEF Frees
  <2> QED
    BY <2>4, FreesKeep
<1> QED
  BY <1>3, <1>4

\* An answer is for the latest request of the connection, whose user asked.
LEMMA CompleteKeeps ==
  ASSUME AnswerInv, NEW i \in DOMAIN admitted, Windows!Complete(i)
  PROVE  AnswerInv'
<1> DEFINE e == admitted[i]
<1>0. /\ e # Windows!Sleeping /\ Windows!Released(i) /\ Windows!Reply(e)
      /\ UNCHANGED <<slot, peers, pipe, events, messages, failure, store, loop>>
  BY DEF Windows!Complete, Windows!Asked, Windows!dispatcher, Windows!worker
<1>1. e \in In(admitted) /\ store
  BY StoreOpen DEF In
<1>2. e.id \in Windows!Identities /\ e.user \in Users \cup {Nobody} /\ e.id.generation \in Nat /\ e.id.request \in Nat
  BY <1>0, <1>1, EntryIs DEF AnswerInv
<1>3. PICK k \in Slots, c \in Connections :
        /\ k = e.id.slot
        /\ c.generation = connections[k].generation /\ c.sequence = connections[k].sequence
        /\ c.active = connections[k].active /\ c.user = connections[k].user
        /\ c.pending => connections[k].pending
        /\ connections[k].generation = e.id.generation => ~c.pending
        /\ connections' = [connections EXCEPT ![k] = c]
        /\ admitted' \in Seq(Entries \cup {Windows!Sleeping})
        /\ In(admitted)' \subseteq In(admitted)
  BY <1>0, ReleasedIs
<1>4. \A x \in In(admitted)' : x # Windows!Sleeping => Known(x)
  BY <1>3 DEF AnswerInv, Queued
<1>5. connections'[k] = c
  BY <1>3 DEF AnswerInv, PipeTyped
<1>6. PICK r \in Replies : r = [id |-> e.id, user |-> e.user]
  BY <1>2 DEF Replies
<1>7. CASE Windows!Active(e.id)
  <2>1. connections[k].generation = e.id.generation /\ connections[k].sequence = e.id.request
    BY <1>3, <1>7 DEF Windows!Active
  <2>2. e.user = connections[k].user
    <3>1. Known(e)
      BY <1>0, <1>1 DEF AnswerInv, Queued
    <3> QED
      BY <1>2, <1>3, <2>1, <3>1 DEF Known
  <2>3. replies' \in Seq(Replies) /\ In(replies)' = In(replies) \cup {r}
    <3>1. replies \in Seq(Replies) /\ replies' = Append(replies, r)
      BY <1>0, <1>6, <1>7 DEF AnswerInv, PipeTyped, Windows!Reply
    <3>2. Append(replies, r) \in Seq(Replies) /\ In(Append(replies, r)) = In(replies) \cup {r}
      BY <3>1, AppendIn
    <3>3. In(replies)' = In(Append(replies, r))
      BY <3>1 DEF In
    <3> QED
      BY <3>1, <3>2, <3>3
  <2>4. ASSUME pipe = "up" PROVE Ripe(r)'
    <3>1. SlotSound(k)
      BY <2>4 DEF AnswerInv, PipeSound
    <3>2. slot[k].generation \in Nat /\ slot[k].request \in Nat
      BY SlotIs DEF AnswerInv
    <3>3. /\ e.id.generation <= slot[k].generation
          /\ e.id.generation = slot[k].generation => e.user = slot[k].user /\ e.id.request <= slot[k].request
      BY <2>1, <2>2, <3>1 DEF SlotSound
    <3>4. slot' = slot /\ r.id = e.id /\ r.user = e.user
      BY <1>0, <1>6
    <3> QED
      BY <1>2, <1>3, <1>5, <2>1, <3>2, <3>3, <3>4 DEF Ripe
  <2>5. Frees(k, c)
    BY <1>0, <1>1, <1>3, <1>4, <2>3, <2>4 DEF Frees
  <2> QED
    BY <2>5, FreesKeep
<1>8. CASE ~Windows!Active(e.id)
  <2>1. replies' \in Seq(Replies) /\ In(replies)' = In(replies)
    BY <1>0, <1>8 DEF AnswerInv, PipeTyped, Windows!Reply, In
  <2>2. Frees(k, c)
    BY <1>0, <1>1, <1>3, <1>4, <2>1 DEF Frees
  <2> QED
    BY <2>2, FreesKeep
<1> QED
  BY <1>7, <1>8

\* What the runtime worker takes from its port.
LEMMA ReceiveIs ==
  ASSUME AnswerInv, Windows!Receive
  PROVE  /\ messages # <<>> /\ messages' = Tail(messages)
         /\ UNCHANGED <<slot, events, peers, pipe, loop, store>>
         /\ Head(messages) \in Messages /\ Head(messages) \in Transit
         /\ Transit' \subseteq Transit /\ Later' \subseteq Later /\ In(events)' = In(events)
         /\ events' \in Seq(Events) /\ messages' \in Seq(Messages)
         /\ \A x \in Transit' : <<Head(messages), x>> \in Later
<1>1. messages # <<>> /\ messages' = Tail(messages) /\ UNCHANGED <<slot, events, peers, pipe, loop, store>>
  BY DEF Windows!Receive, Windows!dispatcher, Windows!worker
<1> QED
  BY <1>1, Receives DEF AnswerInv

\* A message that leaves the connections alone.
LEMMA HeardKeeps ==
  ASSUME AnswerInv, Windows!Receive, UNCHANGED <<connections, admitted, replies>>,
         failure' \notin {"sequence", "peer"}
  PROVE  AnswerInv'
<1>1. Still
  BY ReceiveIs DEF Still, Contents, AnswerInv, PipeTyped, In, Standing
<1> QED
  BY <1>1, StillKeeps

\* What follows a message of the slot in what is under way.
LEMMA FollowsHead ==
  ASSUME AnswerInv, Windows!Receive, NEW x \in Transit'
  PROVE  Follows(Head(messages), x)
<1>1. Follows(<<Head(messages), x>>[1], <<Head(messages), x>>[2])
  BY ReceiveIs DEF AnswerInv, Ordered
<1> QED
  BY <1>1

LEMMA HangUpKeeps ==
  ASSUME AnswerInv, Windows!Receive, Head(messages).type = "closed",
         connections' = IF connections[Head(messages).id.slot].generation = Head(messages).id.generation
                        THEN [connections EXCEPT ![Head(messages).id.slot].active = FALSE] ELSE connections,
         UNCHANGED <<admitted, failure, replies>>
  PROVE  AnswerInv'
<1>0. /\ messages # <<>> /\ messages' = Tail(messages)
      /\ UNCHANGED <<slot, events, peers, pipe, loop, store>>
      /\ Head(messages) \in Messages /\ Head(messages) \in Transit
      /\ Transit' \subseteq Transit /\ Later' \subseteq Later /\ In(events)' = In(events)
      /\ events' \in Seq(Events) /\ messages' \in Seq(Messages)
  BY ReceiveIs
<1>m. PICK m \in Events : m = Head(messages) /\ m \in Transit /\ m.type = "closed"
  BY <1>0, ToldIs DEF AnswerInv, Told
<1>k. PICK k \in Slots : k = m.id.slot
  BY EventIs
<1>1. connections \in [Slots -> Connections] /\ connections[k] \in Connections
  BY DEF AnswerInv, PipeTyped, Connections
<1>2. CASE connections[k].generation # m.id.generation
  <2>1. connections' = connections
    BY <1>m, <1>k, <1>2
  <2> QED
    BY <2>1, HeardKeeps DEF AnswerInv, Standing
<1>3. CASE connections[k].generation = m.id.generation
  <2>1. PICK c \in Connections : c = [connections[k] EXCEPT !.active = FALSE]
    BY <1>1 DEF Connections
  <2>2. /\ c.generation = connections[k].generation /\ c.sequence = connections[k].sequence
        /\ c.pending = connections[k].pending /\ c.user = connections[k].user
        /\ connections[k].generation \in Nat /\ m.id.generation \in Nat
    BY <1>1, <2>1, EventIs DEF Connections
  <2>3. connections' = [connections EXCEPT ![k] = c] /\ connections'[k] = c
    BY <1>m, <1>k, <1>1, <1>3, <2>1
  <2>4. ASSUME NEW x \in Transit', x.type = "request", x.id.slot = k PROVE Expected(x)'
    <3>1. x \in Transit /\ x \in Events /\ x.type \in Told /\ x.id.generation \in Nat /\ Expected(x)
      BY <1>0, <2>4, ToldIs, EventIs DEF AnswerInv, InSequence, Told
    <3>2. Follows(m, x) /\ m.type \in Told
      BY <1>m, FollowsHead, EventIs
    <3>3. m.id.generation < x.id.generation
      BY <1>k, <2>4, <3>1, <3>2 DEF Follows
    <3>4. x.id.generation > c.generation /\ x.id.request = 1
      BY <1>3, <2>2, <2>4, <3>1, <3>3 DEF Expected
    <3> QED
      BY <2>3, <2>4, <3>4 DEF Expected
  <2>5. ASSUME pipe = "up" PROVE SlotSound(k)' /\ \A r \in In(replies)' : (r \in In(replies) /\ r.id.slot # k) \/ Ripe(r)'
    <3>1. SlotSound(k) /\ AllRipe /\ slot' = slot /\ peers' = peers
      BY <1>0, <2>5 DEF AnswerInv, PipeSound
    <3>2. c.generation < slot[k].generation /\ slot[k].generation \in Nat
      BY <1>3, <1>m, <1>k, <2>2, <2>5, NotAhead, SlotIs, EventIs DEF AnswerInv
    <3>3. Caught(k) => Caught(k)'
      BY <2>2, <2>3, <3>1 DEF Caught
    <3>4. Windows!Identity(k)' = Windows!Identity(k)
      BY <3>1 DEF Windows!Identity
    <3>5. c.generation <= slot[k].generation /\ c.generation # slot[k].generation
      BY <2>2, <3>2
    <3>6. SlotSound(k)'
      BY <2>3, <3>1, <3>2, <3>3, <3>4, <3>5 DEF SlotSound, Windows!NoMail
    <3>7. ASSUME NEW r \in In(replies)' PROVE (r \in In(replies) /\ r.id.slot # k) \/ Ripe(r)'
      <4>1. r \in In(replies) /\ Ripe(r)
        BY <3>1 DEF In, AllRipe
      <4> QED
        BY <2>2, <2>3, <3>1, <4>1 DEF Ripe
    <3> QED
      BY <3>6, <3>7
  <2>6. ASSUME NEW e \in In(admitted)', e # Windows!Sleeping
        PROVE  (e \in In(admitted) /\ e.id.slot # k) \/ Known(e)'
    <3>1. e \in In(admitted) /\ Known(e)
      BY <2>6 DEF In, AnswerInv, Queued
    <3> QED
      BY <2>2, <2>3, <3>1 DEF Known
  <2>7. Contents' /\ Standing'
    BY <1>0 DEF AnswerInv, PipeTyped, Contents, Standing
  <2>8. Serves(k, c)
    BY <1>0, <2>3, <2>4, <2>5, <2>6, <2>7 DEF Serves
  <2> QED
    BY <2>8, ServesKeep
<1> QED
  BY <1>2, <1>3

\* No request looks out of sequence.
LEMMA NeverOutOfSequence ==
  ASSUME AnswerInv, NEW m \in Transit, m.type = "request"
  PROVE  ~Windows!OutOfSequence(m)
<1>1. Expected(m) /\ m \in Events
  BY ToldIs DEF AnswerInv, InSequence, Told
<1>2. m.id.slot \in Slots /\ m.id.generation \in Nat /\ m.id.request \in Nat
  BY <1>1, EventIs
<1>3. connections[m.id.slot].generation \in Nat /\ connections[m.id.slot].sequence \in Nat
  BY <1>2, SlotIs DEF AnswerInv
<1> QED
  BY <1>1, <1>2, <1>3 DEF Expected, Windows!OutOfSequence

LEMMA AdmitIs ==
  ASSUME AnswerInv, NEW m \in Events, Windows!Admit(m)
  PROVE  \E full \in BOOLEAN, c \in Connections, e \in Entries, r \in Replies :
           /\ c = [generation |-> m.id.generation, sequence |-> m.id.request, active |-> TRUE,
                   pending |-> ~full, user |-> m.user]
           /\ e = [id |-> m.id, user |-> m.user, running |-> FALSE]
           /\ r = [id |-> m.id, user |-> m.user]
           /\ connections' = [connections EXCEPT ![m.id.slot] = c]
           /\ admitted' = IF full THEN admitted ELSE Append(admitted, e)
           /\ replies' = IF full THEN Append(replies, r) ELSE replies
<1>1. m.id \in Windows!Identities /\ m.user \in Users \cup {Nobody} /\ m.id.generation \in Nat /\ m.id.request \in Nat
  BY DEF Events, Windows!Identities
<1> DEFINE full == Len(SelectSeq(admitted, LAMBDA entry : entry # Windows!Sleeping)) >= Limit
           e == [id |-> m.id, user |-> m.user, running |-> FALSE]
           r == [id |-> m.id, user |-> m.user]
           c == [generation |-> m.id.generation, sequence |-> m.id.request, active |-> TRUE,
                 pending |-> ~full, user |-> m.user]
<1>2. /\ connections' = [connections EXCEPT ![m.id.slot] = c]
      /\ admitted' = IF full THEN admitted ELSE Append(admitted, e)
      /\ replies' = IF full THEN Append(replies, r) ELSE replies
  BY DEF Windows!Admit
<1>3. full \in BOOLEAN
  OBVIOUS
<1> HIDE DEF full
<1>4. c \in Connections /\ e \in Entries /\ r \in Replies
  BY <1>1 DEF Connections, Entries, Replies
<1> QED
  BY <1>2, <1>3, <1>4

\* A request that is admitted, or is answered at once because the queue is full.
LEMMA AdmitKeeps ==
  ASSUME AnswerInv, Windows!Receive, Head(messages).type = "request", Windows!Admit(Head(messages)),
         UNCHANGED failure
  PROVE  AnswerInv'
<1>0. /\ messages # <<>> /\ messages' = Tail(messages)
      /\ UNCHANGED <<slot, events, peers, pipe, loop, store>>
      /\ Head(messages) \in Messages /\ Head(messages) \in Transit
      /\ Transit' \subseteq Transit /\ Later' \subseteq Later /\ In(events)' = In(events)
      /\ events' \in Seq(Events) /\ messages' \in Seq(Messages)
  BY ReceiveIs
<1>m. PICK m \in Events : m = Head(messages) /\ m \in Transit /\ m.type = "request"
  BY <1>0, ToldIs DEF AnswerInv, Told
<1>k. PICK k \in Slots : k = m.id.slot
  BY EventIs
<1>1. PICK full \in BOOLEAN, c \in Connections, e \in Entries, r \in Replies :
        /\ c = [generation |-> m.id.generation, sequence |-> m.id.request, active |-> TRUE,
                pending |-> ~full, user |-> m.user]
        /\ e = [id |-> m.id, user |-> m.user, running |-> FALSE]
        /\ r = [id |-> m.id, user |-> m.user]
        /\ connections' = [connections EXCEPT ![m.id.slot] = c]
        /\ admitted' = IF full THEN admitted ELSE Append(admitted, e)
        /\ replies' = IF full THEN Append(replies, r) ELSE replies
  BY <1>m, AdmitIs
<1> DEFINE o == connections[k]
           p == slot[k]
<1>2. /\ c.generation = m.id.generation /\ c.sequence = m.id.request /\ c.active /\ c.user = m.user
      /\ c.pending <=> ~full
  BY <1>1
<1>3. /\ m.id.generation \in Nat /\ m.id.request \in Nat /\ m.type \in Told
      /\ o.generation \in Nat /\ o.sequence \in Nat /\ p.generation \in Nat /\ p.request \in Nat
  BY EventIs, SlotIs DEF AnswerInv
<1>4. connections' = [connections EXCEPT ![k] = c] /\ connections'[k] = c
  BY <1>k, <1>1 DEF AnswerInv, PipeTyped
<1>5. \/ m.id.generation > o.generation /\ m.id.request = 1
      \/ m.id.generation = o.generation /\ m.id.request = o.sequence + 1
  <2>1. Expected(m)
    BY <1>m DEF AnswerInv, InSequence
  <2> QED
    BY <1>k, <2>1 DEF Expected
<1>6. r.id = m.id /\ r.user = m.user /\ e.id = m.id /\ e.user = m.user
  BY <1>1
<1>7. ASSUME NEW x \in Transit', x.type = "request", x.id.slot = k PROVE Expected(x)'
  <2>1. x \in Transit /\ x \in Events /\ x.type \in Told /\ x.id.generation \in Nat /\ Expected(x)
    BY <1>0, <1>7, ToldIs, EventIs DEF AnswerInv, InSequence, Told
  <2>2. Follows(m, x)
    BY <1>m, FollowsHead
  <2>3. m.id.generation < x.id.generation
    BY <1>k, <1>3, <1>7, <2>1, <2>2 DEF Follows
  <2>4. x.id.request = 1
    BY <1>3, <1>5, <1>7, <2>1, <2>3 DEF Expected
  <2> QED
    BY <1>2, <1>4, <1>7, <2>3, <2>4 DEF Expected
<1>8. In(replies)' \subseteq In(replies) \cup {r} /\ replies' \in Seq(Replies) /\ (~full => In(replies)' \subseteq In(replies))
  <2>1. replies \in Seq(Replies)
    BY DEF AnswerInv, PipeTyped
  <2>2. CASE full
    <3>1. replies' = Append(replies, r)
      BY <1>1, <2>2
    <3>2. Append(replies, r) \in Seq(Replies) /\ In(Append(replies, r)) = In(replies) \cup {r}
      BY <2>1, AppendIn
    <3>3. In(replies)' = In(Append(replies, r))
      BY <3>1 DEF In
    <3> QED
      BY <2>2, <3>1, <3>2, <3>3
  <2>3. CASE ~full
    BY <1>1, <2>1, <2>3 DEF In
  <2> QED
    BY <2>2, <2>3
<1>9. In(admitted)' \subseteq In(admitted) \cup {e} /\ admitted' \in Seq(Entries \cup {Windows!Sleeping})
  <2>1. admitted \in Seq(Entries \cup {Windows!Sleeping})
    BY DEF AnswerInv, PipeTyped
  <2>2. CASE ~full
    <3>1. admitted' = Append(admitted, e)
      BY <1>1, <2>2
    <3>2. /\ Append(admitted, e) \in Seq(Entries \cup {Windows!Sleeping})
          /\ In(Append(admitted, e)) = In(admitted) \cup {e}
      BY <2>1, AppendIn
    <3>3. In(admitted)' = In(Append(admitted, e))
      BY <3>1 DEF In
    <3> QED
      BY <3>1, <3>2, <3>3
  <2>3. CASE full
    BY <1>1, <2>1, <2>3 DEF In
  <2> QED
    BY <2>2, <2>3
<1>10. ASSUME pipe = "up"
       PROVE  SlotSound(k)' /\ \A x \in In(replies)' : (x \in In(replies) /\ x.id.slot # k) \/ Ripe(x)'
  <2>1. SlotSound(k) /\ AllRipe /\ slot' = slot /\ peers' = peers /\ Awaited(m) /\ Windows!Identity(k)' = Windows!Identity(k)
    BY <1>0, <1>10, <1>m, <1>3 DEF AnswerInv, PipeSound, AllAwaited, Windows!Identity
  <2>2. \/ m.id.generation < p.generation
        \/ /\ m.id.generation = p.generation /\ m.id.request = p.request /\ m.user = p.user
           /\ p.box = Windows!NoMail /\ p.stage = "response"
    BY <1>m, <1>k, <2>1 DEF Awaited
  <2>3. SlotSound(k)'
    <3>1. CASE m.id.generation < p.generation
      <4>1. c.generation <= p.generation /\ c.generation # p.generation /\ c.generation < p.generation
        BY <1>2, <1>3, <3>1
      <4>2. Caught(k) => Caught(k)'
        BY <1>3, <1>4, <1>5, <2>1, <3>1, <4>1 DEF Caught
      <4> QED
        BY <1>4, <2>1, <4>1, <4>2 DEF SlotSound, Windows!NoMail
    <3>2. CASE /\ m.id.generation = p.generation /\ m.id.request = p.request /\ m.user = p.user
               /\ p.box = Windows!NoMail /\ p.stage = "response"
      <4>1. c.generation = p.generation /\ c.sequence = p.request /\ c.user = p.user /\ c.active
        BY <1>2, <3>2
      <4>2. c.generation <= p.generation /\ c.sequence <= p.request
        BY <1>3, <4>1
      <4> QED
        BY <1>4, <2>1, <3>2, <4>1, <4>2 DEF SlotSound, Windows!NoMail
    <3> QED
      BY <2>2, <3>1, <3>2
  <2>4. ASSUME NEW x \in In(replies)' PROVE (x \in In(replies) /\ x.id.slot # k) \/ Ripe(x)'
    <3>1. CASE x \in In(replies) /\ x.id.slot = k
      <4>1. Ripe(x)
        BY <2>1, <3>1 DEF AllRipe
      <4>2. ~(o.generation = p.generation /\ o.sequence = p.request)
        BY <1>3, <1>5, <2>2
      <4> QED
        BY <2>1, <3>1, <4>1, <4>2 DEF Ripe
    <3>2. CASE x = r /\ full
      BY <1>k, <1>2, <1>4, <1>6, <2>1, <2>2, <3>2 DEF Ripe
    <3> QED
      BY <1>8, <3>1, <3>2
  <2> QED
    BY <2>3, <2>4
<1>11. ASSUME NEW x \in In(admitted)', x # Windows!Sleeping
       PROVE  (x \in In(admitted) /\ x.id.slot # k) \/ Known(x)'
  <2>1. CASE x \in In(admitted) /\ x.id.slot = k
    <3>1. Known(x) /\ x.id.generation \in Nat /\ x.id.request \in Nat
      BY <1>11, <2>1, EntryIs DEF AnswerInv, Queued
    <3>2. x.id.generation < m.id.generation \/ (x.id.generation = m.id.generation /\ x.id.request < m.id.request)
      BY <1>3, <1>5, <2>1, <3>1 DEF Known
    <3> QED
      BY <1>2, <1>4, <2>1, <3>2 DEF Known
  <2>2. CASE x = e
    BY <1>k, <1>2, <1>4, <1>6, <2>2 DEF Known
  <2> QED
    BY <1>9, <2>1, <2>2
<1>12. Contents'
  BY <1>0, <1>8, <1>9 DEF Contents
<1>13. Standing'
  <2>1. loop # "ended"
    BY DEF Windows!Receive
  <2> QED
    BY <1>0, <2>1 DEF AnswerInv, Standing
<1>14. Serves(k, c)
  BY <1>0, <1>4, <1>7, <1>10, <1>11, <1>12, <1>13 DEF Serves
<1> QED
  BY <1>14, ServesKeep

LEMMA ReceiveKeeps == AnswerInv /\ Windows!Receive => AnswerInv'
<1> SUFFICES ASSUME AnswerInv, Windows!Receive PROVE AnswerInv'
  OBVIOUS
<1> DEFINE m == Head(messages)
<1>0. /\ m \in Messages /\ m \in Transit /\ failure \notin {"sequence", "peer"}
  BY ReceiveIs DEF AnswerInv, Standing
<1>1. CASE UNCHANGED <<connections, admitted, failure, replies>>
  BY <1>0, <1>1, HeardKeeps
<1>2. CASE m.type = "exit" /\ Windows!Fail(m.why) /\ UNCHANGED <<connections, admitted, replies>>
  <2>1. m \in [type : {"exit"}, why : {"worker"}]
    <3>1. m \in Events => m.type # "exit"
      BY DEF Events, Told
    <3>2. m = [type |-> "ready"] => m.type # "exit"
      OBVIOUS
    <3> QED
      BY <1>0, <1>2, <3>1, <3>2 DEF Messages
  <2>2. failure' = "worker"
    BY <1>2, <2>1 DEF Windows!Fail
  <2> QED
    BY <1>2, <2>2, HeardKeeps
<1>3. CASE /\ m.type = "closed"
           /\ connections' = IF connections[m.id.slot].generation = m.id.generation
                             THEN [connections EXCEPT ![m.id.slot].active = FALSE] ELSE connections
           /\ UNCHANGED <<admitted, failure, replies>>
  BY <1>3, HangUpKeeps
<1>4. CASE m.type = "request" /\ (IF Windows!OutOfSequence(m)
                                  THEN Windows!Fail("sequence") /\ UNCHANGED <<connections, admitted, replies>>
                                  ELSE Windows!Admit(m) /\ UNCHANGED <<closing, failure>>)
  <2>1. ~Windows!OutOfSequence(m)
    BY <1>0, <1>4, NeverOutOfSequence
  <2>2. Windows!Admit(m) /\ UNCHANGED failure
    BY <1>4, <2>1
  <2> QED
    BY <1>4, <2>2, AdmitKeeps
<1> QED
  BY <1>1, <1>2, <1>3, <1>4 DEF Windows!Receive

-----------------------------------------------------------------------------
(* The runtime worker: the control loop; and the steps together.            *)

LEMMA ControlKeeps ==
  ASSUME AnswerInv, Windows!Suspend \/ Windows!Stop \/ Windows!Poll \/ Windows!Lock \/ Windows!Finish
  PROVE  AnswerInv'
<1>1. UNCHANGED <<slot, peers, connections, pipe, events, messages, replies>>
  BY DEF Windows!Suspend, Windows!Stop, Windows!Poll, Windows!Lock, Windows!Finish,
         Windows!dispatcher, Windows!worker, Windows!runtime
<1>2. admitted \in Seq(Entries \cup {Windows!Sleeping})
  BY DEF AnswerInv, PipeTyped
<1>3. admitted' = admitted \/ admitted' = Append(admitted, Windows!Sleeping)
      \/ (admitted # <<>> /\ admitted' = Tail(admitted))
  BY DEF Windows!Suspend, Windows!Stop, Windows!Poll, Windows!Lock, Windows!Finish, Windows!End, Windows!runtime
<1>4. admitted' \in Seq(Entries \cup {Windows!Sleeping}) /\ In(admitted)' \subseteq In(admitted) \cup {Windows!Sleeping}
  <2>1. In(admitted)' = In(admitted')
    BY DEF In
  <2>2. CASE admitted' = admitted
    BY <1>2, <2>1, <2>2
  <2>3. CASE admitted' = Append(admitted, Windows!Sleeping)
    BY <1>2, <2>1, <2>3, AppendIn
  <2>4. CASE admitted # <<>> /\ admitted' = Tail(admitted)
    BY <1>2, <2>1, <2>4, TailIn
  <2> QED
    BY <1>3, <2>2, <2>3, <2>4
<1>5. Standing'
  BY DEF AnswerInv, Standing, Windows!Suspend, Windows!Stop, Windows!Poll, Windows!Lock, Windows!Finish,
         Windows!End, Windows!Close, Windows!runtime
<1>6. In(events)' = In(events) /\ Transit' = Transit /\ Later' = Later /\ In(replies)' = In(replies)
  BY <1>1 DEF In, Transit, Later, Then
<1>7. Contents'
  BY <1>1, <1>4 DEF Contents, AnswerInv, PipeTyped
<1>8. Still
  BY <1>1, <1>4, <1>5, <1>6, <1>7 DEF Still
<1> QED
  BY <1>8, StillKeeps

LEMMA AnswerStep == AnswerInv /\ [Windows!Next]_windowsVars => AnswerInv'
<1> SUFFICES ASSUME AnswerInv, [Windows!Next]_windowsVars PROVE AnswerInv'
  OBVIOUS
<1>1. ASSUME NEW k \in Slots, Windows!Connect(k) PROVE AnswerInv'
  BY <1>1, ConnectKeeps
<1>2. ASSUME NEW k \in Slots, Windows!Reconnect(k) PROVE AnswerInv'
  BY <1>2, ReconnectKeeps
<1>3. ASSUME NEW k \in Slots, Windows!Read(k) PROVE AnswerInv'
  BY <1>3, ReadKeeps
<1>4. ASSUME NEW k \in Slots, Windows!Mail(k) PROVE AnswerInv'
  BY <1>4, MailKeeps
<1>5. ASSUME NEW k \in Slots, Windows!Written(k) PROVE AnswerInv'
  BY <1>5, WrittenKeeps
<1>6. CASE Windows!Dispatched \/ Windows!Respond \/ Windows!WorkerFails \/ Windows!Receive \/ Windows!Terminate
  BY <1>6, DispatchedKeeps, RespondKeeps, FailsKeeps, ReceiveKeeps, TerminateKeeps
<1>7. ASSUME NEW i \in DOMAIN admitted, Windows!Start(i) PROVE AnswerInv'
  BY <1>7, StartKeeps
<1>8. ASSUME NEW i \in DOMAIN admitted, Windows!Complete(i) PROVE AnswerInv'
  BY <1>8, CompleteKeeps
<1>9. CASE Windows!Suspend \/ Windows!Stop \/ Windows!Poll \/ Windows!Lock \/ Windows!Finish
  BY <1>9, ControlKeeps
<1>10. CASE UNCHANGED windowsVars
  <2>1. Still
    BY <1>10 DEF windowsVars, Still, Contents, AnswerInv, PipeTyped, In, Transit, Later, Then, Standing
  <2> QED
    BY <2>1, StillKeeps
<1> QED
  BY <1>1, <1>2, <1>3, <1>4, <1>5, <1>6, <1>7, <1>8, <1>9, <1>10 DEF Windows!Next

LEMMA AnswerInit == Windows!Init => AnswerInv
<1> SUFFICES ASSUME Windows!Init PROVE AnswerInv
  OBVIOUS
<1>1. /\ slot = [k \in Slots |-> Windows!Fresh(1)] /\ events = <<>> /\ replies = <<>> /\ admitted = <<>>
      /\ peers = [k \in Slots |-> [generation |-> 0, user |-> Nobody]]
      /\ messages = <<[type |-> "ready"]>> /\ connections = [k \in Slots |-> Windows!NoConnection]
      /\ pipe = "up" /\ failure = "none" /\ store
  BY DEF Windows!Init
<1>2. In(events) = {} /\ Then(events) = {} /\ In(replies) = {} /\ In(admitted) = {}
  BY <1>1, NothingIn
<1>3. messages \in Seq(Messages) /\ In(messages) = {[type |-> "ready"]} /\ Then(messages) = {}
  <2>1. [type |-> "ready"] \in Messages
    BY DEF Messages
  <2>2. messages \in Seq(Messages) /\ DOMAIN messages = {1} /\ messages[1] = [type |-> "ready"]
    BY <1>1, <2>1
  <2> QED
    BY <2>2 DEF In, Then
<1>4. PipeTyped
  <2>1. Windows!Fresh(1) \in Windows!Slot
    BY DEF Windows!Fresh, Windows!Slot, Windows!NoMail
  <2> QED
    BY <1>1, <1>3, <2>1 DEF PipeTyped, Windows!NoConnection
<1>5. Ordered /\ InSequence /\ AllAwaited /\ PeersReady /\ AllRipe /\ Queued
  BY <1>2, <1>3 DEF Ordered, Later, Transit, InSequence, AllAwaited, PeersReady, AllRipe, Queued, Told
<1>6. ASSUME NEW k \in Slots PROVE SlotSound(k)
  <2>1. /\ slot[k].stage = "connect" /\ slot[k].request = 0 /\ slot[k].generation = 1 /\ slot[k].box = Windows!NoMail
        /\ connections[k].generation = 0
    BY <1>1 DEF Windows!Fresh, Windows!NoConnection
  <2> QED
    BY <2>1 DEF SlotSound
<1> QED
  BY <1>1, <1>4, <1>5, <1>6 DEF AnswerInv, PipeSound, Quiet, Standing

LEMMA AnswerSound == AnswerInv => AnswerToAsker
<1> SUFFICES ASSUME AnswerInv PROVE AnswerToAsker
  OBVIOUS
<1>1. Windows!Running # {} => store
  BY StoreOpen DEF Windows!Running, Windows!Asked
<1>2. ASSUME NEW k \in Slots, slot[k].stage \in {"response", "write"}, slot[k].box # Windows!NoMail
      PROVE  slot[k].box = [mail |-> "answer", to |-> Windows!Identity(k), user |-> slot[k].user]
  <2>1. pipe = "up"
    BY <1>2 DEF AnswerInv, Quiet
  <2> QED
    BY <1>2, <2>1 DEF AnswerInv, PipeSound, SlotSound
<1> QED
  BY <1>1, <1>2 DEF AnswerInv, Standing, AnswerToAsker, Windows!AnswerToAsker

\* What a client is sent answers the request it waits for, from its own vault, and
\* no order of what the threads tell each other ends the service.
THEOREM AnswersReachAskers == Windows!Spec => []AnswerToAsker
<1>1. AnswerInv /\ [Windows!Next]_(Windows!vars) => AnswerInv'
  BY AnswerStep DEF Windows!vars, windowsVars
<1> QED
  BY <1>1, AnswerInit, AnswerSound, PTL DEF Windows!Spec

-----------------------------------------------------------------------------
(***************************************************************************)
(* The lock of the vaults among the requests of all users.  A request runs *)
(* only when no lock is before it, so that the lock, which is at the head  *)
(* of the queue when the vaults are locked, finds none running.            *)
(***************************************************************************)

\* No lock waits before a request that runs.
NoneAhead ==
  \A i \in DOMAIN admitted : admitted[i] # Windows!Sleeping /\ admitted[i].running =>
    \A j \in DOMAIN admitted : j < i => admitted[j] # Windows!Sleeping

\* What a step does to the queue, unless it is the lock.
Queues ==
  \/ admitted' = admitted
  \/ \E e \in Entries \cup {Windows!Sleeping} :
       (e # Windows!Sleeping => ~e.running) /\ admitted' = Append(admitted, e)
  \/ \E i \in Windows!Asked :
       Windows!Before(i) = {} /\ admitted' = [admitted EXCEPT ![i].running = TRUE]
  \/ \E i \in Windows!Asked : admitted' = RemoveAt(admitted, i)

LEMMA QueueSteps ==
  ASSUME AnswerInv, [Windows!Next]_windowsVars
  PROVE  Queues \/ Windows!Lock
<1>1. ASSUME NEW k \in Slots, Windows!Connect(k) \/ Windows!Reconnect(k) \/ Windows!Read(k) \/ Windows!Mail(k) \/ Windows!Written(k)
      PROVE  Queues
  BY <1>1 DEF Queues, Windows!Connect, Windows!Reconnect, Windows!Read, Windows!Mail, Windows!Written, Windows!runtime
<1>2. CASE Windows!Dispatched \/ Windows!Respond \/ Windows!WorkerFails \/ Windows!Terminate \/ Windows!Suspend
           \/ Windows!Stop \/ Windows!Finish
  BY <1>2 DEF Queues, Windows!Dispatched, Windows!Respond, Windows!WorkerFails, Windows!Terminate, Windows!Suspend,
              Windows!Stop, Windows!Finish, Windows!runtime
<1>3. CASE Windows!Receive
  <2>1. admitted' = admitted \/ (Head(messages).type = "request" /\ Windows!Admit(Head(messages)))
    BY <1>3 DEF Windows!Receive
  <2>2. CASE Head(messages).type = "request" /\ Windows!Admit(Head(messages))
    <3>1. Head(messages) \in Events
      BY <1>3, <2>2, ReceiveIs, ToldIs DEF AnswerInv, Told
    <3>2. PICK full \in BOOLEAN, e \in Entries :
            /\ e = [id |-> Head(messages).id, user |-> Head(messages).user, running |-> FALSE]
            /\ admitted' = IF full THEN admitted ELSE Append(admitted, e)
      BY <2>2, <3>1, AdmitIs
    <3>3. ~e.running
      BY <3>2
    <3> QED
      BY <3>2, <3>3 DEF Queues
  <2> QED
    BY <2>1, <2>2 DEF Queues
<1>4. ASSUME NEW i \in DOMAIN admitted, Windows!Start(i) \/ Windows!Complete(i) PROVE Queues
  <2>1. i \in Windows!Asked
    BY <1>4 DEF Windows!Start, Windows!Complete
  <2>2. Windows!Released(i) => Queues
    BY <2>1 DEF Queues, Windows!Released, Windows!RemoveAt, RemoveAt
  <2>3. Windows!Start(i) => Queues
    BY <2>1, <2>2 DEF Queues, Windows!Start
  <2>4. Windows!Complete(i) => Queues
    BY <2>2 DEF Windows!Complete
  <2> QED
    BY <1>4, <2>3, <2>4
<1>5. CASE Windows!Poll
  <2>1. admitted' = admitted \/ admitted' = Append(admitted, Windows!Sleeping)
    BY <1>5 DEF Windows!Poll
  <2> QED
    BY <2>1 DEF Queues
<1>6. CASE UNCHANGED windowsVars
  BY <1>6 DEF Queues, windowsVars
<1> QED
  BY <1>1, <1>2, <1>3, <1>4, <1>5, <1>6 DEF Windows!Next

\* A step that is not the lock leaves every lock in the queue, and lets none run behind it.
LEMMA QueuesKeep ==
  ASSUME AnswerInv, NoneAhead, Queues
  PROVE  /\ NoneAhead'
         /\ \A j \in DOMAIN admitted : admitted[j] = Windows!Sleeping =>
              \E n \in DOMAIN admitted' : admitted'[n] = Windows!Sleeping
<1> DEFINE Stays == \A j \in DOMAIN admitted : admitted[j] = Windows!Sleeping =>
                      \E n \in DOMAIN admitted' : admitted'[n] = Windows!Sleeping
<1>q. /\ admitted \in Seq(Entries \cup {Windows!Sleeping})
      /\ Len(admitted) \in Nat /\ DOMAIN admitted = 1..Len(admitted)
  BY DEF AnswerInv, PipeTyped
<1>1. CASE admitted' = admitted
  BY <1>1 DEF NoneAhead
<1>2. ASSUME NEW e \in Entries \cup {Windows!Sleeping}, e # Windows!Sleeping => ~e.running,
             admitted' = Append(admitted, e)
      PROVE  NoneAhead' /\ Stays
  <2>1. /\ DOMAIN admitted' = 1..(Len(admitted) + 1) /\ admitted'[Len(admitted) + 1] = e
        /\ \A j \in 1..Len(admitted) : admitted'[j] = admitted[j]
    BY <1>q, <1>2
  <2>2. ASSUME NEW i \in DOMAIN admitted', admitted'[i] # Windows!Sleeping, admitted'[i].running,
               NEW j \in DOMAIN admitted', j < i
        PROVE  admitted'[j] # Windows!Sleeping
    <3>1. i # Len(admitted) + 1
      BY <1>2, <2>1, <2>2
    <3>2. i \in DOMAIN admitted /\ j \in DOMAIN admitted /\ admitted'[i] = admitted[i] /\ admitted'[j] = admitted[j]
      BY <1>q, <2>1, <2>2, <3>1
    <3> QED
      BY <2>2, <3>2 DEF NoneAhead
  <2> QED
    BY <1>q, <2>1, <2>2 DEF NoneAhead
<1>3. ASSUME NEW i \in Windows!Asked, Windows!Before(i) = {}, admitted' = [admitted EXCEPT ![i].running = TRUE]
      PROVE  NoneAhead' /\ Stays
  <2>1. i \in DOMAIN admitted /\ admitted[i] \in Entries
    BY <1>q, <1>3 DEF Windows!Asked
  <2>2. /\ DOMAIN admitted' = DOMAIN admitted
        /\ \A j \in DOMAIN admitted : j # i => admitted'[j] = admitted[j]
        /\ admitted'[i] # Windows!Sleeping
    <3>1. DOMAIN [admitted[i] EXCEPT !.running = TRUE] = {"id", "user", "running"}
      BY <2>1 DEF Entries
    <3>2. DOMAIN Windows!Sleeping = {"user"}
      BY DEF Windows!Sleeping
    <3>3. admitted'[i] = [admitted[i] EXCEPT !.running = TRUE]
      BY <1>q, <1>3, <2>1
    <3> QED
      BY <1>q, <1>3, <2>1, <3>1, <3>2, <3>3
  <2>3. \A j \in DOMAIN admitted : j < i => admitted[j] # Windows!Sleeping
    BY <1>q, <1>3, <2>1 DEF Windows!Before, Windows!Sleeping
  <2>4. ASSUME NEW k \in DOMAIN admitted', admitted'[k] # Windows!Sleeping, admitted'[k].running,
               NEW j \in DOMAIN admitted', j < k
        PROVE  admitted'[j] # Windows!Sleeping
    <3>1. CASE k = i
      BY <1>q, <2>1, <2>2, <2>3, <2>4, <3>1
    <3>2. CASE k # i
      <4>1. admitted[j] # Windows!Sleeping
        BY <2>2, <2>4, <3>2 DEF NoneAhead
      <4> QED
        BY <2>2, <2>4, <4>1
    <3> QED
      BY <3>1, <3>2
  <2>5. \A j \in DOMAIN admitted : admitted[j] = Windows!Sleeping => j # i
    BY <1>3 DEF Windows!Asked
  <2> QED
    BY <2>2, <2>4, <2>5 DEF NoneAhead
<1>4. ASSUME NEW i \in Windows!Asked, admitted' = RemoveAt(admitted, i)
      PROVE  NoneAhead' /\ Stays
  <2>1. i \in DOMAIN admitted /\ admitted[i] # Windows!Sleeping
    BY <1>4 DEF Windows!Asked
  <2>2. /\ DOMAIN admitted' = 1..(Len(admitted) - 1) /\ i \in 1..Len(admitted)
        /\ \A j \in 1..(Len(admitted) - 1) : admitted'[j] = IF j < i THEN admitted[j] ELSE admitted[j + 1]
    BY <1>q, <1>4, <2>1, RemoveCells
  <2>3. ASSUME NEW k \in DOMAIN admitted', admitted'[k] # Windows!Sleeping, admitted'[k].running,
               NEW j \in DOMAIN admitted', j < k
        PROVE  admitted'[j] # Windows!Sleeping
    <3>1. PICK x \in DOMAIN admitted : x = (IF k < i THEN k ELSE k + 1) /\ admitted'[k] = admitted[x]
      BY <1>q, <2>2, <2>3
    <3>2. PICK y \in DOMAIN admitted : y = (IF j < i THEN j ELSE j + 1) /\ admitted'[j] = admitted[y]
      BY <1>q, <2>2, <2>3
    <3>3. y < x
      BY <1>q, <2>2, <2>3, <3>1, <3>2
    <3> QED
      BY <2>3, <3>1, <3>2, <3>3 DEF NoneAhead
  <2>4. ASSUME NEW j \in DOMAIN admitted, admitted[j] = Windows!Sleeping
        PROVE  \E n \in DOMAIN admitted' : admitted'[n] = Windows!Sleeping
    <3>1. j # i
      BY <2>1, <2>4
    <3>2. CASE j < i
      BY <1>q, <2>2, <2>4, <3>2
    <3>3. CASE j > i
      <4>1. j - 1 \in DOMAIN admitted' /\ ~(j - 1 < i) /\ (j - 1) + 1 = j
        BY <1>q, <2>2, <3>3
      <4>2. admitted'[j - 1] = admitted[(j - 1) + 1]
        BY <2>2, <4>1
      <4> QED
        BY <2>4, <4>1, <4>2
    <3> QED
      BY <1>q, <2>1, <3>1, <3>2, <3>3
  <2> QED
    BY <2>3, <2>4 DEF NoneAhead
<1> QED
  BY <1>1, <1>2, <1>3, <1>4 DEF Queues

\* The lock leaves the head of the queue when no request runs.
LEMMA LockKeeps ==
  ASSUME AnswerInv, NoneAhead, Windows!Lock
  PROVE  NoneAhead' /\ Windows!Running = {}
<1>1. /\ admitted \in Seq(Entries \cup {Windows!Sleeping})
      /\ admitted # <<>> /\ Head(admitted) = Windows!Sleeping /\ admitted' = Tail(admitted)
  BY DEF AnswerInv, PipeTyped, Windows!Lock
<1>2. /\ Len(admitted) \in Nat /\ DOMAIN admitted = 1..Len(admitted) /\ 1 \in DOMAIN admitted
      /\ admitted[1] = Windows!Sleeping
      /\ DOMAIN admitted' = 1..(Len(admitted) - 1)
      /\ \A j \in DOMAIN admitted' : admitted'[j] = admitted[j + 1]
  BY <1>1
<1>3. ASSUME NEW i \in DOMAIN admitted, admitted[i] # Windows!Sleeping, admitted[i].running PROVE FALSE
  <2>1. i # 1 /\ 1 < i
    BY <1>2, <1>3
  <2> QED
    BY <1>2, <1>3, <2>1 DEF NoneAhead
<1>4. \A k \in DOMAIN admitted' : k + 1 \in DOMAIN admitted /\ admitted'[k] = admitted[k + 1]
  BY <1>2
<1>5. NoneAhead'
  BY <1>3, <1>4 DEF NoneAhead
<1>6. Windows!Running = {}
  BY <1>3 DEF Windows!Running, Windows!Asked
<1> QED
  BY <1>5, <1>6

\* The vaults are locked on suspension between the operations of all users, never in
\* the midst of one.
THEOREM VaultsLockBetween == Windows!Spec => Windows!LockedBetween
<1> DEFINE Between ==
             (\E i \in DOMAIN admitted : admitted[i] = Windows!Sleeping)
               /\ (\A i \in DOMAIN admitted' : admitted'[i] # Windows!Sleeping) => Windows!Running = {}
<1>1. Windows!Init => AnswerInv /\ NoneAhead
  <2>1. Windows!Init => admitted = <<>>
    BY DEF Windows!Init
  <2>2. admitted = <<>> => NoneAhead
    BY DEF NoneAhead
  <2> QED
    BY <2>1, <2>2, AnswerInit
<1>2. AnswerInv /\ NoneAhead /\ [Windows!Next]_windowsVars => AnswerInv' /\ NoneAhead' /\ Between
  <2> SUFFICES ASSUME AnswerInv, NoneAhead, [Windows!Next]_windowsVars PROVE AnswerInv' /\ NoneAhead' /\ Between
    OBVIOUS
  <2>1. AnswerInv'
    BY AnswerStep
  <2>2. Queues => NoneAhead' /\ Between
    BY QueuesKeep
  <2>3. Windows!Lock => NoneAhead' /\ Between
    BY LockKeeps
  <2> QED
    BY <2>1, <2>2, <2>3, QueueSteps
<1> HIDE DEF Between
<1>3. AnswerInv /\ NoneAhead /\ [Windows!Next]_(Windows!vars) => AnswerInv' /\ NoneAhead' /\ [Between]_(Windows!vars)
  BY <1>2 DEF Windows!vars, windowsVars
<1>4. Windows!Spec => [][Between]_(Windows!vars)
  BY <1>1, <1>3, PTL DEF Windows!Spec
<1> QED
  BY <1>4, PTL DEF Windows!LockedBetween, Between

-----------------------------------------------------------------------------
\* Whichever part a behaviour of the checked specification is of, it is a behaviour of
\* every part's own, so all that is proved of them holds of it.
THEOREM PartsAreSafe ==
  PartsSpec => /\ [](SecretsReadable /\ CurrentKeyOpensHeader /\ KeysExpire /\ KeyKept /\ AnswerToAsker)
               /\ MasterKeyKept /\ Windows!LockedBetween
<1>1. PartsInit => Init /\ Windows!Init /\ Memory!Init
  BY DEF PartsInit
<1>2. [PartsNext]_allVars => [Next]_vars /\ [Windows!Next]_(Windows!vars) /\ [Memory!Next]_(Memory!vars)
  <2> SUFFICES ASSUME [PartsNext]_allVars
               PROVE  [Next]_vars /\ [Windows!Next]_(Windows!vars) /\ [Memory!Next]_(Memory!vars)
    OBVIOUS
  <2>1. /\ Next \/ UNCHANGED vars
        /\ Windows!Next \/ UNCHANGED windowsVars
        /\ Memory!Next \/ UNCHANGED memoryVars
    BY DEF PartsNext, allVars
  <2> QED
    BY <2>1 DEF windowsVars, Windows!vars, memoryVars, Memory!vars
<1>3. PartsSpec => Spec /\ Windows!Spec /\ Memory!Spec
  BY <1>1, <1>2, PTL DEF PartsSpec, Spec, Windows!Spec, Memory!Spec
<1> QED
  BY <1>3, SecretsAreReadable, CurrentKeyIsTheHeaders, KeysDoExpire, MasterKeyIsKept, KeyIsKept, AnswersReachAskers,
     VaultsLockBetween, PTL

=============================================================================
