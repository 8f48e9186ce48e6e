------------------------------- MODULE KeyMemory -------------------------------
(***************************************************************************)
(* The memory of a process that holds secrets of the vault: the protected  *)
(* page of the master key (native/vault_secure_memory.c), the buffers of   *)
(* the native cryptography (native/vault_crypto_native.c), and the calls   *)
(* that use them (vault-protected-key.ts, vault-crypto.ts and, in the      *)
(* service, vault-local-backend.ts).                                       *)
(*                                                                         *)
(* A call runs to its end before the next one begins.  It is divided where *)
(* something can fail, and every failure leaves by the way out the code    *)
(* has there.  Keys are known by where they come from: the master key of   *)
(* the header, or a page of zeros.                                         *)
(***************************************************************************)
EXTENDS Naturals

CONSTANTS
  Records,     \* the records the vault may have
  MaxFailures  \* bound on allocations, protections and primitives that fail

BoundsAssumption == Records # {} /\ MaxFailures \in Nat

VARIABLES
  windows,  \* the key is encrypted in its page between two uses
  header,   \* there is a sidecar with a wrapped master key
  held,     \* the process has a protected key
  key,      \* the page of that key: what is in it and whether it is encrypted
  record,   \* the key each record is encrypted with, or none
  pages,    \* locked pages allocated
  secret,   \* native buffers that hold something secret
  call,     \* the call that runs
  failures, \* so far
  spoiled,  \* history: the page of a held key was cleared
  wrong     \* history: a record was called corrupt and is not

vars == <<windows, header, held, key, record, pages, secret, call, failures, spoiled, wrong>>

Content == {"master", "zero"}
Methods == {"none", "derive", "unlock", "change", "put", "get"}
Labels == {"idle", "allocate", "hash", "output", "unwrap", "publish", "protect", "expand", "cipher", "result"}
Buffers == {"password", "wrapping", "recordKey", "text"}

\* using: what the record key was derived from.
Call == [op : Methods, at : Labels, of : Records, using : Content]

TypeOK ==
  /\ windows \in BOOLEAN /\ header \in BOOLEAN /\ held \in BOOLEAN
  /\ key \in [memory : Content, sealed : BOOLEAN]
  /\ record \in [Records -> Content \cup {"none"}]
  /\ pages \in Nat /\ secret \subseteq Buffers
  /\ call \in Call
  /\ failures \in 0..MaxFailures /\ spoiled \in BOOLEAN /\ wrong \in BOOLEAN

Idle == [op |-> "none", at |-> "idle", of |-> CHOOSE r \in Records : TRUE,
         using |-> "master"]

Init ==
  /\ windows \in BOOLEAN
  /\ header = FALSE /\ held = FALSE
  /\ key = [memory |-> "zero", sealed |-> FALSE]
  /\ record = [r \in Records |-> "none"]
  /\ pages = 0 /\ secret = {}
  /\ call = Idle
  /\ failures = 0 /\ spoiled = FALSE /\ wrong = FALSE

Goto(label) == call' = [call EXCEPT !.at = label]

\* The call returns or throws; what it leaves is said where it does.
Ends == call' = Idle

Fails == failures < MaxFailures /\ failures' = failures + 1

-----------------------------------------------------------------------------
(* The calls.                                                               *)

Begin(op, label, r) == call' = [Idle EXCEPT !.op = op, !.at = label, !.of = r]

Starts(op, label) ==
  /\ call.at = "idle"
  /\ Begin(op, label, Idle.of)
  /\ UNCHANGED <<windows, header, held, key, record, pages, secret, failures, spoiled, wrong>>

\* A client derives the wrapping key, the service has it from the client.
BeginDerive == Starts("derive", "allocate")
BeginUnlock == Starts("unlock", "unwrap")
BeginChange == header /\ Starts("change", "unwrap")

BeginPut ==
  /\ call.at = "idle" /\ held
  /\ \E r \in Records : record[r] = "none" /\ Begin("put", "expand", r)
  /\ UNCHANGED <<windows, header, held, key, record, pages, secret, failures, spoiled, wrong>>

BeginGet ==
  /\ call.at = "idle" /\ held
  /\ \E r \in Records : record[r] # "none" /\ Begin("get", "expand", r)
  /\ UNCHANGED <<windows, header, held, key, record, pages, secret, failures, spoiled, wrong>>

\* vault_secure_release clears the page and gives it back.
Released == pages - 1
Destroyed == IF held THEN Released ELSE pages

Lock ==
  /\ call.at = "idle"
  /\ held' = FALSE /\ pages' = Destroyed
  /\ spoiled' = FALSE
  /\ UNCHANGED <<windows, header, key, record, secret, call, failures, wrong>>

\* The key, the database and the sidecar.
Reset ==
  /\ call.at = "idle"
  /\ held' = FALSE /\ pages' = Destroyed
  /\ record' = [r \in Records |-> "none"] /\ header' = FALSE
  /\ spoiled' = FALSE
  /\ UNCHANGED <<windows, key, secret, call, failures, wrong>>

-----------------------------------------------------------------------------
(* The wrapping key of an unlock factor (derive_vault_wrapping_key).        *)

\* vault_secure_allocate: what it had is given back when it cannot lock it.
Allocate ==
  /\ call.at = "allocate"
  /\ \/ pages' = pages + 1 /\ secret' = secret \cup {"password"} /\ Goto("hash") /\ UNCHANGED failures
     \/ Fails /\ Ends /\ UNCHANGED <<pages, secret>>
  /\ UNCHANGED <<windows, header, held, key, record, spoiled, wrong>>

\* A plausible bug: the page of the factor is given back on success only.
HashLeaks ==
  /\ call.at = "hash"
  /\ \/ /\ pages' = Released
        /\ secret' = (secret \ {"password"}) \cup {"wrapping"} /\ Goto("output") /\ UNCHANGED failures
     \/ Fails /\ secret' = secret \ {"password"} /\ Ends /\ UNCHANGED pages
  /\ UNCHANGED <<windows, header, held, key, record, spoiled, wrong>>

Hash ==
  /\ call.at = "hash"
  /\ pages' = Released
  /\ \/ secret' = (secret \ {"password"}) \cup {"wrapping"} /\ Goto("output") /\ UNCHANGED failures
     \/ Fails /\ secret' = secret \ {"password"} /\ Ends
  /\ UNCHANGED <<windows, header, held, key, record, spoiled, wrong>>

\* The caller has its copy, or an error.
Output ==
  /\ call.at = "output"
  /\ secret' = secret \ {"wrapping"}
  /\ Ends
  /\ UNCHANGED failures \/ Fails
  /\ UNCHANGED <<windows, header, held, key, record, pages, spoiled, wrong>>

-----------------------------------------------------------------------------
(* The master key.                                                          *)

\* The first unlock makes a key.  A key that does not open the header throws.
Unwrap ==
  /\ call.at = "unwrap"
  /\ \/ Goto(IF header /\ call.op = "unlock" THEN "protect" ELSE "publish")
     \/ header /\ Ends
  /\ UNCHANGED <<windows, header, held, key, record, pages, secret, failures, spoiled, wrong>>

\* The header is written before the key is held.
Publish ==
  /\ call.at = "publish"
  /\ \/ header' = TRUE /\ Goto("protect") /\ UNCHANGED failures
     \/ Fails /\ Ends /\ UNCHANGED header
  /\ UNCHANGED <<windows, held, key, record, pages, secret, spoiled, wrong>>

\* replaceMasterKey: the old key goes when the new one is made.
Protect ==
  /\ call.at = "protect"
  /\ \/ /\ key' = [memory |-> "master", sealed |-> windows]
        /\ held' = TRUE
        /\ pages' = Destroyed + 1
        /\ Ends /\ spoiled' = FALSE /\ UNCHANGED failures
     \/ Fails /\ Ends /\ UNCHANGED <<held, key, pages, spoiled>>
  /\ UNCHANGED <<windows, header, record, secret, wrong>>

-----------------------------------------------------------------------------
(* Records (encrypt_record, decrypt_record).                                *)

\* vault_protected_key_open: 1, or 0 with the page as it was.
Opened == [key EXCEPT !.sealed = FALSE]

\* vault_protected_key_close: a page that cannot be encrypted again is cleared.
Closed(k) == [k EXCEPT !.sealed = windows]
NotClosed(k) == [k EXCEPT !.memory = "zero"]

\* A failure before the record key is complete is one of the record, corrupt
\* for a read, whatever failed.
Expand ==
  /\ call.at = "expand"
  /\ \/ /\ key' = Closed(Opened)
        /\ secret' = secret \cup {"recordKey"}
        /\ call' = [call EXCEPT !.at = "cipher", !.using = key.memory]
        /\ UNCHANGED <<failures, spoiled>>
     \/ Fails /\ Ends /\ key' \in {key, Closed(Opened)} /\ UNCHANGED <<secret, spoiled>>
     \/ windows /\ Fails /\ Ends /\ key' = NotClosed(Opened) /\ spoiled' = TRUE /\ UNCHANGED secret
  /\ UNCHANGED <<windows, header, held, record, pages, wrong>>

\* The record key is cleared whether it has served or not.
Encrypt ==
  /\ call.at = "cipher" /\ call.op = "put"
  /\ \/ secret' = (secret \ {"recordKey"}) \cup {"text"} /\ Goto("result") /\ UNCHANGED failures
     \/ Fails /\ secret' = secret \ {"recordKey"} /\ Ends
  /\ UNCHANGED <<windows, header, held, key, record, pages, spoiled, wrong>>

\* The tag tells a record of another key.
Authentic == record[call.of] = call.using

\* The plaintext of a read that fails is cleared.
Decrypt ==
  /\ call.at = "cipher" /\ call.op = "get"
  /\ \/ /\ Authentic
        /\ secret' = (secret \ {"recordKey"}) \cup {"text"} /\ Goto("result")
        /\ UNCHANGED <<failures, wrong>>
     \/ /\ secret' = secret \ {"recordKey"} /\ Ends
        /\ \/ Authentic /\ Fails /\ UNCHANGED wrong
           \/ /\ ~Authentic /\ UNCHANGED failures
              /\ wrong' = (wrong \/ (record[call.of] = "master" /\ ~spoiled))
  /\ UNCHANGED <<windows, header, held, key, record, pages, spoiled>>

\* The ciphertext is copied and put into the database.
Store ==
  /\ call.at = "result" /\ call.op = "put"
  /\ secret' = secret \ {"text"}
  /\ \/ record' = [record EXCEPT ![call.of] = call.using] /\ UNCHANGED failures
     \/ Fails /\ UNCHANGED record
  /\ Ends
  /\ UNCHANGED <<windows, header, held, key, pages, spoiled, wrong>>

\* The plaintext is copied for the answer.
Answer ==
  /\ call.at = "result" /\ call.op = "get"
  /\ secret' = secret \ {"text"}
  /\ UNCHANGED failures \/ Fails
  /\ Ends
  /\ UNCHANGED <<windows, header, held, key, record, pages, spoiled, wrong>>

Next ==
  \/ BeginDerive \/ BeginUnlock \/ BeginChange \/ BeginPut \/ BeginGet \/ Lock \/ Reset
  \/ Allocate \/ Hash \/ Output \/ Unwrap \/ Publish \/ Protect
  \/ Expand \/ Encrypt \/ Decrypt \/ Store \/ Answer

Spec == Init /\ [][Next]_vars

-----------------------------------------------------------------------------
(* Properties.                                                              *)

\* When no call runs, the page of the held key is the only one allocated and
\* no other native buffer holds a secret, whichever step of a call failed.
\* The held key is the master key, and it opens every record it encrypted,
\* unless Windows could not encrypt a page again: the page is cleared then and
\* goes on being used, so what is stored until the vault is locked is lost.
KeyKept ==
  /\ call.at = "idle" => secret = {} /\ pages = (IF held THEN 1 ELSE 0)
  /\ held /\ ~spoiled => key.memory = "master"
  /\ ~windows => \A r \in Records : record[r] # "zero"
  /\ ~wrong
===============================================================================
