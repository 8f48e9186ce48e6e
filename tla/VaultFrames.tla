----------------------------- MODULE VaultFrames -----------------------------
(***************************************************************************)
(* The messages of the vault on their way through a socket: how a message  *)
(* becomes a frame and a frame a message (vault-ipc.ts), and the clients   *)
(* that read what arrives in chunks (vault-socket.ts, the worker of        *)
(* vault-sync-secret-store.ts) while the connection may end anywhere.      *)
(*                                                                         *)
(* A frame is a sequence of cells, each a number: a length or a count (four*)
(* bytes in the code), a piece of the JSON text, or one byte of a secret.  *)
(***************************************************************************)
EXTENDS Integers, Sequences

CONSTANTS
  MaxBody,     \* VAULT_IPC_MAX_MESSAGE_BYTES
  Secrets,     \* the values of the byte fields of a message, sequences of bits
  MaxParts     \* bound on the byte fields of a message

MessagesAssumption ==
  /\ MaxBody \in Nat /\ MaxParts \in Nat
  /\ MaxBody >= 3                     \* a failure without byte fields fits
  /\ Secrets \subseteq Seq({0, 1})

VARIABLES
  socket,     \* the client's end
  client,     \* what the client does
  wire,       \* what the peer sent and the client has not read
  closed,     \* the peer ended its side
  chunks,     \* what was read and is not yet a frame
  sent,       \* the first message the peer sent, as a frame
  held        \* the buffers that hold bytes of a secret

vars == <<socket, client, wire, closed, chunks, sent, held>>

\* A message: its kind and its byte fields.  The rest of the JSON text is one cell.
Request == 1
Success == 2
Failure == 3

Messages == [kind : {Request, Success, Failure}, parts : UNION {[1..n -> Secrets] : n \in 0..MaxParts}]

Xor(a, b) == (a + b) % 2

-----------------------------------------------------------------------------
(* Frames.                                                                  *)

\* An attachment is its length, the mask and the masked bytes.
Masked(secret, mask) ==
  <<2 * Len(secret)>> \o [i \in 1..Len(secret) |-> mask]
                      \o [i \in 1..Len(secret) |-> Xor(secret[i], mask)]

\* A byte field becomes a reference to its attachment, by its number.
Text(m) == <<m.kind>> \o [i \in 1..Len(m.parts) |-> i - 1]

Body(m, mask) ==
  LET attached[n \in 0..Len(m.parts)] ==
        IF n = 0 THEN <<>> ELSE attached[n - 1] \o Masked(m.parts[n], mask)
  IN <<Len(Text(m)), Len(m.parts)>> \o Text(m) \o attached[Len(m.parts)]

Fits(m) == Len(Body(m, 0)) <= MaxBody

Encode(m, mask) == <<Len(Body(m, mask))>> \o Body(m, mask)

TextEnd(frame) == 3 + frame[2]

\* Where the attachments end: 0 if one of them does not fit or has an odd length.
AttachmentEnd(frame) ==
  LET end[n \in 0..frame[3]] ==
        IF n = 0 THEN TextEnd(frame)
        ELSE LET from == end[n - 1] + 1
             IN IF end[n - 1] = 0 \/ from > Len(frame) THEN 0
                ELSE IF from + frame[from] > Len(frame) \/ frame[from] % 2 = 1 THEN 0
                ELSE from + frame[from]
  IN end

WellFormed(frame) ==
  /\ Len(frame) >= 3
  /\ frame[1] <= MaxBody
  /\ Len(frame) = frame[1] + 1
  /\ TextEnd(frame) <= Len(frame)
  /\ AttachmentEnd(frame)[frame[3]] = Len(frame)
  /\ frame[2] >= 1 /\ frame[4] \in {Request, Success, Failure}
  /\ \A i \in 5..TextEnd(frame) : frame[i] < frame[3]   \* references to attachments

\* decodeVaultIpcFrame throws unless the frame is well formed.
Decode(frame) ==
  LET attachment(n) ==
        LET from == AttachmentEnd(frame)[n] + 1
            size == frame[from] \div 2
        IN [i \in 1..size |-> Xor(frame[from + i], frame[from + size + i])]
  IN [kind |-> frame[4],
      parts |-> [i \in 1..frame[2] - 1 |-> attachment(frame[4 + i])]]

-----------------------------------------------------------------------------
(* The clients.  "request" is sendVaultIpcRequest, "inspect" is             *)
(* inspectVaultSocketPeer and "worker" the worker of the synchronous store  *)
(* up to its first request, which has the broker sign a challenge.          *)

Kinds == {"request", "inspect", "worker"}

Signature == <<7, 1>>    \* the answer to the challenge: the marker IFR1 and what is signed

Outcomes == {"none", "answered", "trusted", "truncated", "too large", "corrupt",
             "closed", "unavailable", "peer verification failed"}

TypeOK ==
  /\ socket \in {"new", "open", "destroyed"}
  /\ client \in [kind : Kinds, at : {"connect", "verify", "challenge", "exchange", "settled", "stranded", "ended"},
                 written : {"no", "pending", "yes", "failed"},
                 frame : Seq(Nat), message : Messages, outcome : Outcomes]
  /\ wire \in Seq(Nat) /\ chunks \in Seq(Nat) /\ sent \in Seq(Nat)
  /\ closed \in BOOLEAN
  /\ held \subseteq {"request", "chunks", "frame", "message"}

Init ==
  /\ socket = "new"
  /\ client \in [kind : Kinds, at : {"connect"}, written : {"no"}, frame : {<<>>},
                 message : {[kind |-> Request, parts |-> <<>>]}, outcome : {"none"}]
  /\ wire = <<>> /\ closed = FALSE
  /\ chunks = <<>> /\ sent = <<>> /\ held = {}

\* The worker fails for whatever reason its check of the peer has.
Outcome(code) == IF client.kind = "worker" /\ code # "trusted" THEN "peer verification failed" ELSE code

EndWith(code) ==
  /\ client' = [client EXCEPT !.at = "ended", !.outcome = Outcome(code), !.frame = <<>>]
  /\ socket' = "destroyed"
  /\ chunks' = <<>>
  /\ held' = held \cap {"request"}   \* until its write is over

Connect ==
  /\ client.at = "connect"
  /\ \/ /\ socket' = "open"
        /\ client' = [client EXCEPT !.at = "verify"]
        /\ UNCHANGED <<chunks, held>>
     \/ EndWith("unavailable")
  /\ UNCHANGED <<wire, closed, sent>>

\* An inspection ends with the peer, or after 250 ms of silence.  A request that is too
\* large for a frame fails before anything would close its connection: what the peer still
\* says nobody waits for.
Verify ==
  /\ client.at = "verify"
  /\ \/ /\ client.kind = "request"
        /\ client' = [client EXCEPT !.at = "exchange", !.written = "pending"]
        /\ held' = {"request"}
        /\ UNCHANGED <<socket, chunks>>
     \/ /\ client.kind = "request"
        /\ client' = [client EXCEPT !.at = "stranded"]
        /\ UNCHANGED <<socket, chunks, held>>
     \/ /\ client.kind = "worker"
        /\ client' = [client EXCEPT !.at = "challenge"]
        /\ UNCHANGED <<socket, chunks, held>>
     \/ client.kind = "inspect" /\ (EndWith("trusted") \/ EndWith("unavailable"))
     \/ EndWith("peer verification failed")
  /\ UNCHANGED <<wire, closed, sent>>

\* The callback of the write: it, the timeout and the end of the connection erase the request.
RequestWritten ==
  /\ client.written = "pending"
  /\ \E result \in {"yes", "failed"} :
       /\ socket = "destroyed" => result = "failed"
       /\ client' = [client EXCEPT !.written = result]
  /\ held' = held \ {"request"}
  /\ UNCHANGED <<socket, wire, closed, chunks, sent>>

\* Mistake: the length is taken for that of the whole frame.
CompleteEarly(bytes) == Len(bytes) >= 1 /\ Len(bytes) >= bytes[1]

\* What has been read has a whole frame in it, or says that it will be too large.
Complete(bytes) == Len(bytes) >= 1 /\ Len(bytes) >= bytes[1] + 1

TooLarge(bytes) ==
  \/ Len(bytes) > MaxBody + 1
  \/ bytes # <<>> /\ bytes[1] > MaxBody

\* The reader settles once and erases the chunks.
Settle(code, frame) ==
  /\ client' = [client EXCEPT !.at = "settled", !.outcome = code, !.frame = frame]
  /\ chunks' = <<>>
  /\ held' = (held \ {"chunks"}) \cup (IF frame = <<>> THEN {} ELSE {"frame"})

\* The first frame of what was read; subarray() gives less when there is less.
First(bytes) == SubSeq(bytes, 1, IF Len(bytes) > bytes[1] THEN bytes[1] + 1 ELSE Len(bytes))

\* readOneFrame: a chunk arrives, of any size.
Read ==
  /\ client.at = "exchange" /\ wire # <<>>
  /\ \E n \in 1..Len(wire) :
       LET bytes == chunks \o SubSeq(wire, 1, n) IN
       /\ wire' = SubSeq(wire, n + 1, Len(wire))
       /\ \/ TooLarge(bytes) /\ Settle("too large", <<>>) /\ socket' = "destroyed"
          \/ /\ ~TooLarge(bytes)
             /\ IF Complete(bytes) THEN Settle("none", First(bytes))
                ELSE chunks' = bytes /\ held' = held \cup {"chunks"} /\ UNCHANGED client
             /\ UNCHANGED socket
  /\ UNCHANGED <<closed, sent>>

\* The end of the stream, after all that was sent, or the loss of the connection.
ReadEnds ==
  /\ client.at = "exchange"
  /\ \/ closed /\ wire = <<>> /\ Settle("truncated", <<>>)
     \/ Settle("closed", <<>>)
  /\ UNCHANGED <<socket, wire, closed, sent>>

\* Promise.all waits for both and fails with the first failure; either way the frame is
\* erased, and so is all of a message that cannot be decoded.
Finish ==
  /\ client.at = "settled"
  /\ client.written # "pending" \/ client.outcome # "none"
  /\ IF client.outcome # "none" THEN EndWith(client.outcome)
     ELSE IF client.written = "failed" THEN EndWith("closed")
     ELSE IF ~WellFormed(client.frame) \/ client.frame[4] = Request THEN EndWith("corrupt")
     ELSE /\ client' = [client EXCEPT !.at = "ended", !.outcome = "answered",
                                      !.message = Decode(client.frame), !.frame = <<>>]
          /\ socket' = "destroyed" /\ chunks' = <<>>
          /\ held' = {"message"}   \* the caller's
  /\ UNCHANGED <<wire, closed, sent>>

\* readExact: the worker takes what arrives until it has the length of a signature, and
\* refuses more.
ReadSignature ==
  /\ client.at = "challenge"
  /\ \/ \E n \in 1..Len(wire) :
          LET bytes == chunks \o SubSeq(wire, 1, n) IN
          /\ wire' = SubSeq(wire, n + 1, Len(wire))
          /\ IF Len(bytes) < Len(Signature) THEN chunks' = bytes /\ UNCHANGED <<socket, client, held>>
             ELSE EndWith(IF bytes = Signature THEN "trusted" ELSE "corrupt")
     \/ EndWith("closed") /\ UNCHANGED wire
  /\ UNCHANGED <<closed, sent>>

-----------------------------------------------------------------------------
(* The peer: a daemon, or a broker that signs first.  It may answer, refuse *)
(* the connection with an error before it reads anything, and go away.      *)

Says(m, mask) ==
  /\ wire' = wire \o Encode(m, mask)
  /\ sent' = Encode(m, mask)

\* An answer that is too large for a frame becomes a failure.
Answer ==
  /\ client.at \in {"exchange", "settled"} /\ client.written = "yes" /\ sent = <<>> /\ ~closed
  /\ \E m \in Messages, mask \in {0, 1} :
       /\ m.kind # Request
       /\ Says(IF Fits(m) THEN m ELSE [kind |-> Failure, parts |-> <<>>], mask)
  /\ UNCHANGED <<socket, client, closed, chunks, held>>

Sign ==
  /\ client.at = "challenge" /\ wire = <<>> /\ chunks = <<>> /\ sent = <<>>
  /\ wire' = Signature /\ sent' = Signature
  /\ UNCHANGED <<socket, client, closed, chunks, held>>

\* The connections of the user, or all of them, are taken.
Refuse ==
  /\ client.at \in {"verify", "challenge", "exchange"} /\ sent = <<>> /\ ~closed
  /\ Says([kind |-> Failure, parts |-> <<>>], 0)
  /\ closed' = TRUE
  /\ UNCHANGED <<socket, client, chunks, held>>

\* The peer goes away, and the end of what it sent may be lost with it.
Leave ==
  /\ client.at \in {"verify", "challenge", "exchange"} /\ ~closed
  /\ closed' = TRUE
  /\ \E n \in 0..Len(wire) : wire' = SubSeq(wire, 1, n)
  /\ UNCHANGED <<socket, client, chunks, sent, held>>

Next ==
  \/ Connect \/ Verify \/ RequestWritten \/ Read \/ ReadEnds \/ Finish \/ ReadSignature
  \/ Answer \/ Sign \/ Refuse \/ Leave

Spec == Init /\ [][Next]_vars

-----------------------------------------------------------------------------
(* Properties.                                                              *)

\* Encoding and decoding give back every message, whatever the mask.
RoundTrip ==
  \A m \in Messages, mask \in {0, 1} :
    Fits(m) => WellFormed(Encode(m, mask)) /\ Decode(Encode(m, mask)) = m

\* No frame that was cut or is followed by more is taken for a message.
OnlyWhole(frame) ==
  /\ \A n \in 0..Len(frame) - 1 : ~WellFormed(SubSeq(frame, 1, n))
  /\ ~WellFormed(Append(frame, 0))

\* However it is cut into chunks, a client has the whole first message of its peer or an
\* error, and is told of a broken message only when the connection broke it.
WholeMessage ==
  /\ client.outcome = "answered" => \E mask \in {0, 1} : sent = Encode(client.message, mask)
  /\ client.outcome \notin {"corrupt", "too large"}
  /\ client.outcome = "truncated" => closed
  /\ client.kind = "worker" /\ client.outcome = "trusted" => sent = Signature

\* A client that is done has closed its connection, and of the bytes that passed through
\* it only those of the message it returns are left.  One whose request was too large is
\* stranded and leaves the connection to the peer.
NothingLeft ==
  client.at = "ended" =>
    /\ socket = "destroyed"
    /\ client.written # "pending" => held \subseteq {"message"}
    /\ "message" \in held => client.outcome = "answered"

FramesTrue == WholeMessage /\ OnlyWhole(sent) /\ NothingLeft
=============================================================================
