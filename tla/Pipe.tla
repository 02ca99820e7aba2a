-------------------------------- MODULE Pipe --------------------------------
(***************************************************************************)
(* The connection between a JS program and the language server in the      *)
(* runtime: start_lsp and the Reader and Writer that the server gets.      *)
(* Both directions are unbounded channels of chunks; the server reads      *)
(* into a buffer of its own size, and a task of the runtime hands what the *)
(* server writes to the program's callback.  The text that startLSP makes  *)
(* of the bytes is outside.                                                *)
(***************************************************************************)
EXTENDS Naturals, SequencesExt

CONSTANTS
  Byte,
  MaxChunk,     \* bound on the bytes of one message or one write
  MaxRead,      \* bound on the server's read buffer
  MaxSent,      \* bound on the bytes in the channel to the server
  MaxWritten,   \* bound on the bytes in the channel to the program
  EmptyMessages \* the program may send the empty string

ASSUME PipeAssumption ==
  /\ MaxChunk \in Nat /\ MaxRead \in Nat /\ MaxSent \in Nat /\ MaxWritten \in Nat
  /\ EmptyMessages \in BOOLEAN

VARIABLES
  toServer,  \* chunks in the channel tx_to_lsp to rx_from_js
  buffer,    \* buffer of the Reader
  pos,       \* pos of the Reader
  read,      \* what poll_read gave last
  asleep,    \* the server's task waits for the channel to wake it
  server,    \* "runs", "ended" by a read of 0 bytes, "returned" after that, or
             \* "stopped" by itself
  function,  \* the program has the function that start_lsp returned
  toJS,      \* chunks in the channel tx_to_js to rx_from_lsp
  shown,     \* the bytes that send_to_js was called with last
  forwards   \* the task that calls the callback is there

vars == <<toServer, buffer, pos, read, asleep, server, function, toJS, shown, forwards>>

incoming == <<toServer, buffer, pos, read, asleep>>
outgoing == <<toJS, shown, forwards>>

Chunks(from, to) == UNION {[1..n -> Byte] : n \in from..to}

TypeOK ==
  /\ \A c \in ToSet(toServer) \cup {buffer, read} : c \in Chunks(0, MaxChunk)
  /\ \A c \in ToSet(toJS) \cup {shown} : c \in Chunks(0, MaxChunk)
  /\ pos \in 0..Len(buffer)
  /\ asleep \in BOOLEAN /\ function \in BOOLEAN /\ forwards \in BOOLEAN
  /\ server \in {"runs", "ended", "returned", "stopped"}

Init ==
  /\ toServer = <<>> /\ buffer = <<>> /\ pos = 0 /\ read = <<>>
  /\ asleep = FALSE
  /\ server = "runs"
  /\ function = TRUE
  /\ toJS = <<>> /\ shown = <<>>
  /\ forwards = TRUE

-----------------------------------------------------------------------------
(* To the server.                                                          *)

\* The program calls the function: the channel wakes the reader.  Once the server is
\* gone the call panics and nothing changes.
SendToRust(chunk) ==
  /\ function
  /\ server = "runs"
  /\ chunk = <<>> => EmptyMessages
  /\ Len(FlattenSeq(toServer)) + Len(chunk) <= MaxSent
  /\ toServer' = Append(toServer, chunk)
  /\ asleep' = FALSE
  /\ UNCHANGED <<buffer, pos, read, server, function>> /\ UNCHANGED outgoing

\* The program drops the function, and with it the only sender.
DropFunction ==
  /\ function
  /\ function' = FALSE
  /\ asleep' = FALSE
  /\ UNCHANGED <<toServer, buffer, pos, read, server>> /\ UNCHANGED outgoing

Polls == server = "runs" /\ ~asleep

\* Mutation: one byte too late.
UsedUpLate == pos > Len(buffer)

UsedUp == pos >= Len(buffer)

\* n of poll_read: what fits of what is left after the first p bytes.
Count(from, p, n) == IF n < Len(from) - p THEN n ELSE Len(from) - p

\* Mutation: by the room in the read buffer.
AdvancedByRoom(from, p, n) == p + n

Advanced(from, p, n) == p + Count(from, p, n)

\* Mutation: the chunk is copied from its beginning.
CopiedFromStart(from, p, k) == SubSeq(from, 1, k)

Copied(from, p, k) == SubSeq(from, p + 1, p + k)

\* The common end of poll_read, for a read buffer of n bytes; a reader takes 0 bytes
\* for the end.
Copy(from, p, n) ==
  /\ buffer' = from
  /\ pos' = Advanced(from, p, n)
  /\ read' = Copied(from, p, Count(from, p, n))
  /\ server' = IF Count(from, p, n) = 0 THEN "ended" ELSE "runs"
  /\ UNCHANGED <<asleep, function>> /\ UNCHANGED outgoing

\* poll_read while the buffer has bytes left.
PollBuffered(n) ==
  /\ Polls /\ ~UsedUp
  /\ Copy(buffer, pos, n)
  /\ UNCHANGED toServer

\* Mutation: the chunk is kept for the next poll, which nobody calls for.
PollNextLater(n) ==
  /\ Polls /\ UsedUp /\ toServer # <<>>
  /\ buffer' = Head(toServer) /\ pos' = 0
  /\ toServer' = Tail(toServer)
  /\ asleep' = TRUE
  /\ UNCHANGED <<read, server, function>> /\ UNCHANGED outgoing

\* poll_read when the channel has a chunk.
PollNext(n) ==
  /\ Polls /\ UsedUp /\ toServer # <<>>
  /\ Copy(Head(toServer), 0, n)
  /\ toServer' = Tail(toServer)

\* poll_read when the channel is empty: the end, or Pending.
PollEmpty ==
  /\ Polls /\ UsedUp /\ toServer = <<>>
  /\ server' = IF function THEN "runs" ELSE "ended"
  /\ asleep' = function
  /\ UNCHANGED <<toServer, buffer, pos, read, function>> /\ UNCHANGED outgoing

\* create_lsp returns because the end was read.
ServerReturns ==
  /\ server = "ended"
  /\ server' = "returned"
  /\ UNCHANGED <<incoming, function>> /\ UNCHANGED outgoing

\* create_lsp returns by itself; the Reader goes and with it what it has not read.
ServerStops ==
  /\ server = "runs"
  /\ server' = "stopped"
  /\ asleep' = FALSE
  /\ UNCHANGED <<toServer, buffer, pos, read, function>> /\ UNCHANGED outgoing

-----------------------------------------------------------------------------
(* To the program.                                                         *)

\* create_lsp has not returned, so the Writer is there.
Serves == server \in {"runs", "ended"}

\* poll_write takes all it is given; the server may do so at any time.
PollWrite(chunk) ==
  /\ Serves
  /\ Len(FlattenSeq(toJS)) + Len(chunk) <= MaxWritten
  /\ toJS' = Append(toJS, chunk)
  /\ UNCHANGED incoming /\ UNCHANGED <<server, function, shown, forwards>>

\* The task calls the callback with the next chunk; that it throws is logged.
Forward ==
  /\ forwards
  /\ toJS # <<>>
  /\ shown' = Head(toJS)
  /\ toJS' = Tail(toJS)
  /\ UNCHANGED incoming /\ UNCHANGED <<server, function, forwards>>

\* The Writer went with the server and the channel has been emptied.
ForwardingEnds ==
  /\ forwards
  /\ toJS = <<>> /\ ~Serves
  /\ forwards' = FALSE
  /\ UNCHANGED incoming /\ UNCHANGED <<server, function, toJS, shown>>

-----------------------------------------------------------------------------
Poll == PollEmpty \/ \E n \in 1..MaxRead : PollBuffered(n) \/ PollNext(n)

Next ==
  \/ \E chunk \in Chunks(0, MaxChunk) : SendToRust(chunk)
  \/ \E chunk \in Chunks(1, MaxChunk) : PollWrite(chunk)
  \/ Poll \/ DropFunction \/ ServerReturns \/ ServerStops \/ Forward \/ ForwardingEnds

Spec == Init /\ [][Next]_vars

\* A task that is not asleep is polled again, and the server goes on reading.
FairSpec ==
  /\ Spec
  /\ WF_vars(Poll) /\ WF_vars(Forward \/ ForwardingEnds)

-----------------------------------------------------------------------------
(* Properties.                                                             *)

\* The server ends after a read of 0 bytes only when the program has dropped the
\* function and everything it sent was read.
EndIsTrue ==
  server \in {"ended", "returned"} => ~function /\ toServer = <<>> /\ UsedUp

ToServer == INSTANCE ByteStream WITH
  inFlight <- IF server = "stopped" THEN <<>>
              ELSE SubSeq(buffer, pos + 1, Len(buffer)) \o FlattenSeq(toServer),
  open <- function,
  last <- read,
  reader <- CASE server = "runs" -> "reads" [] server = "stopped" -> "gone" [] OTHER -> "atEnd"

ToProgram == INSTANCE ByteStream WITH
  inFlight <- FlattenSeq(toJS),
  open <- Serves,
  last <- shown,
  reader <- IF forwards THEN "reads" ELSE "atEnd"

\* AsyncRead, AsyncWrite and send_to_js: in both directions bytes arrive once and in
\* order, whatever their chunks and the sizes of the reads.
ImplementsByteStreams == ToServer!Spec /\ ToProgram!Spec

\* No message is left in a channel or in the Reader's buffer while its reader sleeps,
\* and both sides hear of the end.
EverythingArrives == ToServer!Arrives /\ ToProgram!Arrives
=============================================================================
