------------------------------- MODULE SocketIO -------------------------------
(****************************************************************************)
(* readSocket, writeSocket and writeFileSocket of src/src/utilities.cpp on  *)
(* a non-blocking socket: what one request coroutine does with its          *)
(* connection.  The peer and the kernel's side of the connection are part   *)
(* of the model.                                                            *)
(****************************************************************************)
EXTENDS CStrings, FiniteSetsExt

CONSTANTS
  BufferSize,   \* what one read may return, 1023 in the code
  ChunkSize,    \* what one sendfile may send, 10240 in the code
  MaxShort      \* how often the kernel may take a part of what it is given

ASSUME SocketAssumption ==
  BufferSize \in Nat \ {0} /\ ChunkSize \in Nat \ {0} /\ MaxShort \in Nat

VARIABLES
  said,         \* history: all the peer says
  coming,       \* what the peer has still to send
  incoming,     \* what has arrived and has not been read
  conn,         \* "open", "hung" by the peer, or "closed" by a listener
  buffer,       \* the array the text is read into, one longer than BufferSize
  result,       \* the text read so far
  reads,        \* history: the sizes of the reads
  text,         \* the text to be written
  total_bytes,  \* how much of it send has taken
  offset,       \* where sendfile goes on in the file
  wire,         \* what the peer has been sent
  short,        \* history: how often the kernel took less than it was given
  io            \* where the coroutine is

socketVars == <<said, coming, incoming, conn, buffer, result, reads, text,
                total_bytes, offset, wire, short, io>>

(* A connection on which all that the peer says, or a part, has arrived. *)
SocketInit(message, arrived) ==
  /\ said = message
  /\ incoming = SubSeq(message, 1, arrived)
  /\ coming = SubSeq(message, arrived + 1, Len(message))
  /\ conn = "open"
  /\ buffer = [i \in 1..(BufferSize + 1) |-> NUL]
  /\ result = <<>> /\ reads = <<>>
  /\ text = <<>> /\ total_bytes = 0 /\ offset = 0
  /\ wire = <<>> /\ short = 0
  /\ io = "reading"

-------------------------------------------------------------------------------
(* The peer, and the listener that watches the socket.  Neither matters     *)
(* while the text is parsed: what happens then happens before or after.     *)

Arrive ==
  /\ conn = "open" /\ coming # <<>> /\ io = "reading"
  /\ incoming' = incoming \o coming /\ coming' = <<>>
  /\ UNCHANGED <<said, conn, buffer, result, reads, text, total_bytes, offset, wire,
                 short, io>>

HangUp ==
  /\ conn = "open" /\ io # "read"
  /\ conn' = "hung"
  /\ UNCHANGED <<said, coming, incoming, buffer, result, reads, text, total_bytes,
                 offset, wire, short, io>>

CloseSocket ==
  /\ conn = "hung" /\ io # "read"
  /\ conn' = "closed"
  /\ UNCHANGED <<said, coming, incoming, buffer, result, reads, text, total_bytes,
                 offset, wire, short, io>>

-------------------------------------------------------------------------------
(* readSocket *)

(* Mutant: the text of the last read only. *)
LastRead(t) == t

Appended(t) == result \o t

(* read returns n > 0: the buffer is appended up to its first terminator,   *)
(* and then only its first character is cleared, because bytes is never     *)
(* set: what a longer read left behind a shorter one is appended again.     *)
Read ==
  /\ io = "reading" /\ conn # "closed" /\ incoming # <<>>
  /\ LET n == Min({Len(incoming), BufferSize})
         filled == [i \in DOMAIN buffer |-> IF i <= n THEN incoming[i] ELSE buffer[i]]
     IN  /\ result' = Appended(CString(filled, 1))
         /\ buffer' = [filled EXCEPT ![1] = NUL]
         /\ incoming' = SubSeq(incoming, n + 1, Len(incoming))
         /\ reads' = Append(reads, n)
  /\ UNCHANGED <<said, coming, conn, text, total_bytes, offset, wire, short, io>>

(* Mutant: only a socket that would block ends the loop. *)
ReadEndsBlocked ==
  /\ io = "reading" /\ conn = "open" /\ incoming = <<>>
  /\ io' = "read"
  /\ UNCHANGED <<said, coming, incoming, conn, buffer, result, reads, text, total_bytes,
                 offset, wire, short>>

(* read returns -1: there is nothing to read, or the descriptor is closed.  *)
(* At the end of file it returns 0, an empty string is appended and the     *)
(* loop goes on, to no effect, until a listener closes the socket.          *)
ReadEnds ==
  /\ io = "reading"
  /\ conn = "closed" \/ (conn = "open" /\ incoming = <<>>)
  /\ io' = "read"
  /\ UNCHANGED <<said, coming, incoming, conn, buffer, result, reads, text, total_bytes,
                 offset, wire, short>>

-------------------------------------------------------------------------------
(* writeSocket *)

BeginWrite(t) ==
  /\ io = "read"
  /\ text' = t /\ io' = "sending"
  /\ UNCHANGED <<said, coming, incoming, conn, buffer, result, reads, total_bytes,
                 offset, wire, short>>

(* Mutant: the loop ends when more than the text has been sent. *)
WritingOnceMore == io = "sending" /\ total_bytes <= Len(text)

Writing == io = "sending" /\ total_bytes < Len(text)

(* What send(fd, buffer, size) sends when it takes n: always from the       *)
(* beginning.                                                               *)
Sent(n) == SubSeq(text, 1, n)

Send ==
  /\ Writing /\ conn # "closed"
  /\ \E n \in 1..Len(text) :
       /\ wire' = wire \o Sent(n)
       /\ total_bytes' = total_bytes + n
       /\ n = Len(text) \/ short < MaxShort
       /\ short' = IF n < Len(text) THEN short + 1 ELSE short
  /\ UNCHANGED <<said, coming, incoming, conn, buffer, result, reads, text, offset, io>>

(* send returns -1: the socket takes nothing more, or is closed. *)
SendFails ==
  /\ Writing
  /\ short' = short + 1 /\ io' = "sent"
  /\ UNCHANGED <<said, coming, incoming, conn, buffer, result, reads, text, total_bytes,
                 offset, wire>>

SendEnds ==
  /\ io = "sending" /\ ~ Writing
  /\ io' = "sent"
  /\ UNCHANGED <<said, coming, incoming, conn, buffer, result, reads, text, total_bytes,
                 offset, wire, short>>

-------------------------------------------------------------------------------
(* writeFileSocket, of a file that has size bytes by now *)

BeginFile ==
  /\ io = "sent" /\ io' = "sendfile"
  /\ UNCHANGED <<said, coming, incoming, conn, buffer, result, reads, text, total_bytes,
                 offset, wire, short>>

(* Mutant: every call begins at the beginning of the file. *)
OffsetStays(n) == UNCHANGED offset

OffsetMoves(n) == offset' = offset + n

FileBytes(from, n) == [i \in 1..n |-> <<"file", from + i>>]

SendFile(size) ==
  /\ io = "sendfile" /\ conn # "closed" /\ offset < size
  /\ \E n \in 1..Min({ChunkSize, size - offset}) :
       /\ wire' = wire \o FileBytes(offset, n)
       /\ OffsetMoves(n)
  /\ UNCHANGED <<said, coming, incoming, conn, buffer, result, reads, text, total_bytes,
                 short, io>>

(* sendfile returns 0 at the end of the file, or fails. *)
SendFileEnds(size) ==
  /\ io = "sendfile"
  /\ short' = IF offset < size THEN short + 1 ELSE short
  /\ io' = "done"
  /\ UNCHANGED <<said, coming, incoming, conn, buffer, result, reads, text, total_bytes,
                 offset, wire>>

NoFile ==
  /\ io = "sent" /\ io' = "done"
  /\ UNCHANGED <<said, coming, incoming, conn, buffer, result, reads, text, total_bytes,
                 offset, wire, short>>
===============================================================================
