----------------------------- MODULE RequestPath ------------------------------
(****************************************************************************)
(* One request from the first byte read to the last byte written: the       *)
(* lambda of TCPServer::EPoll::wait (src/src/EPoll.cpp) and handleRequest   *)
(* (src/src/TCPServer.cpp) around HTTPUnit and SocketIO.  The string the    *)
(* lambda reads into is the one parseRequest modifies; result keeps what    *)
(* was read, and raw_request is the string from then on.                    *)
(*                                                                          *)
(* The file system may change while a request is looking at it.             *)
(****************************************************************************)
EXTENDS HTTPUnit, SocketIO

CONSTANTS
  Messages,     \* what peers say, and how much of it arrives first
  MaxChanges    \* how often a file is removed, created or resized

ASSUME PathAssumption ==
  /\ NUL \notin Char /\ MaxChanges \in Nat
  /\ \A m \in Messages : m[1] \in Seq(Char \cup {NUL}) /\ m[2] \in 0..Len(m[1])
  /\ \A piece \in Pieces : Separator(piece) \in Separators

VARIABLES
  fd,           \* the descriptor of the answer's file: its state, the size of
                \* the file, and whether the file still has its name
  absent,       \* history: the names that were absent at some time
  changes       \* how many changes there have been

vars == <<parseVars, httpVars, socketVars, fd, absent, changes>>

Missing == {n \in Names : files[n] = Absent}

Init ==
  /\ Idle /\ HTTPInit
  /\ \E m \in Messages : SocketInit(m[1], m[2])
  /\ fd = [state |-> "none", size |-> 0, linked |-> FALSE]
  /\ absent = Missing /\ changes = 0

(* A descriptor stays with its file, whatever becomes of the name. *)
Follow(n, s) ==
  fd' = IF fd.linked /\ n = response.file
          THEN IF s = Absent THEN [fd EXCEPT !.linked = FALSE]
                             ELSE [fd EXCEPT !.size = s]
          ELSE fd

(* Others change the file system.  Only stat, open and sendfile look at it, *)
(* so it matters only from then on.                                         *)
ChangeFile ==
  /\ changes < MaxChanges
  /\ parsing \in {"find", "open"} \/ io = "sendfile"
  /\ \E n \in Names, s \in Sizes \cup {Absent} :
       /\ s # files[n]
       /\ files' = [files EXCEPT ![n] = s]
       /\ absent' = absent \cup IF s = Absent THEN {n} ELSE {}
       /\ Follow(n, s)
  /\ changes' = changes + 1
  /\ UNCHANGED <<parseVars, raw_request, c_str, next_line, request, response,
                 form, named, parsing, socketVars>>

External ==
  /\ Arrive \/ HangUp \/ CloseSocket
  /\ UNCHANGED <<parseVars, httpVars, fd, absent, changes>>

(* readSocket, and the call of parseRequest. *)
ReadStep ==
  /\ Read \/ ReadEnds
  /\ UNCHANGED <<parseVars, httpVars, fd, absent, changes>>

BeginParse ==
  /\ io = "read"
  /\ parseRequest(result)
  /\ UNCHANGED <<socketVars, fd, absent, changes>>

Parse ==
  /\ HTTPStep
  /\ fd' = IF parsing' = "done" /\ response'.type = "file"
             THEN [state |-> "open", size |-> response'.length, linked |-> TRUE]
             ELSE fd
  /\ UNCHANGED <<socketVars, absent, changes>>

(* The status line and the headers in the order of their names, and, unless *)
(* it is a file, the body.  A unit of text is a line or a byte of the body. *)
getResponseHeaders(r) ==
  << <<r.status, 0>>, <<"Content-Length", r.length>> >>
    \o (IF r.mime = "none" THEN <<>> ELSE << <<r.mime, 0>> >>)
    \o << <<"Server: tcerver", 0>>, <<"\n", 0>> >>

BodyBytes(n) == [i \in 1..n |-> <<"body", i>>]

handleRequest ==
  /\ parsing = "done"
  /\ BeginWrite(getResponseHeaders(response) \o
                  IF response.type = "file" THEN <<>> ELSE BodyBytes(response.body))
  /\ UNCHANGED <<parseVars, httpVars, fd, absent, changes>>

Closed == fd' = [fd EXCEPT !.state = "closed"]

(* Mutant: the file is closed only if something of it was sent. *)
CloseIfSent == IF offset > 0 THEN Closed ELSE UNCHANGED fd

Close == Closed

WriteStep ==
  /\ \/ Send /\ UNCHANGED fd
     \/ SendFails /\ UNCHANGED fd
     \/ SendEnds /\ UNCHANGED fd
     \/ fd.state = "none" /\ NoFile /\ UNCHANGED fd
     \/ fd.state = "open" /\ BeginFile /\ UNCHANGED fd
     \/ SendFile(fd.size) /\ UNCHANGED fd
     \/ SendFileEnds(fd.size) /\ Close
  /\ UNCHANGED <<parseVars, httpVars, absent, changes>>

CoroutineStep == ReadStep \/ BeginParse \/ Parse \/ handleRequest \/ WriteStep

Next == ChangeFile \/ External \/ CoroutineStep

(* The coroutine runs; a listener closes a socket whose peer has hung up.   *)
(* The peer need not say anything.                                          *)
Spec ==
  /\ Init /\ [][Next]_vars
  /\ WF_vars(CoroutineStep)
  /\ WF_vars(CloseSocket /\ UNCHANGED <<parseVars, httpVars, fd, absent, changes>>)

-------------------------------------------------------------------------------
(* What a request is, independently of how it is parsed. *)

(* The request line: method up to the first blank at i, path up to the next *)
(* at j, version up to the line break at k.                                 *)
RequestLine(t, i, j, k) ==
  /\ i < j /\ j < k
  /\ t[i] = " " /\ t[j] = " " /\ t[k] = "\n"
  /\ \A p \in 1..(j - 1) : t[p] = " " => p = i
  /\ \A p \in (j + 1)..(k - 1) : t[p] # "\n"

(* The line after the break at a, up to the one at b. *)
IsLine(t, a, b) ==
  t[a] = "\n" /\ t[b] = "\n" /\ \A p \in (a + 1)..(b - 1) : t[p] # "\n"

(* It has the form key: value, with the first colon and blank at c. *)
HeaderLine(t, a, b, c) ==
  /\ c \in (a + 1)..(b - 2) /\ OccursAt(t, <<":", " ">>, c - 1)
  /\ \A p \in (a + 1)..(c - 1) : ~ OccursAt(t, <<":", " ">>, p - 1)

(* The header ends with the line break at e: the first line after k that    *)
(* is only "\r".                                                            *)
HeaderEnd(t, k, e) ==
  /\ e \in (k + 2)..Len(t) /\ SubSeq(t, e - 2, e) = <<"\n", "\r", "\n">>
  /\ \A p \in (k + 2)..(e - 1) : SubSeq(t, p - 2, p) # <<"\n", "\r", "\n">>

(* The header lines between, as the places of their breaks and colons. *)
HeaderLines(t, k, e) ==
  LET breaks == {i \in k..(e - 2) : t[i] = "\n"}
      colons == {i \in k..(e - 2) : t[i] = ":"}
  IN  {x \in breaks \X breaks \X colons :
         x[1] < x[2] /\ IsLine(t, x[1], x[2]) /\ HeaderLine(t, x[1], x[2], x[3])}

(* The ways of reading t as a request: there is one or none. *)
Readings(t) ==
  LET blanks == {i \in 1..Len(t) : t[i] = " "}
      breaks == {i \in 1..Len(t) : t[i] = "\n"}
  IN  {r \in [i : blanks, j : blanks, k : breaks, e : breaks] :
         RequestLine(t, r.i, r.j, r.k) /\ HeaderEnd(t, r.k, r.e)}

WellFormed(t, r) ==
  \A a, b \in r.k..(r.e - 2) :
    a < b /\ IsLine(t, a, b) => \E c \in a..b : HeaderLine(t, a, b, c)

Accepted == parsing = "accepted"

Rejected == parsing = "done" /\ at = "returned" /\ ret = -1

(* parseRequest accepts exactly the texts that can be read as a request,    *)
(* and takes from them the pieces the reading says; of several headers with *)
(* one key it keeps the first (HTTPUnit.cpp 108-164).                       *)
ParsedAsWritten ==
  LET t == result
      readings == {r \in Readings(t) : WellFormed(t, r)}
  IN  /\ Rejected /\ io = "read" => readings = {}
      /\ Accepted => \E r \in readings :
           /\ request.method = SubSeq(t, 1, r.i - 1)
           /\ request.path = SubSeq(t, r.i + 1, r.j - 1)
           /\ request.protocol = SubSeq(t, r.j + 1, r.k - 1)
           /\ ViewText(request.raw_body) = SubSeq(t, r.e + 1, Len(t))
           /\ LET lines == HeaderLines(t, r.k, r.e)
                  Key(x) == SubSeq(t, x[1] + 1, x[3] - 1)
                  first == {x \in lines : \A y \in lines :
                              Key(x) = Key(y) => x[1] <= y[1]}
              IN  {<<ViewText(h.key), ViewText(h.val)>> : h \in ToSet(request.headers)}
                    = {<<Key(x), SubSeq(t, x[3] + 2, x[2] - 1)>> : x \in first}

(* No view into the string has a terminator in it: what is written over the *)
(* separators never falls into a piece already taken, and what is found in  *)
(* the body, even through the dangling view of handleMethod, lies in it.    *)
ViewsAreIntact ==
  LET views == {request.raw_body} \cup ToSet(request.parts)
                 \cup UNION {{h.key, h.val} : h \in ToSet(request.headers)}
  IN  \A v \in views : \A p \in v[1]..v[2] :
        p \in DOMAIN raw_request /\ raw_request[p] # NUL

(* "return the key:val pairs contained. Example: /index.html?aaa=bbb&xxx=yyy*)
(* would return {"aaa":"bbb, "xxx":"yyy"}" (HTTPUnit.hpp 25-41): if what    *)
(* follows the only "?" of a path is a list of pairs, and no "=" precedes   *)
(* it, args has these pairs.                                                *)
ArgsAsDocumented ==
  LET p == request.path
      marks == {i \in DOMAIN p : p[i] = "?"}
      pairs == {i \in DOMAIN p : p[i] = "="}
      words == {i \in DOMAIN p : p[i] \notin {"?", "="} \cup Delimiters}
      IsList(q) == /\ (Len(p) - q) % 4 = 3
                   /\ \A i \in pairs : i > q
                   /\ \A i \in (q + 1)..Len(p) :
                        CASE (i - q) % 2 = 1 -> i \in words
                          [] (i - q) % 4 = 2 -> i \in pairs
                          [] OTHER -> p[i] = "&"
  IN  Accepted =>
        \A q \in marks : marks = {q} /\ IsList(q) =>
          /\ DOMAIN request.args = {<<p[i - 1]>> : i \in pairs}
          /\ \A i \in pairs :
               \/ request.args[<<p[i - 1]>>] = <<p[i + 1]>>
               \/ \E x \in pairs : x > i /\ p[x - 1] = p[i - 1]

(* A file that was there from the lookup on is served, whatever happens to  *)
(* the others between stat and open.                                        *)
PresentFileIsServed ==
  parsing = "done" /\ ~ Rejected /\ Unbound
    => \A n \in NamesIn(request.path) :
         NamesIn(request.path) = {n} /\ n \in Names \ absent
           => response.type = "file" /\ response.file = n

(* What readSocket returns is what was read if no read was shorter than the *)
(* one before it; otherwise a part of the text comes twice.                 *)
ReadExact ==
  (\A i \in 1..(Len(reads) - 1) : reads[i] <= reads[i + 1])
    => result \o incoming \o coming = said

IsFileByte(u) == u[1] = "file"

(* The bytes of a file arrive in order, none twice and none left out, and   *)
(* no text arrives between or after them, however the socket cuts them.     *)
FileInOrder ==
  \E k \in 0..Len(wire) :
    /\ \A i \in 1..k : ~ IsFileByte(wire[i])
    /\ \A i \in (k + 1)..Len(wire) : wire[i] = <<"file", i - k>>

(* If the kernel takes all it is given and the file does not change, the    *)
(* peer gets the headers once and then as many bytes as Content-Length says.*)
AnswerIsFramed ==
  io = "done" /\ short = 0 /\ changes = 0 =>
    LET head == getResponseHeaders(response)
    IN  /\ SubSeq(wire, 1, Len(head)) = head
        /\ Len(wire) - Len(head) = response.length

(* The descriptor an answer opened is closed when the coroutine ends, even  *)
(* when nothing could be sent.                                              *)
NoFileIsLeftOpen == io = "done" => fd.state # "open"

(* The coroutine ends, although it reads at end of file until the socket is *)
(* closed, and searches a body it no longer has.                            *)
RequestEnds == <>(io = "done")
===============================================================================
