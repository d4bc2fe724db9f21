--------------------------- MODULE RequestPathProofs ---------------------------
(****************************************************************************)
(* Theorems about RequestPath, for all messages, names, sizes of files and  *)
(* of buffers, and however the kernel cuts what is read and written.        *)
(****************************************************************************)
EXTENDS RequestPath, SequenceTheorems, WellFoundedInduction, TLAPS

(* Where the coroutine is: the parser runs between reading and writing, and *)
(* the file of an answer is open from then until the coroutine ends.        *)
Control ==
  /\ parsing \in {"idle", "accepted", "form", "find", "open", "done"} \cup Pieces
  /\ io \in {"reading", "read", "sending", "sent", "sendfile", "done"}
  /\ parsing \notin {"idle", "done"} => io = "read"
  /\ parsing = "idle" => io \in {"reading", "read"}
  /\ at = "loop" => parsing \in Pieces
  /\ parsing # "done" => fd.state = "none"
  /\ fd.state \in {"none", "open", "closed"}
  /\ io = "sendfile" => fd.state = "open"
  /\ io = "done" => fd.state # "open"
  /\ fd = [state |-> fd.state, size |-> fd.size, linked |-> fd.linked]

(* What a step of the parser does to its place.                             *)
LEMMA ParserMoves ==
  ASSUME Control, HTTPStep
  PROVE  /\ parsing # "done" /\ parsing # "idle"
         /\ parsing' \in {"accepted", "form", "find", "open", "done"} \cup Pieces
         /\ at' = "loop" => parsing' \in Pieces
<1>1. CASE ParseStep /\ UNCHANGED httpVars
  BY <1>1 DEF Control, ParseStep, httpVars, Match, Matches, Restart, Mismatch, InLoop,
              NotFound, Pieces
<1>2. ASSUME NEW piece \in DOMAIN Following, dispatchHTTP(piece)
      PROVE  /\ parsing # "done" /\ parsing # "idle"
             /\ parsing' \in Pieces
  BY <1>2 DEF dispatchHTTP, ParseFrom, Following, Pieces
<1>3. CASE TakeLine
  BY <1>3 DEF TakeLine, Found, ParseFrom, Pieces, parseVars
<1>4. CASE TakeHeader \/ Reject
  BY <1>4 DEF TakeHeader, Reject, ParseFrom, Pieces, parseVars
<1>5. CASE handleMethod
  BY <1>5 DEF handleMethod, ParseForm, BeginParts, IgnoreBody, NoMorePart, TakePart,
              parseVars, Control, Pieces
<1>6. CASE findHandler \/ defaultFileFounder
  BY <1>6 DEF findHandler, CallHandler, defaultPage, Stat, defaultFileFounder, parseVars,
              Control, Pieces
<1> QED BY <1>1, <1>2, <1>3, <1>4, <1>5, <1>6 DEF HTTPStep

(* The request keeps its fields. *)
Fields == DOMAIN request = DOMAIN NewRequest

LEMMA FieldsStep == Fields /\ [Next]_vars => Fields'
<1> SUFFICES ASSUME Fields, [Next]_vars PROVE Fields'
  OBVIOUS
<1>1. \/ UNCHANGED request
      \/ \E f, v : request' = [request EXCEPT ![f] = v]
      \/ \E b, a : request' = [request EXCEPT !.raw_body = b, !.args = a]
  <2>1. CASE ChangeFile \/ External \/ ReadStep \/ BeginParse \/ handleRequest \/ WriteStep
    BY <2>1 DEF ChangeFile, External, ReadStep, BeginParse, parseRequest, handleRequest,
                WriteStep, httpVars
  <2>2. CASE Parse
    <3>1. CASE ParseStep /\ UNCHANGED httpVars
      BY <3>1 DEF httpVars
    <3>2. ASSUME NEW piece \in DOMAIN Following, dispatchHTTP(piece)
          PROVE  \E f, v : request' = [request EXCEPT ![f] = v]
      BY <3>2 DEF dispatchHTTP
    <3>3. CASE TakeLine \/ TakeHeader \/ Reject
      BY <3>3 DEF TakeLine, TakeHeader, Reject
    <3>4. CASE handleMethod
      BY <3>4 DEF handleMethod, ParseForm, BeginParts, IgnoreBody, NoMorePart, TakePart
    <3>5. CASE findHandler \/ defaultFileFounder
      BY <3>5 DEF findHandler, CallHandler, defaultPage, Stat, defaultFileFounder
    <3> QED BY <2>2, <3>1, <3>2, <3>3, <3>4, <3>5 DEF Parse, HTTPStep
  <2>3. CASE UNCHANGED vars
    BY <2>3 DEF vars, httpVars
  <2> QED BY <2>1, <2>2, <2>3 DEF Next, CoroutineStep
<1> QED BY <1>1 DEF Fields

LEMMA ControlInit == Init => Control
BY DEF Init, Idle, HTTPInit, SocketInit, Control, Pieces

LEMMA ControlStep == Control /\ [Next]_vars => Control'
<1> SUFFICES ASSUME Control, [Next]_vars PROVE Control'
  OBVIOUS
<1> USE DEF Control, Pieces
<1>1. CASE ChangeFile
  BY <1>1 DEF ChangeFile, Follow, socketVars, parseVars
<1>2. CASE External
  BY <1>2 DEF External, Arrive, HangUp, CloseSocket, parseVars, httpVars
<1>3. CASE ReadStep
  BY <1>3 DEF ReadStep, Read, ReadEnds, parseVars, httpVars
<1>4. CASE BeginParse
  BY <1>4 DEF BeginParse, parseRequest, ParseFrom, socketVars
<1>5. CASE Parse
  <2>1. UNCHANGED io BY <1>5 DEF Parse, socketVars
  <2>2. parsing' # "done" => UNCHANGED fd BY <1>5 DEF Parse
  <2>3. parsing' = "done" => fd' \in {fd, [state |-> "open", size |-> response'.length, linked |-> TRUE]}
    BY <1>5 DEF Parse
  <2> QED BY <1>5, <2>1, <2>2, <2>3, ParserMoves DEF Parse
<1>6. CASE handleRequest
  BY <1>6 DEF handleRequest, BeginWrite, parseVars, httpVars
<1>7. CASE WriteStep
  BY <1>7 DEF WriteStep, Send, SendFails, SendEnds, NoFile, BeginFile, SendFile,
              SendFileEnds, Close, Closed, Writing, parseVars, httpVars
<1>8. CASE UNCHANGED vars
  BY <1>8 DEF vars, parseVars, httpVars, socketVars
<1> QED BY <1>1, <1>2, <1>3, <1>4, <1>5, <1>6, <1>7, <1>8 DEF Next, CoroutineStep

LEMMA ControlAlways == Spec => []Control
BY ControlInit, ControlStep, PTL DEF Spec

(* However a request ends, the descriptor its answer opened is closed.      *)
THEOREM FilesAreClosed == Spec => []NoFileIsLeftOpen
<1>1. Control => NoFileIsLeftOpen
  BY DEF Control, NoFileIsLeftOpen
<1> QED BY <1>1, ControlAlways, PTL

-------------------------------------------------------------------------------
(* Files *)

(* A name that is absent is in the history, and the name to be opened is    *)
(* one that the path may stand for.                                         *)
LookedUp ==
  /\ DOMAIN files = Names
  /\ \A n \in Names : files[n] = Absent => n \in absent
  /\ parsing = "open" => named \in NamesIn(request.path)

FileInv == LookedUp /\ PresentFileIsServed

LEMMA Literals ==
  ASSUME NEW S, NEW x \in S, NEW y \in S, NEW z \in S
  PROVE  <<x>> \in Seq(S) /\ Len(<<x>>) = 1 /\ <<x>>[1] = x /\ <<x, y, z>> \in Seq(S)
OBVIOUS

LEMMA Prefixed ==
  ASSUME NEW S, NEW s \in Seq(S), Len(s) = 1, NEW t \in Seq(S)
  PROVE  s \o t # <<>> /\ Tail(s \o t) = t
<1>0. /\ s \o t \in Seq(S) /\ Len(s \o t) = 1 + Len(t) /\ Len(t) \in Nat
      /\ \A i \in 1..(1 + Len(t)) : (s \o t)[i] = IF i <= 1 THEN s[i] ELSE t[i - 1]
  <2>1. /\ s \o t \in Seq(S) /\ Len(s \o t) = Len(s) + Len(t)
        /\ \A i \in 1..(Len(s) + Len(t)) :
             (s \o t)[i] = IF i <= Len(s) THEN s[i] ELSE t[i - Len(s)]
    BY ConcatProperties, Zenon
  <2>2. Len(t) \in Nat
    OBVIOUS
  <2> QED BY <2>1, <2>2
<1>1. s \o t # <<>> /\ s \o t \in Seq(S) /\ Len(s \o t) = 1 + Len(t)
      /\ \A i \in 1..Len(t) : (s \o t)[i + 1] = t[i]
  <2>1. \A i \in 1..Len(t) : i + 1 \in 1..(1 + Len(t)) /\ ~ (i + 1 <= 1) /\ (i + 1) - 1 = i
    BY <1>0
  <2> QED BY <1>0, <2>1, EmptySeq
<1>2. /\ Tail(s \o t) \in Seq(S) /\ Len(Tail(s \o t)) = Len(t)
      /\ \A i \in 1..Len(t) : Tail(s \o t)[i] = t[i]
  BY <1>1, HeadTailProperties
<1> QED BY <1>1, <1>2, SeqEqual

(* What has been served stays so. *)
LEMMA ServedStays ==
  ASSUME PresentFileIsServed, UNCHANGED <<parsing, at, ret, request, response>>,
         absent \subseteq absent'
  PROVE  PresentFileIsServed'
BY DEF PresentFileIsServed, Rejected, Unbound, url_map_, NamesIn

LEMMA FileStep == Control /\ Fields /\ FileInv /\ [Next]_vars => FileInv'
<1> SUFFICES ASSUME Control, Fields, LookedUp, PresentFileIsServed, [Next]_vars PROVE FileInv'
  BY DEF FileInv
<1>a. ASSUME UNCHANGED <<parsing, at, ret, request, response, files, absent, named>>
      PROVE  FileInv'
  BY <1>a, ServedStays DEF FileInv, LookedUp, NamesIn
<1>1. CASE ChangeFile
  <2>1. UNCHANGED <<parsing, at, ret, request, response, named>> /\ absent \subseteq absent'
    BY <1>1 DEF ChangeFile, parseVars
  <2>2. LookedUp'
    BY <1>1, <2>1 DEF ChangeFile, LookedUp, NamesIn
  <2> QED BY <2>1, <2>2, ServedStays DEF FileInv
<1>2. CASE External \/ ReadStep \/ handleRequest \/ WriteStep
  BY <1>a, <1>2 DEF External, ReadStep, handleRequest, WriteStep, parseVars, httpVars
<1>3. CASE BeginParse
  BY <1>3 DEF BeginParse, parseRequest, ParseFrom, FileInv, LookedUp, PresentFileIsServed
<1>4. CASE Parse
  <2>0. UNCHANGED <<absent, files>>
    BY <1>4 DEF Parse, HTTPStep, httpVars, dispatchHTTP, TakeLine, TakeHeader, Reject,
                handleMethod, findHandler, defaultFileFounder
  <2>1. CASE parsing' \notin {"open", "done"}
    BY <2>0, <2>1 DEF LookedUp, PresentFileIsServed, FileInv
  <2>2. CASE ParseStep /\ UNCHANGED httpVars
    <3>1. at = "loop"
      BY <2>2 DEF ParseStep, Match, Matches, Restart, Mismatch, InLoop, NotFound
    <3>2. parsing' \notin {"open", "done"}
      BY <2>2, <3>1 DEF Control, Pieces, httpVars
    <3> QED BY <2>1, <3>2
  <2>3. CASE \/ \E piece \in DOMAIN Following : dispatchHTTP(piece)
             \/ TakeLine \/ TakeHeader \/ handleMethod
    <3>1. parsing' \notin {"open", "done"}
      BY <2>3 DEF dispatchHTTP, Following, TakeLine, TakeHeader, ParseFrom, Pieces,
                  handleMethod, ParseForm, BeginParts, IgnoreBody, NoMorePart, TakePart
    <3> QED BY <2>1, <3>1
  <2>4. CASE Reject
    BY <2>0, <2>4 DEF Reject, parseVars, FileInv, LookedUp, PresentFileIsServed, Rejected
  <2>5. CASE findHandler
    <3>1. CASE CallHandler
      BY <2>0, <2>5, <3>1
         DEF findHandler, CallHandler, FileInv, LookedUp, PresentFileIsServed, Unbound,
             url_map_
    <3>2. CASE defaultPage
      <4>1. parsing' = "open" /\ named' = <<"index", ".", "html">>
        BY <3>2 DEF defaultPage
      <4>2. request.path = <<"/">>
        BY <3>2 DEF defaultPage, Unbound, url_map_
      <4>3. request'.path = <<"/">> \o <<"index", ".", "html">>
        <5>1. "path" \in DOMAIN request
          BY DEF Fields, NewRequest
        <5> QED BY <3>2, <4>2, <5>1 DEF defaultPage
      <4>4. named' \in NamesIn(request'.path)
        <5> DEFINE S == {"/", "index", ".", "html"}
        <5>1. "/" \in S /\ "index" \in S /\ "." \in S /\ "html" \in S
          OBVIOUS
        <5> HIDE DEF S
        <5>2. <<"/">> \in Seq(S) /\ Len(<<"/">>) = 1 /\ <<"index", ".", "html">> \in Seq(S)
          BY <5>1, Literals, Zenon
        <5>3. request'.path # <<>> /\ Tail(request'.path) = <<"index", ".", "html">>
          BY <4>3, <5>2, Prefixed, Zenon
        <5> QED BY <4>1, <5>3 DEF NamesIn
      <4> QED BY <2>0, <4>1, <4>4 DEF FileInv, LookedUp, PresentFileIsServed, NamesIn
    <3>3. CASE Stat
      <4>1. PICK name \in NamesIn(request.path) :
              /\ named' = name /\ UNCHANGED request
              /\ IF Exists(name)
                   THEN parsing' = "open"
                   ELSE parsing' = "done" /\ response' = notFoundHandler
        BY <3>3 DEF Stat
      <4>2. ~ Exists(name) => name \notin Names \ absent
        BY DEF Exists, LookedUp
      <4>3. LookedUp'
        BY <2>0, <4>1 DEF LookedUp, NamesIn
      <4>4. PresentFileIsServed'
        BY <2>0, <4>1, <4>2 DEF PresentFileIsServed, NamesIn
      <4> QED BY <4>3, <4>4 DEF FileInv
    <3> QED BY <2>5, <3>1, <3>2, <3>3 DEF findHandler
  <2>6. CASE defaultFileFounder
    <3>1. named \in NamesIn(request.path) /\ UNCHANGED <<named, request>> /\ parsing' = "done"
      BY <2>6 DEF defaultFileFounder, LookedUp
    <3>2. ~ Exists(named) => named \notin Names \ absent
      BY DEF Exists, LookedUp
    <3>3. Exists(named) => response'.type = "file" /\ response'.file = named
      BY <2>6 DEF defaultFileFounder, NewText
    <3> QED BY <2>0, <3>1, <3>2, <3>3 DEF FileInv, LookedUp, PresentFileIsServed, NamesIn
  <2> QED BY <1>4, <2>2, <2>3, <2>4, <2>5, <2>6 DEF Parse, HTTPStep
<1>5. CASE UNCHANGED vars
  BY <1>a, <1>5 DEF vars, parseVars, httpVars
<1> QED BY <1>1, <1>2, <1>3, <1>4, <1>5 DEF Next, CoroutineStep

(* A file that is there from the lookup on is served, whatever happens to   *)
(* others between stat and open.                                            *)
THEOREM PresentFilesAreServed == Spec => []PresentFileIsServed
<1>1. Init => FileInv
  BY DEF Init, HTTPInit, Missing, FileInv, LookedUp, PresentFileIsServed
<1>2. FileInv => PresentFileIsServed
  BY DEF FileInv
<1>3. Init => Fields
  BY DEF Init, HTTPInit, Fields
<1> QED BY <1>1, <1>2, <1>3, FileStep, FieldsStep, ControlAlways, PTL DEF Spec
-------------------------------------------------------------------------------
(* Reading *)

Bytes == Char \cup {NUL}

(* A set of natural numbers that has an element has a least one.            *)
LEMMA Least ==
  ASSUME NEW T, T \subseteq Nat, T # {}
  PROVE  \E x \in T : \A y \in T : x <= y
<1>1. IsWellFoundedOn(OpToRel(<, Nat), Nat)
  BY NatLessThanWellFounded
<1>2. PICK x \in T : \A y \in T : ~ (<<y, x>> \in OpToRel(<, Nat))
  BY <1>1, WFMin, Zenon
<1>3. ASSUME NEW y \in T PROVE x <= y
  <2>1. ~ (<<y, x>> \in OpToRel(<, Nat)) BY <1>2
  <2>2. x \in Nat /\ y \in Nat OBVIOUS
  <2>3. ~ (y < x) BY <2>1, <2>2 DEF OpToRel
  <2> QED BY <2>2, <2>3
<1> QED BY <1>3

LEMMA LeastIsMin ==
  ASSUME NEW T, T \subseteq Nat, T # {}
  PROVE  Min(T) \in T /\ \A y \in T : Min(T) <= y
<1>1. \E x \in T : \A y \in T : x =< y
  BY Least
<1> QED BY <1>1 DEF Min

(* A text ends at its first terminator, or where its array does.            *)
LEMMA TextEnds ==
  ASSUME NEW t, Len(t) \in Nat, NEW i \in 1..(Len(t) + 1)
  PROVE  /\ TextEnd(t, i) \in i..(Len(t) + 1)
         /\ TextEnd(t, i) = Len(t) + 1 \/ t[TextEnd(t, i)] = NUL
         /\ \A k \in i..(TextEnd(t, i) - 1) : t[k] # NUL
<1> DEFINE ends == {e \in i..(Len(t) + 1) : e = Len(t) + 1 \/ t[e] = NUL}
<1>1. ends \subseteq Nat /\ Len(t) + 1 \in ends
  OBVIOUS
<1>2. PICK e \in ends : \A f \in ends : e <= f
  BY <1>1, Least
<1>3. e \in i..(Len(t) + 1) /\ (e = Len(t) + 1 \/ t[e] = NUL)
  OBVIOUS
<1>4. ASSUME NEW k \in i..(e - 1) PROVE t[k] # NUL
  <2>1. k \notin ends BY <1>2, <1>3
  <2> QED BY <1>3, <2>1
<1>5. \E f \in i..(Len(t) + 1) :
        /\ f = Len(t) + 1 \/ t[f] = NUL
        /\ \A k \in i..(f - 1) : t[k] # NUL
  BY <1>3, <1>4
<1> QED BY <1>5 DEF TextEnd

LEMMA CStringIs ==
  ASSUME NEW t \in Seq(Bytes), NEW i \in 1..(Len(t) + 1)
  PROVE  /\ CString(t, i) \in Seq(Char)
         /\ Len(CString(t, i)) = TextEnd(t, i) - i
         /\ \A k \in 1..(TextEnd(t, i) - i) : CString(t, i)[k] = t[i + k - 1]
<1> DEFINE e == TextEnd(t, i)
<1>1. /\ e \in i..(Len(t) + 1) /\ Len(t) \in Nat
      /\ \A k \in i..(e - 1) : t[k] # NUL
  BY TextEnds
<1>2. \A k \in i..(e - 1) : t[k] \in Char
  BY <1>1 DEF Bytes
<1> HIDE DEF e
<1>3. /\ SubSeq(t, i, e - 1) \in Seq(Char)
      /\ Len(SubSeq(t, i, e - 1)) = IF i <= e - 1 THEN (e - 1) - i + 1 ELSE 0
      /\ \A k \in 1..((e - 1) - i + 1) : SubSeq(t, i, e - 1)[k] = t[i + k - 1]
  BY <1>1, <1>2, SubSeqProperties
<1> QED BY <1>1, <1>3 DEF CString, e

(* What is read and where. *)
Reading ==
  /\ said \in Seq(Bytes) /\ incoming \in Seq(Bytes) /\ coming \in Seq(Bytes)
  /\ result \in Seq(Char) /\ reads \in Seq(1..BufferSize)
  /\ buffer \in Seq(Bytes) /\ Len(buffer) = BufferSize + 1

Filled(n) == [i \in DOMAIN buffer |-> IF i <= n THEN incoming[i] ELSE buffer[i]]

(* What one read of n bytes does. *)
LEMMA ReadTakes ==
  ASSUME Reading, Read
  PROVE  \E n \in 1..BufferSize :
           /\ n <= Len(incoming) /\ Filled(n) \in Seq(Bytes) /\ Len(Filled(n)) = BufferSize + 1
           /\ result' = result \o CString(Filled(n), 1)
           /\ buffer' = [Filled(n) EXCEPT ![1] = NUL]
           /\ incoming' = SubSeq(incoming, n + 1, Len(incoming))
           /\ reads' = Append(reads, n) /\ UNCHANGED <<said, coming>>
<1> DEFINE n == Min({Len(incoming), BufferSize})
<1>1. Len(incoming) \in Nat \ {0} /\ BufferSize \in Nat \ {0}
  BY SocketAssumption, EmptySeq DEF Reading, Read
<1>2. n \in {Len(incoming), BufferSize} /\ n <= Len(incoming) /\ n <= BufferSize
  BY <1>1, LeastIsMin
<1>3. n \in 1..BufferSize
  BY <1>1, <1>2
<1>4. /\ result' = result \o CString(Filled(n), 1)
      /\ buffer' = [Filled(n) EXCEPT ![1] = NUL]
      /\ incoming' = SubSeq(incoming, n + 1, Len(incoming))
      /\ reads' = Append(reads, n) /\ UNCHANGED <<said, coming>>
  BY DEF Read, Appended, Filled
<1> HIDE DEF n
<1>5. Filled(n) \in Seq(Bytes) /\ Len(Filled(n)) = BufferSize + 1
  <2>1. DOMAIN buffer = 1..(BufferSize + 1) /\ \A i \in 1..(BufferSize + 1) : buffer[i] \in Bytes
    BY <1>1, LenProperties DEF Reading
  <2>2. \A i \in 1..n : incoming[i] \in Bytes
    BY <1>1, <1>2, <1>3 DEF Reading
  <2>3. Filled(n) \in [1..(BufferSize + 1) -> Bytes]
    BY <1>3, <2>1, <2>2 DEF Filled
  <2> QED BY <1>1, <2>3
<1> QED BY <1>2, <1>3, <1>4, <1>5

LEMMA ReadingInit == Init => Reading
<1> SUFFICES ASSUME Init PROVE Reading
  OBVIOUS
<1>1. PICK m \in Messages : SocketInit(m[1], m[2])
  BY DEF Init
<1>2. m[1] \in Seq(Bytes) /\ m[2] \in 0..Len(m[1])
  BY PathAssumption DEF Bytes
<1> DEFINE t == m[1]
<1> DEFINE k == m[2]
<1> HIDE DEF t, k
<1>3. t \in Seq(Bytes) /\ k \in 0..Len(t) /\ SocketInit(t, k)
  BY <1>1, <1>2 DEF t, k
<1>4. Len(t) \in Nat /\ \A i \in 1..Len(t) : t[i] \in Bytes
  BY <1>3
<1>5. SubSeq(t, 1, k) \in Seq(Bytes) /\ SubSeq(t, k + 1, Len(t)) \in Seq(Bytes)
  BY <1>3, <1>4, SubSeqProperties
<1>6. BufferSize + 1 \in Nat /\ NUL \in Bytes
  BY SocketAssumption DEF Bytes
<1>7. buffer \in Seq(Bytes) /\ Len(buffer) = BufferSize + 1
  BY <1>3, <1>6 DEF SocketInit
<1> QED BY <1>3, <1>5, <1>7, EmptySeq DEF SocketInit, Reading

(* Only Arrive and Read concern what is read. *)
ReadVars == <<said, incoming, coming, result, reads, buffer>>

LEMMA Readers ==
  ASSUME [Next]_vars
  PROVE  \/ UNCHANGED ReadVars
         \/ Read
         \/ /\ incoming' = incoming \o coming /\ coming' = <<>>
            /\ UNCHANGED <<said, result, reads, buffer>>
<1> USE DEF ReadVars
<1>1. CASE ChangeFile \/ BeginParse \/ Parse
  BY <1>1 DEF ChangeFile, BeginParse, Parse, socketVars
<1>2. CASE External
  BY <1>2 DEF External, Arrive, HangUp, CloseSocket
<1>3. CASE ReadStep
  BY <1>3 DEF ReadStep, ReadEnds
<1>4. CASE handleRequest
  BY <1>4 DEF handleRequest, BeginWrite
<1>5. CASE WriteStep
  BY <1>5 DEF WriteStep, Send, SendFails, SendEnds, NoFile, BeginFile, SendFile, SendFileEnds
<1>6. CASE UNCHANGED vars
  BY <1>6 DEF vars, socketVars
<1> QED BY <1>1, <1>2, <1>3, <1>4, <1>5, <1>6 DEF Next, CoroutineStep

LEMMA ReadingStep == Reading /\ [Next]_vars => Reading'
<1> SUFFICES ASSUME Reading, [Next]_vars PROVE Reading'
  OBVIOUS
<1>1. CASE UNCHANGED ReadVars
  BY <1>1 DEF ReadVars, Reading
<1>2. CASE Read
  <2>1. PICK n \in 1..BufferSize :
           /\ n <= Len(incoming) /\ Filled(n) \in Seq(Bytes) /\ Len(Filled(n)) = BufferSize + 1
           /\ result' = result \o CString(Filled(n), 1)
           /\ buffer' = [Filled(n) EXCEPT ![1] = NUL]
           /\ incoming' = SubSeq(incoming, n + 1, Len(incoming))
           /\ reads' = Append(reads, n) /\ UNCHANGED <<said, coming>>
    BY <1>2, ReadTakes
  <2>2. BufferSize \in Nat \ {0} /\ 1 \in 1..Len(Filled(n)) /\ NUL \in Bytes
    BY <2>1, SocketAssumption DEF Bytes
  <2>3. buffer' \in Seq(Bytes) /\ Len(buffer') = BufferSize + 1
    BY <2>1, <2>2, ExceptSeq
  <2>4. CString(Filled(n), 1) \in Seq(Char)
    BY <2>1, <2>2, CStringIs
  <2>5. result' \in Seq(Char)
    BY <2>1, <2>4, ConcatProperties DEF Reading
  <2>6. incoming' \in Seq(Bytes)
    BY <2>1, SubSeqProperties DEF Reading
  <2>7. reads' \in Seq(1..BufferSize)
    BY <2>1, AppendProperties DEF Reading
  <2> QED BY <2>1, <2>3, <2>5, <2>6, <2>7 DEF Reading
<1>3. CASE /\ incoming' = incoming \o coming /\ coming' = <<>>
           /\ UNCHANGED <<said, result, reads, buffer>>
  BY <1>3, EmptySeq, ConcatProperties DEF Reading
<1> QED BY <1>1, <1>2, <1>3, Readers

LEMMA ReadingAlways == Spec => []Reading
BY ReadingInit, ReadingStep, PTL DEF Spec

(* The peers of a run that says nothing about terminators in what is said.  *)
PlainMessages == \A m \in Messages : m[1] \in Seq(Char)

Growing == \A i \in 1..(Len(reads) - 1) : reads[i] <= reads[i + 1]

Previous == IF reads = <<>> THEN 0 ELSE reads[Len(reads)]

(* While no read is shorter than the one before it, the buffer is clear     *)
(* behind the last.                                                         *)
Exact ==
  /\ incoming \in Seq(Char) /\ coming \in Seq(Char)
  /\ Growing => /\ \A i \in (Previous + 1)..(BufferSize + 1) : buffer[i] = NUL
                /\ result \o incoming \o coming = said

LEMMA ExactInit == PlainMessages /\ Init => Exact
<1> SUFFICES ASSUME PlainMessages, Init PROVE Exact
  OBVIOUS
<1>1. PICK m \in Messages : SocketInit(m[1], m[2])
  BY DEF Init
<1>2. m[1] \in Seq(Char) /\ m[2] \in 0..Len(m[1])
  BY PathAssumption DEF PlainMessages
<1> DEFINE t == m[1]
<1> DEFINE k == m[2]
<1> HIDE DEF t, k
<1>3. t \in Seq(Char) /\ k \in 0..Len(t) /\ SocketInit(t, k)
  BY <1>1, <1>2 DEF t, k
<1>4. Len(t) \in Nat /\ \A i \in 1..Len(t) : t[i] \in Char
  BY <1>3
<1>5. SubSeq(t, 1, k) \in Seq(Char) /\ SubSeq(t, k + 1, Len(t)) \in Seq(Char)
  BY <1>3, <1>4, SubSeqProperties
<1>6. SubSeq(t, 1, k) \o SubSeq(t, k + 1, Len(t)) = t
  <2>1. SubSeq(t, 1, k) \o SubSeq(t, k + 1, Len(t)) = SubSeq(t, 1, Len(t))
    <3>1. 1 \in 1..(Len(t) + 1) /\ k \in (1 - 1)..Len(t) /\ Len(t) \in k..Len(t)
      BY <1>3, <1>4
    <3> QED BY <1>3, <3>1, ConcatAdjacentSubSeq
  <2> QED BY <1>3, <2>1, SubSeqFull
<1>7. result \o incoming \o coming = said
  BY <1>3, <1>5, <1>6, ConcatEmptySeq DEF SocketInit
<1>8. \A i \in (Previous + 1)..(BufferSize + 1) : buffer[i] = NUL
  BY <1>3, SocketAssumption DEF SocketInit, Previous
<1> QED BY <1>3, <1>5, <1>7, <1>8 DEF SocketInit, Exact

LEMMA ExactRead ==
  ASSUME Reading, Exact, Read
  PROVE  Exact'
<1>1. PICK n \in 1..BufferSize :
        /\ n <= Len(incoming) /\ Filled(n) \in Seq(Bytes) /\ Len(Filled(n)) = BufferSize + 1
        /\ result' = result \o CString(Filled(n), 1)
        /\ buffer' = [Filled(n) EXCEPT ![1] = NUL]
        /\ incoming' = SubSeq(incoming, n + 1, Len(incoming))
        /\ reads' = Append(reads, n) /\ UNCHANGED <<said, coming>>
  BY ReadTakes
<1>2. /\ BufferSize \in Nat \ {0} /\ Len(incoming) \in Nat
      /\ \A i \in 1..Len(incoming) : incoming[i] \in Char
      /\ incoming \in Seq(Char) /\ coming \in Seq(Char) /\ result \in Seq(Char)
  BY SocketAssumption DEF Exact, Reading
<1>3. incoming' \in Seq(Char) /\ coming' \in Seq(Char)
  BY <1>1, <1>2, SubSeqProperties
<1>4. SUFFICES ASSUME Growing'
               PROVE  /\ \A i \in (Previous' + 1)..(BufferSize + 1) : buffer'[i] = NUL
                      /\ result' \o incoming' \o coming' = said'
  BY <1>3 DEF Exact
<1>5. /\ reads \in Seq(1..BufferSize) /\ Len(reads) \in Nat /\ Len(reads') = Len(reads) + 1
      /\ \A i \in 1..Len(reads) : reads'[i] = reads[i]
      /\ reads'[Len(reads) + 1] = n /\ reads' # <<>>
  BY <1>1, AppendProperties DEF Reading
<1>6. Previous' = n
  BY <1>5 DEF Previous
<1>7. Growing
  <2> SUFFICES ASSUME NEW i \in 1..(Len(reads) - 1) PROVE reads[i] <= reads[i + 1]
    BY DEF Growing
  <2>1. i \in 1..(Len(reads') - 1) /\ i \in 1..Len(reads) /\ i + 1 \in 1..Len(reads)
    BY <1>5
  <2> QED BY <1>4, <1>5, <2>1 DEF Growing
<1>8. Previous \in Nat /\ Previous <= n
  <2>1. CASE reads = <<>> BY <2>1 DEF Previous
  <2>2. CASE reads # <<>>
    <3>1. Len(reads) \in 1..(Len(reads') - 1) /\ Len(reads) \in 1..Len(reads)
      BY <1>5, <2>2, EmptySeq
    <3>2. reads'[Len(reads)] <= reads'[Len(reads) + 1]
      BY <1>4, <3>1 DEF Growing
    <3>3. reads[Len(reads)] \in 1..BufferSize
      BY <1>5, <3>1, ElementOfSeq
    <3>4. reads[Len(reads)] <= n
      BY <1>5, <3>1, <3>2
    <3> QED BY <1>2, <2>2, <3>3, <3>4 DEF Previous
  <2> QED BY <2>1, <2>2
<1> DEFINE filled == Filled(n)
<1>9. /\ \A i \in 1..n : filled[i] = incoming[i] /\ filled[i] \in Char
      /\ \A i \in (n + 1)..(BufferSize + 1) : filled[i] = NUL
  <2>1. DOMAIN buffer = 1..(BufferSize + 1)
    BY <1>2, LenProperties DEF Reading
  <2>2. \A i \in (Previous + 1)..(BufferSize + 1) : buffer[i] = NUL
    BY <1>7 DEF Exact
  <2> QED BY <1>1, <1>2, <1>8, <2>1, <2>2 DEF Filled
<1> HIDE DEF filled
<1>10. filled \in Seq(Bytes) /\ Len(filled) = BufferSize + 1
  BY <1>1 DEF filled
<1>11. \A i \in (Previous' + 1)..(BufferSize + 1) : buffer'[i] = NUL
  <2>1. 1 \in 1..Len(filled) /\ NUL \in Bytes
    BY <1>2, <1>10 DEF Bytes
  <2>2. \A i \in 1..Len(filled) : buffer'[i] = IF i = 1 THEN NUL ELSE filled[i]
    BY <1>1, <1>10, <2>1, ExceptSeq DEF filled
  <2> QED BY <1>2, <1>6, <1>9, <1>10, <2>2
<1>12. TextEnd(filled, 1) = n + 1
  <2>0. Len(filled) \in Nat /\ 1 \in 1..(Len(filled) + 1)
    BY <1>2, <1>10
  <2>1. /\ TextEnd(filled, 1) \in 1..(Len(filled) + 1)
        /\ TextEnd(filled, 1) = Len(filled) + 1 \/ filled[TextEnd(filled, 1)] = NUL
        /\ \A k \in 1..(TextEnd(filled, 1) - 1) : filled[k] # NUL
    BY <2>0, TextEnds
  <2>2. \A i \in 1..n : filled[i] # NUL
    BY <1>9, PathAssumption
  <2>3. n + 1 \in 1..(BufferSize + 1) /\ filled[n + 1] = NUL
    BY <1>2, <1>9
  <2>4. ~ (TextEnd(filled, 1) > n + 1)
    BY <2>0, <2>1, <2>3
  <2>5. ~ (TextEnd(filled, 1) <= n)
    BY <1>2, <1>10, <2>1, <2>2
  <2> QED BY <2>1, <2>4, <2>5
<1>13. CString(filled, 1) = SubSeq(incoming, 1, n)
  <2>1. /\ CString(filled, 1) \in Seq(Char) /\ Len(CString(filled, 1)) = n
        /\ \A k \in 1..n : CString(filled, 1)[k] = filled[k]
    BY <1>2, <1>10, <1>12, CStringIs
  <2>2. /\ SubSeq(incoming, 1, n) \in Seq(Char) /\ Len(SubSeq(incoming, 1, n)) = n
        /\ \A k \in 1..n : SubSeq(incoming, 1, n)[k] = incoming[k]
    BY <1>1, <1>2, SubSeqProperties
  <2> QED BY <1>9, <2>1, <2>2, SeqEqual
<1>14. SubSeq(incoming, 1, n) \o incoming' = incoming
  <2>1. SubSeq(incoming, 1, n) \o SubSeq(incoming, n + 1, Len(incoming))
          = SubSeq(incoming, 1, Len(incoming))
    BY <1>1, <1>2, ConcatAdjacentSubSeq
  <2> QED BY <1>1, <1>2, <2>1, SubSeqFull
<1>15. SubSeq(incoming, 1, n) \in Seq(Char)
  BY <1>1, <1>2, SubSeqProperties
<1>16. result' \o incoming' = result \o incoming
  <2>1. result' = result \o SubSeq(incoming, 1, n)
    BY <1>1, <1>13 DEF filled
  <2>2. (result \o SubSeq(incoming, 1, n)) \o incoming'
          = result \o (SubSeq(incoming, 1, n) \o incoming')
    BY <1>2, <1>3, <1>15, ConcatAssociative, SMTT(60)
  <2> QED BY <1>14, <2>1, <2>2
<1>17. result \o incoming \o coming = said
  BY <1>7 DEF Exact
<1> QED BY <1>1, <1>11, <1>16, <1>17

LEMMA ExactStep == Reading /\ Exact /\ [Next]_vars => Exact'
<1> SUFFICES ASSUME Reading, Exact, [Next]_vars PROVE Exact'
  OBVIOUS
<1>1. CASE UNCHANGED ReadVars
  BY <1>1 DEF ReadVars, Exact, Growing, Previous
<1>2. CASE Read
  BY <1>2, ExactRead
<1>3. CASE /\ incoming' = incoming \o coming /\ coming' = <<>>
           /\ UNCHANGED <<said, result, reads, buffer>>
  <2>1. incoming \in Seq(Char) /\ coming \in Seq(Char) /\ result \in Seq(Char)
    BY DEF Exact, Reading
  <2>2. incoming' \in Seq(Char) /\ coming' \in Seq(Char)
    BY <1>3, <2>1, EmptySeq, ConcatProperties
  <2>3. result \o (incoming \o coming) = result \o incoming \o coming
    BY <2>1, ConcatAssociative, SMTT(60)
  <2>4. result \o incoming' \in Seq(Char)
    BY <2>1, <2>2, ConcatProperties
  <2>5. result' \o incoming' \o coming' = result \o incoming \o coming
    BY <1>3, <2>3, <2>4, ConcatEmptySeq
  <2> QED BY <1>3, <2>2, <2>5 DEF Exact, Growing, Previous
<1> QED BY <1>1, <1>2, <1>3, Readers

(* However the text arrives and is read, readSocket returns all of it and   *)
(* nothing twice as long as no read is shorter than the one before it.      *)
THEOREM ReadingIsExact == PlainMessages => (Spec => []ReadExact)
<1>1. Exact => ReadExact
  BY DEF Exact, Growing, ReadExact
<1>2. PlainMessages /\ Spec => []Exact
  BY ExactInit, ExactStep, ReadingAlways, PTL DEF Spec
<1> QED BY <1>1, <1>2, PTL
-------------------------------------------------------------------------------
(* Writing *)

Statuses == {"200 OK", "404 Not Found"}
Mimes == {"none", "text/plain", "text/html"}

TextUnits ==
  (Statuses \cup Mimes \cup {"Content-Length", "Server: tcerver", "\n", "body"}) \X Nat

Units == TextUnits \cup ({"file"} \X Nat)

(* What an answer is: a text states its length. *)
IsAnswer(r) ==
  /\ r.status \in Statuses /\ r.mime \in Mimes /\ r.type \in {"text", "file"}
  /\ r.length \in Nat /\ r.body \in Nat
  /\ r.type = "text" => r.body = r.length

Text(r) ==
  getResponseHeaders(r) \o IF r.type = "file" THEN <<>> ELSE BodyBytes(r.body)

LEMMA Short ==
  ASSUME NEW S, NEW a \in S, NEW b \in S
  PROVE  /\ <<a>> \in Seq(S) /\ Len(<<a>>) = 1
         /\ <<a, b>> \in Seq(S) /\ Len(<<a, b>>) = 2
OBVIOUS

LEMMA HeadersAre ==
  ASSUME NEW r, IsAnswer(r)
  PROVE  getResponseHeaders(r) \in Seq(TextUnits) /\ Len(getResponseHeaders(r)) \in Nat \ {0}
<1>1. /\ <<r.status, 0>> \in TextUnits /\ <<"Content-Length", r.length>> \in TextUnits
      /\ <<r.mime, 0>> \in TextUnits
      /\ <<"Server: tcerver", 0>> \in TextUnits /\ <<"\n", 0>> \in TextUnits
  BY DEF IsAnswer, TextUnits
<1> DEFINE a == << <<r.status, 0>>, <<"Content-Length", r.length>> >>
<1> DEFINE b == IF r.mime = "none" THEN <<>> ELSE << <<r.mime, 0>> >>
<1> DEFINE c == << <<"Server: tcerver", 0>>, <<"\n", 0>> >>
<1>2. a \in Seq(TextUnits) /\ Len(a) = 2
  BY <1>1, Short, Zenon
<1>3. c \in Seq(TextUnits) /\ Len(c) = 2
  BY <1>1, Short, Zenon
<1>4. b \in Seq(TextUnits)
  <2>1. << <<r.mime, 0>> >> \in Seq(TextUnits) BY <1>1, Short, Zenon
  <2>2. <<>> \in Seq(TextUnits) BY EmptySeq
  <2> QED BY <2>1, <2>2, Zenon
<1>5. getResponseHeaders(r) = a \o b \o c
  BY DEF getResponseHeaders
<1> HIDE DEF a, b, c
<1>6. a \o b \in Seq(TextUnits) /\ Len(a \o b) = 2 + Len(b) /\ Len(b) \in Nat
  <2>1. a \o b \in Seq(TextUnits) /\ Len(a \o b) = Len(a) + Len(b)
    BY <1>2, <1>4, ConcatProperties, Zenon
  <2> QED BY <1>2, <1>4, <2>1
<1>7. a \o b \o c \in Seq(TextUnits) /\ Len(a \o b \o c) = Len(a \o b) + 2
  <2>1. a \o b \o c \in Seq(TextUnits) /\ Len(a \o b \o c) = Len(a \o b) + Len(c)
    BY <1>3, <1>6, ConcatProperties, Zenon
  <2> QED BY <1>3, <2>1
<1> QED BY <1>5, <1>6, <1>7

LEMMA BodyIs ==
  ASSUME NEW n \in Nat
  PROVE  BodyBytes(n) \in Seq(TextUnits) /\ Len(BodyBytes(n)) = n
<1>1. ASSUME NEW i \in 1..n PROVE <<"body", i>> \in TextUnits
  <2>1. i \in Nat OBVIOUS
  <2> QED BY <2>1 DEF TextUnits
<1> QED BY <1>1 DEF BodyBytes

LEMMA FileIs ==
  ASSUME NEW n \in Nat, NEW from \in Nat
  PROVE  /\ FileBytes(from, n) \in Seq(Units) /\ Len(FileBytes(from, n)) = n
         /\ \A i \in 1..n, k \in Nat : k = from + i => FileBytes(from, n)[i] = <<"file", k>>
<1>1. ASSUME NEW i \in 1..n PROVE <<"file", from + i>> \in Units
  <2>1. from + i \in Nat OBVIOUS
  <2> QED BY <2>1 DEF Units
<1> QED BY <1>1 DEF FileBytes

LEMMA FileBegins ==
  ASSUME NEW n \in Nat
  PROVE  /\ FileBytes(0, n) \in Seq(Units) /\ Len(FileBytes(0, n)) = n
         /\ \A i \in 1..n : FileBytes(0, n)[i] = <<"file", i>>
<1>1. ASSUME NEW i \in 1..n PROVE <<"file", 0 + i>> \in Units /\ 0 + i = i
  <2>1. 0 + i \in Nat /\ 0 + i = i OBVIOUS
  <2> QED BY <2>1 DEF Units
<1> QED BY <1>1 DEF FileBytes

LEMMA FileGrows ==
  ASSUME NEW o \in Nat, NEW n \in Nat
  PROVE  FileBytes(0, o) \o FileBytes(o, n) = FileBytes(0, o + n)
<1>1. /\ FileBytes(0, o) \in Seq(Units) /\ Len(FileBytes(0, o)) = o
      /\ \A i \in 1..o : FileBytes(0, o)[i] = <<"file", i>>
  BY FileBegins
<1>2. /\ FileBytes(o, n) \in Seq(Units) /\ Len(FileBytes(o, n)) = n
      /\ \A i \in 1..n, k \in Nat : k = o + i => FileBytes(o, n)[i] = <<"file", k>>
  BY FileIs, Zenon
<1>3. /\ FileBytes(0, o + n) \in Seq(Units) /\ Len(FileBytes(0, o + n)) = o + n
      /\ \A i \in 1..(o + n) : FileBytes(0, o + n)[i] = <<"file", i>>
  <2>1. o + n \in Nat OBVIOUS
  <2> QED BY <2>1, FileBegins, Zenon
<1> DEFINE f == FileBytes(0, o)
<1> DEFINE g == FileBytes(o, n)
<1> DEFINE h == FileBytes(0, o + n)
<1> HIDE DEF f, g, h
<1>4. /\ f \o g \in Seq(Units) /\ Len(f \o g) = o + n
      /\ \A i \in 1..(o + n) : (f \o g)[i] = IF i <= o THEN f[i] ELSE g[i - o]
  <2>1. f \in Seq(Units) /\ g \in Seq(Units) /\ Len(f) = o /\ Len(g) = n
    BY <1>1, <1>2 DEF f, g
  <2>2. /\ f \o g \in Seq(Units) /\ Len(f \o g) = Len(f) + Len(g)
        /\ \A i \in 1..(Len(f) + Len(g)) :
             (f \o g)[i] = IF i <= Len(f) THEN f[i] ELSE g[i - Len(f)]
    BY <2>1, ConcatProperties, Zenon
  <2> QED BY <2>1, <2>2
<1>5. ASSUME NEW i \in 1..(o + n) PROVE (f \o g)[i] = h[i]
  <2>0. h[i] = <<"file", i>> /\ i \in Nat
    BY <1>3 DEF h
  <2>1. CASE i <= o
    <3>1. f[i] = <<"file", i>> BY <1>1, <2>1 DEF f
    <3> QED BY <1>4, <2>0, <2>1, <3>1
  <2>2. CASE ~ (i <= o)
    <3>1. i - o \in 1..n /\ i = o + (i - o) BY <2>2
    <3>2. g[i - o] = <<"file", i>> BY <1>2, <2>0, <3>1, Zenon DEF g
    <3> QED BY <1>4, <2>0, <2>2, <3>2
  <2> QED BY <2>1, <2>2
<1>6. h \in Seq(Units) /\ Len(h) = o + n
  BY <1>3 DEF h
<1>7. f \o g = h
  BY <1>4, <1>5, <1>6, SeqEqual
<1> QED BY <1>7 DEF f, g, h

LEMMA TextIs ==
  ASSUME NEW r, IsAnswer(r)
  PROVE  /\ Text(r) \in Seq(TextUnits) /\ Text(r) \in Seq(Units)
         /\ getResponseHeaders(r) \in Seq(Units) /\ Len(Text(r)) \in Nat \ {0}
         /\ Len(Text(r)) = Len(getResponseHeaders(r))
                             + IF r.type = "file" THEN 0 ELSE r.length
         /\ SubSeq(Text(r), 1, Len(getResponseHeaders(r))) = getResponseHeaders(r)
<1> DEFINE head == getResponseHeaders(r)
<1> DEFINE body == IF r.type = "file" THEN <<>> ELSE BodyBytes(r.body)
<1>1. head \in Seq(TextUnits) /\ Len(head) \in Nat \ {0}
  BY HeadersAre
<1>2. body \in Seq(TextUnits) /\ Len(body) = IF r.type = "file" THEN 0 ELSE r.length
  <2>1. CASE r.type = "file" BY <2>1, EmptySeq
  <2>2. CASE r.type # "file"
    <3>1. r.body \in Nat /\ r.body = r.length BY <2>2 DEF IsAnswer
    <3> QED BY <2>2, <3>1, BodyIs
  <2> QED BY <2>1, <2>2
<1>3. Text(r) = head \o body
  BY DEF Text
<1>4. r.length \in Nat
  BY DEF IsAnswer
<1> HIDE DEF head, body
<1>5. head \o body \in Seq(TextUnits) /\ Len(head \o body) = Len(head) + Len(body)
  BY <1>1, <1>2, ConcatProperties
<1>6. SubSeq(head \o body, 1, Len(head)) = head
  <2>1. 1 \in 1..Len(head) /\ Len(head) \in 1..Len(head) BY <1>1
  <2>2. SubSeq(head \o body, 1, Len(head)) = SubSeq(head, 1, Len(head))
    BY <1>1, <1>2, <2>1, SubSeqOfConcat1
  <2> QED BY <1>1, <2>2, SubSeqFull
<1>7. TextUnits \subseteq Units
  BY DEF Units
<1>8. head \o body \in Seq(Units) /\ head \in Seq(Units)
  BY <1>1, <1>5, <1>7, SeqMonotonic
<1> QED BY <1>1, <1>2, <1>3, <1>4, <1>5, <1>6, <1>8 DEF head

(* What has been sent while the kernel has taken all it was given, and how  *)
(* the file, the answer and the place of the coroutine go together.         *)
Framing ==
  /\ IsAnswer(response) /\ DOMAIN files = Names
  /\ \A n \in Names : files[n] \in Sizes \cup {Absent}
  /\ total_bytes \in Nat /\ offset \in Nat /\ short \in Nat /\ changes \in Nat
  /\ parsing = "done" => (response.type = "file" <=> fd.state # "none")
  /\ fd.state # "none" => fd.size \in Nat /\ (changes = 0 => fd.size = response.length)
  /\ io \in {"reading", "read"} => wire = <<>> /\ total_bytes = 0
  /\ io \notin {"sendfile", "done"} => offset = 0
  /\ io \notin {"reading", "read"} => text = Text(response)
  /\ io = "sending" /\ short = 0 =>
       (total_bytes = 0 /\ wire = <<>>) \/ (total_bytes = Len(text) /\ wire = text)
  /\ io \in {"sent", "sendfile", "done"} /\ short = 0 => wire = text \o FileBytes(0, offset)
  /\ changes = 0 /\ fd.state = "open" => offset <= fd.size
  /\ io = "done" /\ short = 0 /\ changes = 0 =>
       offset = IF response.type = "file" THEN response.length ELSE 0

LEMMA FramingInit == Init => Framing
<1> SUFFICES ASSUME Init PROVE Framing
  OBVIOUS
<1>1. response = NewText /\ DOMAIN files = Names
      /\ \A n \in Names : files[n] \in Sizes \cup {Absent}
  BY DEF Init, HTTPInit
<1>2. IsAnswer(response)
  BY <1>1 DEF NewText, IsAnswer, Statuses, Mimes
<1>3. /\ total_bytes = 0 /\ offset = 0 /\ short = 0 /\ changes = 0 /\ io = "reading"
      /\ wire = <<>> /\ parsing = "idle" /\ fd.state = "none"
  BY DEF Init, HTTPInit, SocketInit
<1> QED BY <1>1, <1>2, <1>3 DEF Framing

(* What a step of the parser does to the answer.                            *)
LEMMA Answers ==
  ASSUME Framing, HTTPStep
  PROVE  IsAnswer(response') /\ UNCHANGED files
<1>1. IsAnswer(notFoundHandler)
  BY DEF IsAnswer, notFoundHandler, NewText, Statuses, Mimes
<1>2. CASE \/ ParseStep /\ UNCHANGED httpVars
           \/ \E piece \in DOMAIN Following : dispatchHTTP(piece)
           \/ TakeLine \/ TakeHeader \/ handleMethod
  BY <1>2 DEF Framing, IsAnswer, httpVars, dispatchHTTP, TakeLine, TakeHeader, handleMethod
<1>3. CASE Reject
  BY <1>1, <1>3 DEF Reject
<1>4. CASE findHandler
  <2>1. UNCHANGED files BY <1>4 DEF findHandler
  <2>2. CASE CallHandler
    <3>1. PICK n \in Bodies : response' = [NewText EXCEPT !.body = n, !.length = n]
      BY <2>2 DEF CallHandler
    <3>2. n \in Nat BY HTTPAssumption
    <3>3. response' = [status |-> "200 OK", type |-> "text", length |-> n, body |-> n,
                       mime |-> "text/plain", file |-> <<>>]
      BY <3>1 DEF NewText
    <3> QED BY <2>1, <3>2, <3>3 DEF IsAnswer, Statuses, Mimes
  <2>3. CASE defaultPage
    BY <2>1, <2>3 DEF defaultPage, Framing, IsAnswer
  <2>4. CASE Stat
    BY <1>1, <2>1, <2>4 DEF Stat, Framing, IsAnswer
  <2> QED BY <1>4, <2>2, <2>3, <2>4 DEF findHandler
<1>5. CASE defaultFileFounder
  <2>1. UNCHANGED files BY <1>5 DEF defaultFileFounder
  <2>2. CASE ~ Exists(named)
    BY <1>1, <1>5, <2>1, <2>2 DEF defaultFileFounder
  <2>3. CASE Exists(named)
    <3>1. response' = [NewText EXCEPT !.type = "file", !.file = named,
                        !.length = files[named], !.mime = MimeType(request.path)]
      BY <1>5, <2>3 DEF defaultFileFounder
    <3>2. files[named] \in Nat
      BY <2>3, HTTPAssumption DEF Exists, Framing
    <3>3. MimeType(request.path) \in Mimes
      BY DEF MimeType, g_mime_type_map, Mimes
    <3>4. response' = [status |-> "200 OK", type |-> "file", length |-> files[named],
                       body |-> 0, mime |-> MimeType(request.path), file |-> named]
      BY <3>1 DEF NewText
    <3> QED BY <2>1, <3>2, <3>3, <3>4 DEF IsAnswer, Statuses
  <2> QED BY <2>2, <2>3
<1> QED BY <1>2, <1>3, <1>4, <1>5 DEF HTTPStep

LEMMA FramingStep == Control /\ Framing /\ [Next]_vars => Framing'
<1> SUFFICES ASSUME Control, Framing, [Next]_vars PROVE Framing'
  OBVIOUS
<1>0. Text(response) \in Seq(Units) /\ Len(Text(response)) \in Nat \ {0}
  BY TextIs DEF Framing
<1>1. CASE ChangeFile
  <2>1. /\ changes' \in Nat \ {0}
        /\ UNCHANGED <<response, total_bytes, offset, short, wire, text, io, parsing>>
        /\ fd'.state = fd.state
        /\ fd.state # "none" => fd'.size \in Nat
    <3>1. PICK n \in Names, s \in Sizes \cup {Absent} : Follow(n, s)
      BY <1>1 DEF ChangeFile
    <3>2. s # Absent => s \in Nat BY HTTPAssumption
    <3>3. fd'.state = fd.state /\ (fd.state # "none" => fd'.size \in Nat)
      BY <3>1, <3>2 DEF Follow, Control, Framing
    <3> QED BY <1>1, <3>3 DEF ChangeFile, Framing, socketVars
  <2>2. DOMAIN files' = Names /\ \A n \in Names : files'[n] \in Sizes \cup {Absent}
    BY <1>1 DEF ChangeFile, Framing
  <2> QED BY <2>1, <2>2 DEF Framing, IsAnswer, Text, getResponseHeaders, BodyBytes
<1>2. CASE External \/ ReadStep
  <2>1. /\ UNCHANGED <<response, total_bytes, offset, short, wire, text, parsing, fd,
                       changes, files>>
        /\ io' = io \/ (io \in {"reading", "read"} /\ io' \in {"reading", "read"})
    <3>1. CASE External
      BY <3>1 DEF External, Arrive, HangUp, CloseSocket, httpVars
    <3>2. CASE ReadStep
      BY <3>2 DEF ReadStep, Read, ReadEnds, httpVars
    <3> QED BY <1>2, <3>1, <3>2
  <2> QED BY <2>1 DEF Framing, IsAnswer, Text, getResponseHeaders, BodyBytes
<1>3. CASE BeginParse
  <2>1. /\ UNCHANGED <<response, total_bytes, offset, short, wire, text, io, fd, changes,
                       files>>
        /\ parsing' # "done"
    BY <1>3 DEF BeginParse, parseRequest, ParseFrom, socketVars
  <2> QED BY <2>1 DEF Framing, IsAnswer, Text, getResponseHeaders, BodyBytes
<1>4. CASE Parse
  <2>1. io = "read" /\ fd.state = "none" /\ UNCHANGED socketVars /\ UNCHANGED changes
    BY <1>4, ParserMoves DEF Parse, Control
  <2>2. IsAnswer(response') /\ UNCHANGED files
    BY <1>4, Answers DEF Parse
  <2>3. fd' = IF parsing' = "done" /\ response'.type = "file"
                THEN [state |-> "open", size |-> response'.length, linked |-> TRUE]
                ELSE fd
    BY <1>4 DEF Parse
  <2>4. /\ parsing' = "done" => (response'.type = "file" <=> fd'.state # "none")
        /\ fd'.state # "none" => fd'.size \in Nat /\ fd'.size = response'.length
    BY <2>1, <2>2, <2>3 DEF IsAnswer
  <2>5. UNCHANGED <<total_bytes, offset, short, wire, text, io>>
    BY <2>1 DEF socketVars
  <2>6. wire = <<>> /\ total_bytes = 0 /\ offset = 0 /\ short \in Nat /\ changes \in Nat
    BY <2>1 DEF Framing
  <2>7. DOMAIN files' = Names /\ \A n \in Names : files'[n] \in Sizes \cup {Absent}
    BY <2>2 DEF Framing
  <2> QED BY <2>1, <2>2, <2>4, <2>5, <2>6, <2>7 DEF Framing
<1>5. CASE handleRequest
  <2>1. /\ io = "read" /\ io' = "sending" /\ text' = Text(response)
        /\ UNCHANGED <<response, total_bytes, offset, short, wire, parsing, fd, changes,
                       files>>
    BY <1>5 DEF handleRequest, BeginWrite, httpVars, Text
  <2> QED BY <2>1 DEF Framing, IsAnswer, Text, getResponseHeaders, BodyBytes
<1>6. CASE WriteStep
  <2>0. UNCHANGED <<response, parsing, changes, files>>
    BY <1>6 DEF WriteStep, httpVars
  <2>1. CASE Send /\ UNCHANGED fd
    <3>1. io = "sending" /\ total_bytes < Len(text) /\ text = Text(response)
          /\ UNCHANGED <<io, text, offset>>
      BY <2>1 DEF Send, Writing, Framing
    <3>2. PICK n \in 1..Len(text) :
            /\ wire' = wire \o SubSeq(text, 1, n)
            /\ total_bytes' = total_bytes + n
            /\ short' = IF n < Len(text) THEN short + 1 ELSE short
      BY <2>1 DEF Send, Sent
    <3>3. total_bytes' \in Nat /\ short' \in Nat
      BY <1>0, <3>1, <3>2 DEF Framing
    <3>4. ASSUME short' = 0 PROVE total_bytes' = Len(text) /\ wire' = text
      <4>1. n = Len(text) /\ short = 0
        BY <1>0, <3>1, <3>2, <3>4 DEF Framing
      <4>2. total_bytes = 0 /\ wire = <<>>
        BY <3>1, <4>1 DEF Framing
      <4>3. SubSeq(text, 1, n) = text
        BY <1>0, <3>1, <4>1, SubSeqFull
      <4> QED BY <1>0, <3>1, <3>2, <4>1, <4>2, <4>3, ConcatEmptySeq
    <3> QED BY <2>0, <2>1, <3>1, <3>3, <3>4
            DEF Framing, IsAnswer, Text, getResponseHeaders, BodyBytes
  <2>2. CASE SendFails /\ UNCHANGED fd
    <3>1. /\ io = "sending" /\ io' = "sent" /\ short' = short + 1
          /\ UNCHANGED <<text, total_bytes, offset, wire>>
      BY <2>2 DEF SendFails, Writing
    <3>2. short' \in Nat \ {0} BY <3>1 DEF Framing
    <3> QED BY <2>0, <2>2, <3>1, <3>2
            DEF Framing, IsAnswer, Text, getResponseHeaders, BodyBytes
  <2>3. CASE SendEnds /\ UNCHANGED fd
    <3>1. /\ io = "sending" /\ io' = "sent" /\ ~ (total_bytes < Len(text))
          /\ UNCHANGED <<text, total_bytes, offset, wire, short>>
      BY <2>3 DEF SendEnds, Writing
    <3>2. offset = 0 /\ text = Text(response)
      BY <3>1 DEF Framing
    <3>3. short = 0 => wire = text \o FileBytes(0, offset)
      <4>1. SUFFICES ASSUME short = 0 PROVE wire = text \o FileBytes(0, offset)
        OBVIOUS
      <4>2. wire = text
        BY <1>0, <3>1, <3>2, <4>1 DEF Framing
      <4>3. FileBytes(0, 0) = <<>>
        <5>1. FileBytes(0, 0) \in Seq(Units) /\ Len(FileBytes(0, 0)) = 0 BY FileIs
        <5> QED BY <5>1, EmptySeq
      <4> QED BY <1>0, <3>2, <4>2, <4>3, ConcatEmptySeq
    <3> QED BY <2>0, <2>3, <3>1, <3>2, <3>3
            DEF Framing, IsAnswer, Text, getResponseHeaders, BodyBytes
  <2>4. CASE fd.state = "none" /\ NoFile /\ UNCHANGED fd
    <3>1. /\ io = "sent" /\ io' = "done" /\ parsing = "done"
          /\ UNCHANGED <<text, total_bytes, offset, wire, short>>
      BY <2>4 DEF NoFile, Control
    <3> QED BY <2>0, <2>4, <3>1 DEF Framing, IsAnswer, Text, getResponseHeaders, BodyBytes
  <2>5. CASE fd.state = "open" /\ BeginFile /\ UNCHANGED fd
    <3>1. /\ io = "sent" /\ io' = "sendfile"
          /\ UNCHANGED <<text, total_bytes, offset, wire, short>>
      BY <2>5 DEF BeginFile
    <3> QED BY <2>0, <2>5, <3>1 DEF Framing, IsAnswer, Text, getResponseHeaders, BodyBytes
  <2>6. CASE SendFile(fd.size) /\ UNCHANGED fd
    <3>0. fd.state = "open" /\ io = "sendfile" /\ offset \in Nat /\ fd.size \in Nat
          /\ offset < fd.size /\ text = Text(response)
      BY <2>6 DEF SendFile, Control, Framing
    <3>1. UNCHANGED <<io, text, total_bytes, short>>
      BY <2>6 DEF SendFile
    <3>2. PICK n \in 1..Min({ChunkSize, fd.size - offset}) :
            /\ wire' = wire \o FileBytes(offset, n) /\ offset' = offset + n
      BY <2>6 DEF SendFile, OffsetMoves
    <3>3. n \in Nat /\ offset + n <= fd.size
      <4> DEFINE T == {ChunkSize, fd.size - offset}
      <4>1. T \subseteq Nat /\ T # {} BY <3>0, SocketAssumption
      <4>2. Min(T) \in Nat /\ Min(T) <= fd.size - offset BY <4>1, LeastIsMin
      <4> QED BY <3>0, <3>2, <4>2
    <3>4. short' = 0 => wire' = text' \o FileBytes(0, offset')
      <4>1. SUFFICES ASSUME short = 0 PROVE wire' = text \o FileBytes(0, offset + n)
        BY <3>1, <3>2
      <4>2. wire = text \o FileBytes(0, offset)
        BY <3>0, <4>1 DEF Framing
      <4>3. FileBytes(0, offset) \in Seq(Units) /\ FileBytes(offset, n) \in Seq(Units)
        BY <3>0, <3>3, FileIs
      <4>4. text \in Seq(Units)
        BY <1>0, <3>0
      <4>5. (text \o FileBytes(0, offset)) \o FileBytes(offset, n)
              = text \o (FileBytes(0, offset) \o FileBytes(offset, n))
        BY <4>3, <4>4, ConcatAssociative, SMTT(60)
      <4> QED BY <3>0, <3>2, <3>3, <4>2, <4>5, FileGrows
    <3>5. offset' \in Nat /\ offset' <= fd.size /\ UNCHANGED fd
      BY <2>6, <3>0, <3>2, <3>3
    <3> HIDE <2>6
    <3> QED BY <2>0, <3>0, <3>1, <3>4, <3>5
            DEF Framing, IsAnswer, Text, getResponseHeaders, BodyBytes
  <2>7. CASE SendFileEnds(fd.size) /\ Close
    <3>0. fd.state = "open" /\ io = "sendfile" /\ parsing = "done" /\ offset \in Nat
          /\ fd.size \in Nat
      BY <2>7 DEF SendFileEnds, Control, Framing
    <3>1. /\ io' = "done" /\ UNCHANGED <<text, total_bytes, offset, wire>>
          /\ short' = IF offset < fd.size THEN short + 1 ELSE short
          /\ fd'.state = "closed" /\ fd'.size = fd.size
      BY <2>7 DEF SendFileEnds, Close, Closed, Control
    <3>2. short' \in Nat /\ (short' = 0 => short = 0 /\ ~ (offset < fd.size))
      BY <3>0, <3>1 DEF Framing
    <3>3. response.type = "file"
      BY <3>0 DEF Framing
    <3>4. short' = 0 /\ changes = 0 => offset = response.length
      BY <3>0, <3>2 DEF Framing
    <3> QED BY <2>0, <3>0, <3>1, <3>2, <3>3, <3>4
            DEF Framing, IsAnswer, Text, getResponseHeaders, BodyBytes
  <2> QED BY <1>6, <2>1, <2>2, <2>3, <2>4, <2>5, <2>6, <2>7 DEF WriteStep
<1>7. CASE UNCHANGED vars
  BY <1>7 DEF vars, httpVars, socketVars, Framing, IsAnswer, Text, getResponseHeaders, BodyBytes
<1> QED BY <1>1, <1>2, <1>3, <1>4, <1>5, <1>6, <1>7 DEF Next, CoroutineStep

(* Unless a send is cut or fails, or the file changes, the peer gets the    *)
(* headers once and then as many bytes as Content-Length says.              *)
THEOREM AnswersAreFramed == Spec => []AnswerIsFramed
<1>1. Framing => AnswerIsFramed
  <2> SUFFICES ASSUME Framing, io = "done", short = 0, changes = 0
      PROVE LET head == getResponseHeaders(response)
            IN  /\ SubSeq(wire, 1, Len(head)) = head
                /\ Len(wire) - Len(head) = response.length
    BY DEF AnswerIsFramed
  <2> DEFINE head == getResponseHeaders(response)
  <2> DEFINE bytes == FileBytes(0, offset)
  <2>1. /\ IsAnswer(response) /\ text = Text(response) /\ wire = text \o bytes
        /\ offset = IF response.type = "file" THEN response.length ELSE 0
        /\ response.length \in Nat /\ offset \in Nat
    BY DEF Framing, IsAnswer
  <2>2. /\ text \in Seq(Units) /\ head \in Seq(Units) /\ Len(head) \in Nat \ {0}
        /\ Len(text) \in Nat
        /\ Len(text) = Len(head) + IF response.type = "file" THEN 0 ELSE response.length
        /\ SubSeq(text, 1, Len(head)) = head
    BY <2>1, TextIs, HeadersAre
  <2>3. bytes \in Seq(Units) /\ Len(bytes) = offset
    BY <2>1, FileIs
  <2> HIDE DEF head, bytes
  <2>4. Len(wire) = Len(text) + offset
    <3>1. Len(text \o bytes) = Len(text) + Len(bytes)
      BY <2>2, <2>3, ConcatProperties, Zenon
    <3> QED BY <2>1, <2>3, <3>1
  <2>5. SubSeq(wire, 1, Len(head)) = head
    <3>1. 1 \in 1..Len(text) /\ Len(head) \in 1..Len(text)
      BY <2>1, <2>2
    <3>2. SubSeq(text \o bytes, 1, Len(head)) = SubSeq(text, 1, Len(head))
      BY <2>2, <2>3, <3>1, SubSeqOfConcat1
    <3> QED BY <2>1, <2>2, <3>2
  <2>6. Len(wire) - Len(head) = response.length
    BY <2>1, <2>2, <2>4
  <2> QED BY <2>5, <2>6 DEF head
<1> QED BY <1>1, FramingInit, FramingStep, ControlAlways, PTL DEF Spec

-------------------------------------------------------------------------------
(* The order of the bytes of a file. *)

(* What has been sent is text first and then the file up to offset, however *)
(* the socket has cut them.                                                 *)
Ordered ==
  LET k == Len(wire) - offset
  IN  /\ wire \in Seq(Units) /\ k \in Nat
      /\ \A i \in 1..k : ~ IsFileByte(wire[i])
      /\ \A i \in (k + 1)..Len(wire) : wire[i] = <<"file", i - k>>

LEMMA TextIsNoFile ==
  ASSUME NEW u \in TextUnits
  PROVE  ~ IsFileByte(u)
BY DEF TextUnits, IsFileByte, Statuses, Mimes

LEMMA OrderedStep == Control /\ Framing /\ Ordered /\ [Next]_vars => Ordered'
<1> SUFFICES ASSUME Control, Framing, Ordered, [Next]_vars PROVE Ordered'
  OBVIOUS
<1> DEFINE k == Len(wire) - offset
<1>0. /\ wire \in Seq(Units) /\ k \in Nat /\ offset \in Nat /\ Len(wire) \in Nat
      /\ \A i \in 1..k : ~ IsFileByte(wire[i])
      /\ \A i \in (k + 1)..Len(wire) : wire[i] = <<"file", i - k>>
  BY DEF Ordered, Framing
<1>1. CASE UNCHANGED <<wire, offset>>
  BY <1>1 DEF Ordered, IsFileByte
<1>2. CASE Send
  <2>1. text = Text(response) /\ offset = 0 /\ UNCHANGED offset
    BY <1>2 DEF Send, Writing, Framing
  <2>2. text \in Seq(TextUnits) /\ Len(text) \in Nat
    BY <2>1, TextIs DEF Framing
  <2>3. PICK n \in 1..Len(text) : wire' = wire \o SubSeq(text, 1, n)
    BY <1>2 DEF Send, Sent
  <2> DEFINE sent == SubSeq(text, 1, n)
  <2>4. sent \in Seq(TextUnits) /\ Len(sent) = n
    <3>1. \A i \in 1..n : text[i] \in TextUnits
      BY <2>2, <2>3
    <3> QED BY <2>2, <2>3, <3>1, SubSeqProperties
  <2> HIDE DEF sent
  <2>5. sent \in Seq(Units) /\ \A i \in 1..n : ~ IsFileByte(sent[i])
    <3>1. TextUnits \subseteq Units BY DEF Units
    <3>2. sent \in Seq(Units) BY <2>4, <3>1, SeqMonotonic
    <3>3. \A i \in 1..n : sent[i] \in TextUnits BY <2>4
    <3> QED BY <3>2, <3>3, TextIsNoFile
  <2>6. /\ wire' \in Seq(Units) /\ Len(wire') = Len(wire) + n
        /\ \A i \in 1..(Len(wire) + n) :
             wire'[i] = IF i <= Len(wire) THEN wire[i] ELSE sent[i - Len(wire)]
    <3>1. /\ wire \o sent \in Seq(Units) /\ Len(wire \o sent) = Len(wire) + Len(sent)
          /\ \A i \in 1..(Len(wire) + Len(sent)) :
               (wire \o sent)[i] = IF i <= Len(wire) THEN wire[i] ELSE sent[i - Len(wire)]
      BY <1>0, <2>5, ConcatProperties, Zenon
    <3>2. wire' = wire \o sent
      BY <2>3 DEF sent
    <3> QED BY <2>4, <3>1, <3>2
  <2>7. ASSUME NEW i \in 1..Len(wire') PROVE ~ IsFileByte(wire'[i])
    <3>1. CASE i <= Len(wire)
      <4>1. i \in 1..k /\ wire'[i] = wire[i] BY <1>0, <2>1, <2>6, <3>1
      <4> QED BY <1>0, <4>1
    <3>2. CASE ~ (i <= Len(wire))
      <4>1. i - Len(wire) \in 1..n /\ wire'[i] = sent[i - Len(wire)]
        BY <1>0, <2>3, <2>6, <3>2
      <4> QED BY <2>5, <4>1
    <3> QED BY <3>1, <3>2
  <2>8. Len(wire') - offset' = Len(wire') /\ Len(wire') \in Nat
    BY <1>0, <2>1, <2>3, <2>6
  <2> QED BY <2>6, <2>7, <2>8 DEF Ordered
<1>3. CASE SendFile(fd.size)
  <2>1. fd.size \in Nat /\ offset < fd.size
    BY <1>3 DEF SendFile, Control, Framing
  <2>2. PICK n \in 1..Min({ChunkSize, fd.size - offset}) :
          wire' = wire \o FileBytes(offset, n) /\ offset' = offset + n
    BY <1>3 DEF SendFile, OffsetMoves
  <2>3. n \in Nat
    OBVIOUS
  <2> DEFINE bytes == FileBytes(offset, n)
  <2>4. /\ bytes \in Seq(Units) /\ Len(bytes) = n
        /\ \A i \in 1..n, j \in Nat : j = offset + i => bytes[i] = <<"file", j>>
    BY <1>0, <2>3, FileIs, Zenon
  <2> HIDE DEF bytes
  <2>5. /\ wire' \in Seq(Units) /\ Len(wire') = Len(wire) + n
        /\ \A i \in 1..(Len(wire) + n) :
             wire'[i] = IF i <= Len(wire) THEN wire[i] ELSE bytes[i - Len(wire)]
    <3>1. /\ wire \o bytes \in Seq(Units) /\ Len(wire \o bytes) = Len(wire) + Len(bytes)
          /\ \A i \in 1..(Len(wire) + Len(bytes)) :
               (wire \o bytes)[i] = IF i <= Len(wire) THEN wire[i] ELSE bytes[i - Len(wire)]
      BY <1>0, <2>4, ConcatProperties, Zenon
    <3>2. wire' = wire \o bytes
      BY <2>2 DEF bytes
    <3> QED BY <2>4, <3>1, <3>2
  <2>6. Len(wire') - offset' = k
    BY <1>0, <2>2, <2>3, <2>5
  <2>7. ASSUME NEW i \in 1..k PROVE ~ IsFileByte(wire'[i])
    <3>1. i \in 1..(Len(wire) + n) /\ i <= Len(wire) BY <1>0, <2>3
    <3>2. wire'[i] = wire[i] BY <2>5, <3>1
    <3> QED BY <1>0, <3>2
  <2>8. ASSUME NEW i \in (k + 1)..Len(wire') PROVE wire'[i] = <<"file", i - k>>
    <3>0. i \in 1..(Len(wire) + n) BY <1>0, <2>3, <2>5
    <3>1. CASE i <= Len(wire)
      <4>1. i \in (k + 1)..Len(wire) BY <1>0, <3>0, <3>1
      <4>2. wire'[i] = wire[i] BY <2>5, <3>0, <3>1
      <4> QED BY <1>0, <4>1, <4>2
    <3>2. CASE ~ (i <= Len(wire))
      <4>1. /\ i - Len(wire) \in 1..n /\ i - k \in Nat
            /\ i - k = offset + (i - Len(wire))
        BY <1>0, <2>3, <3>0, <3>2
      <4>2. wire'[i] = bytes[i - Len(wire)] BY <2>5, <3>0, <3>2
      <4>3. bytes[i - Len(wire)] = <<"file", i - k>> BY <2>4, <4>1, Zenon
      <4> QED BY <4>2, <4>3
    <3> QED BY <3>1, <3>2
  <2> HIDE DEF k
  <2> QED BY <1>0, <2>5, <2>6, <2>7, <2>8 DEF Ordered
<1>4. \/ UNCHANGED <<wire, offset>> \/ Send \/ SendFile(fd.size)
  <2>1. CASE ChangeFile \/ BeginParse \/ Parse
    BY <2>1 DEF ChangeFile, BeginParse, Parse, socketVars
  <2>2. CASE External \/ ReadStep \/ handleRequest
    BY <2>2 DEF External, Arrive, HangUp, CloseSocket, ReadStep, Read, ReadEnds,
                handleRequest, BeginWrite
  <2>3. CASE WriteStep
    BY <2>3 DEF WriteStep, SendFails, SendEnds, NoFile, BeginFile, SendFileEnds
  <2>4. CASE UNCHANGED vars
    BY <2>4 DEF vars, socketVars
  <2> QED BY <2>1, <2>2, <2>3, <2>4 DEF Next, CoroutineStep
<1> QED BY <1>1, <1>2, <1>3, <1>4

(* The bytes of a file arrive in order, none twice and none left out, and   *)
(* after all text, however the socket cuts either and however the file      *)
(* changes.                                                                 *)
THEOREM FilesArriveInOrder == Spec => []FileInOrder
<1>1. Framing /\ Ordered => FileInOrder
  <2> SUFFICES ASSUME Framing, Ordered PROVE FileInOrder
    OBVIOUS
  <2> DEFINE k == Len(wire) - offset
  <2>1. /\ wire \in Seq(Units) /\ k \in Nat
        /\ \A i \in 1..k : ~ IsFileByte(wire[i])
        /\ \A i \in (k + 1)..Len(wire) : wire[i] = <<"file", i - k>>
    BY DEF Ordered
  <2>2. k \in 0..Len(wire)
    BY <2>1, LenProperties DEF Framing
  <2> HIDE DEF k
  <2> QED BY <2>1, <2>2 DEF FileInOrder
<1>2. Init => Ordered
  BY EmptySeq DEF Init, SocketInit, Ordered
<1> QED BY <1>1, <1>2, OrderedStep, FramingInit, FramingStep, ControlAlways, PTL DEF Spec
===============================================================================
