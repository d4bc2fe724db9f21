-------------------------- MODULE RequestViewsProofs --------------------------
(****************************************************************************)
(* What parseRequest makes of a text, for every text: the views it takes    *)
(* stay as they were, for no terminator is written into a piece that has    *)
(* been taken; each of its searches finds the first separator; and it       *)
(* accepts exactly what can be read as a request, and takes from it what    *)
(* the reading says, the arguments of its path among it.                    *)
(****************************************************************************)
EXTENDS RequestPathProofs, IncrementParseProofs

ViewPair == Int \X Int

HeaderView == [key : ViewPair, val : ViewPair]

IntactIn(t, v) == \A p \in v[1]..v[2] : p \in DOMAIN t /\ t[p] # NUL

Intact(v) == IntactIn(raw_request, v)

(* The pieces taken: those of a multipart body lie within the body.         *)
Taken ==
  /\ raw_request \in Seq(Bytes)
  /\ request.headers \in Seq(HeaderView) /\ request.parts \in Seq(ViewPair)
  /\ request.raw_body \in ViewPair
  /\ request.raw_body[1] <= request.raw_body[2] + 1
  /\ \A i \in 1..Len(request.headers) :
       Intact(request.headers[i].key) /\ Intact(request.headers[i].val)
  /\ Intact(request.raw_body)
  /\ \A i \in 1..Len(request.parts) :
       /\ request.raw_body[1] <= request.parts[i][1]
       /\ request.parts[i][2] <= request.raw_body[2]

(* The search for the end of a piece stays within the text.                 *)
Search ==
  /\ curr \in 0..Len(str)
  /\ at = "loop" => /\ sep_i \in 0..(Len(sep) - 1)
                    /\ sep_i > 0 => start \in Nat /\ start + sep_i = curr
  /\ at = "returned" /\ ret # -1 => ret \in Nat /\ ret + Len(sep) <= Len(str)

(* What has been taken is behind c_str, and the search is before it; a line *)
(* that is being split ends with the terminator before next_line.           *)
Ahead ==
  parsing \in Pieces =>
    /\ c_str \in 1..(Len(raw_request) + 1)
    /\ request.raw_body = NoView /\ request.parts = <<>>
    /\ \A i \in 1..Len(request.headers) :
         request.headers[i].key[2] < c_str /\ request.headers[i].val[2] < c_str
    /\ str = CString(raw_request, c_str) /\ sep = Separator(parsing)
    /\ Search
    /\ parsing = "key" => /\ TextEnd(raw_request, c_str) <= Len(raw_request)
                          /\ next_line = TextEnd(raw_request, c_str) + 1

ViewsInv ==
  /\ Fields /\ Taken /\ Ahead
  /\ parsing = "idle" => request = NewRequest
  /\ parsing = "form" =>
       /\ form.length \in Int
       /\ form.length <= request.raw_body[2] - request.raw_body[1] + 1

-------------------------------------------------------------------------------

LEMMA Single ==
  ASSUME NEW S, NEW a \in S, NEW b \in S
  PROVE  /\ Len(<<a>>) = 1
         /\ Len(<<a, b>>) = 2
BY Short

LEMMA SeparatorIs ==
  ASSUME NEW piece \in Pieces
  PROVE  Len(Separator(piece)) \in {1, 2} /\ (piece = "key" => Len(Separator(piece)) = 2)
<1> DEFINE S == {" ", "\n", ":"}
<1>1. " " \in S /\ "\n" \in S /\ ":" \in S
  OBVIOUS
<1> HIDE DEF S
<1>2. Len(<<" ">>) = 1 /\ Len(<<"\n">>) = 1 /\ Len(<<":", " ">>) = 2
  BY <1>1, Single, Zenon
<1>3. \/ Separator(piece) = <<" ">> /\ piece # "key"
      \/ Separator(piece) = <<"\n">> /\ piece # "key"
      \/ Separator(piece) = <<":", " ">>
  BY DEF Separator, Pieces
<1> QED BY <1>2, <1>3

(* A terminator is written at index i.                                      *)
LEMMA Cut ==
  ASSUME raw_request \in Seq(Bytes), NEW i \in 1..Len(raw_request)
  PROVE  /\ Terminated(i) \in Seq(Bytes) /\ Len(Terminated(i)) = Len(raw_request)
         /\ \A p \in 1..Len(raw_request) :
              Terminated(i)[p] = IF p = i THEN NUL ELSE raw_request[p]
<1>1. NUL \in Bytes
  BY DEF Bytes
<1> QED BY <1>1, ExceptSeq DEF Terminated

(* The first terminator behind i is at e.                                   *)
LEMMA EndIs ==
  ASSUME NEW t, Len(t) \in Nat, NEW i \in 1..(Len(t) + 1), NEW e \in i..Len(t),
         t[e] = NUL, \A p \in i..(e - 1) : t[p] # NUL
  PROVE  TextEnd(t, i) = e
<1>1. /\ TextEnd(t, i) \in i..(Len(t) + 1)
      /\ TextEnd(t, i) = Len(t) + 1 \/ t[TextEnd(t, i)] = NUL
      /\ \A k \in i..(TextEnd(t, i) - 1) : t[k] # NUL
  BY TextEnds
<1>2. ~ (TextEnd(t, i) > e)
  BY <1>1
<1>3. ~ (TextEnd(t, i) < e)
  BY <1>1
<1> QED BY <1>1, <1>2, <1>3

(* The place where incrementParse found the separator.                      *)
LEMMA FoundAt ==
  ASSUME Taken, Ahead, parsing \in Pieces, Found
  PROVE  LET end == c_str + ret
             stop == TextEnd(raw_request, c_str)
         IN  /\ c_str \in Nat \ {0} /\ end \in c_str..Len(raw_request)
             /\ Len(raw_request) \in Nat
             /\ stop \in c_str..(Len(raw_request) + 1)
             /\ end < stop /\ (parsing = "key" => end + 1 < stop)
             /\ \A p \in c_str..(stop - 1) : raw_request[p] # NUL
<1> DEFINE stop == TextEnd(raw_request, c_str)
<1>1. /\ raw_request \in Seq(Bytes) /\ Len(raw_request) \in Nat
      /\ c_str \in 1..(Len(raw_request) + 1)
  BY DEF Taken, Ahead
<1>2. /\ stop \in c_str..(Len(raw_request) + 1)
      /\ \A p \in c_str..(stop - 1) : raw_request[p] # NUL
  BY <1>1, TextEnds
<1>3. Len(str) = stop - c_str
  BY <1>1, CStringIs DEF Ahead
<1>4. ret \in Nat /\ ret + Len(Separator(parsing)) <= Len(str)
  BY DEF Found, Ahead, Search
<1> HIDE DEF stop
<1>5. ret \in Nat /\ ret + 1 <= Len(str) /\ (parsing = "key" => ret + 2 <= Len(str))
  BY <1>2, <1>3, <1>4, SeparatorIs
<1> QED BY <1>1, <1>2, <1>3, <1>5 DEF stop

(* A search begins.                                                         *)
LEMMA Begins ==
  ASSUME NEW t \in Seq(Bytes), NEW i \in 1..(Len(t) + 1), NEW piece \in Pieces,
         ParseFrom(t, i, piece)
  PROVE  /\ parsing' = piece /\ str' = CString(t, i) /\ sep' = Separator(piece)
         /\ Search'
<1>1. /\ parsing' = piece /\ str' = CString(t, i) /\ sep' = Separator(piece)
      /\ curr' = 0 /\ sep_i' = 0 /\ at' = "loop"
  BY DEF ParseFrom, Call
<1>2. CString(t, i) \in Seq(Char)
  BY CStringIs
<1>3. Len(sep') \in {1, 2} /\ Len(str') \in Nat
  BY <1>1, <1>2, SeparatorIs
<1>4. curr' = 0 /\ sep_i' = 0 /\ at' = "loop"
  BY <1>1
<1>5. PICK n \in 1..2 : n = Len(sep')
  BY <1>3
<1>6. Search'
  BY <1>3, <1>4, <1>5 DEF Search
<1> QED BY <1>1, <1>6

(* The search goes on.                                                      *)
LEMMA SearchStep ==
  ASSUME Search, Len(sep) \in {1, 2}, Len(str) \in Nat, ParseStep
  PROVE  Search' /\ UNCHANGED <<str, sep>>
<1>1. ASSUME NEW k \in 0..2, NEW s, Advance(k, s), InLoop, k <= Len(sep),
             k > 0 => s \in Nat /\ s + k = curr + 1
      PROVE  Search' /\ UNCHANGED <<str, sep>>
  <2>1. UNCHANGED <<str, sep>> /\ sep_i' = k /\ start' = s
    BY <1>1 DEF Advance
  <2>2. at = "loop" /\ curr \in Nat /\ curr < Len(str)
    BY <1>1 DEF InLoop, Search
  <2>3. CASE k = Len(sep)
    <3>1. at' = "returned" /\ ret' = s /\ curr' = curr
      BY <1>1, <2>3 DEF Advance, Return
    <3>2. s \in Nat /\ s + k = curr + 1
      BY <1>1, <2>3
    <3> QED BY <2>1, <2>2, <2>3, <3>1, <3>2 DEF Search
  <2>4. CASE k # Len(sep)
    <3>1. at' = "loop" /\ curr' = curr + 1
      BY <1>1, <2>2, <2>4 DEF Advance
    <3>2. k \in 0..(Len(sep) - 1) /\ curr + 1 \in 0..Len(str)
      BY <1>1, <2>2, <2>4
    <3>3. k > 0 => s \in Nat /\ s + k = curr + 1
      BY <1>1
    <3> QED BY <2>1, <3>1, <3>2, <3>3 DEF Search
  <2> QED BY <2>3, <2>4
<1>2. CASE Match
  <2>1. InLoop /\ Advance(sep_i + 1, IF sep_i = 0 THEN curr ELSE start)
    BY <1>2 DEF Match, Matches
  <2>2. sep_i \in 0..(Len(sep) - 1) /\ (sep_i > 0 => start \in Nat /\ start + sep_i = curr)
        /\ curr \in Nat
    BY <2>1 DEF InLoop, Search
  <2> DEFINE s == IF sep_i = 0 THEN curr ELSE start
  <2>3. sep_i + 1 \in 0..2 /\ sep_i + 1 <= Len(sep)
    <3>1. PICK n \in 1..2 : n = Len(sep) OBVIOUS
    <3> QED BY <2>2, <3>1
  <2>5. s \in Nat /\ s + (sep_i + 1) = curr + 1
    <3>1. CASE sep_i = 0 BY <2>2, <3>1
    <3>2. CASE sep_i # 0
      <4>1. sep_i > 0 BY <2>2, <3>2
      <4>2. start \in Nat /\ start + sep_i = curr BY <2>2, <4>1
      <4> QED BY <2>2, <3>2, <4>2
    <3> QED BY <3>1, <3>2
  <2> HIDE DEF s
  <2>4. Advance(sep_i + 1, s)
    BY <2>1 DEF s
  <2> QED BY <1>1, <2>1, <2>3, <2>4, <2>5
<1>3. CASE Restart
  <2>1. InLoop /\ Advance(1, curr) /\ curr \in Nat
    BY <1>3 DEF Restart, InLoop, Search
  <2>2. curr + 1 = curr + 1 /\ 1 <= Len(sep)
    OBVIOUS
  <2> QED BY <1>1, <2>1, <2>2
<1>4. CASE Mismatch
  <2>1. InLoop /\ Advance(0, start)
    BY <1>4 DEF Mismatch
  <2> QED BY <1>1, <2>1
<1>5. CASE NotFound
  BY <1>5 DEF NotFound, Return, Search
<1> QED BY <1>2, <1>3, <1>4, <1>5 DEF ParseStep
LEMMA ViewsInit == Init => ViewsInv
<1> SUFFICES ASSUME Init PROVE ViewsInv
  OBVIOUS
<1>1. raw_request = <<>> /\ request = NewRequest /\ parsing = "idle"
  BY DEF Init, HTTPInit
<1>2. /\ request.headers = <<>> /\ request.parts = <<>> /\ request.raw_body = <<1, 0>>
  BY <1>1 DEF NewRequest, NoView
<1>3. /\ raw_request \in Seq(Bytes) /\ request.headers \in Seq(HeaderView)
      /\ request.parts \in Seq(ViewPair) /\ Len(request.headers) = 0
      /\ Len(request.parts) = 0 /\ request.raw_body \in ViewPair
  BY <1>1, <1>2, EmptySeq DEF ViewPair
<1>4. Taken
  BY <1>2, <1>3 DEF Taken, Intact, IntactIn
<1> QED BY <1>1, <1>4 DEF ViewsInv, Ahead, Pieces, Fields

(* Nothing happens to the text and to what has been taken of it.            *)
LEMMA ViewsKept ==
  ASSUME ViewsInv,
         UNCHANGED <<raw_request, c_str, next_line, request, form, parsing, parseVars>>
  PROVE  ViewsInv'
BY DEF ViewsInv, Fields, Taken, Ahead, Search, Intact, IntactIn, parseVars, TextEnd,
       CString, Separator

(* The search is over, and the text is not touched any more.                *)
LEMMA ViewsStay ==
  ASSUME ViewsInv, UNCHANGED <<raw_request, request>>,
         parsing' \in {"accepted", "find", "open", "done"}
  PROVE  ViewsInv'
<1>1. Taken'
  BY DEF ViewsInv, Taken, Intact, IntactIn
<1> QED BY <1>1 DEF ViewsInv, Fields, Ahead, Pieces

(* A view that ends before the terminator that is written stays intact.     *)
LEMMA CutIntact ==
  ASSUME raw_request \in Seq(Bytes), NEW e \in 1..Len(raw_request),
         raw_request' = Terminated(e),
         NEW v, \A p \in v[1]..v[2] : p # e, Intact(v)
  PROVE  Intact(v)'
<1>1. /\ Len(raw_request') = Len(raw_request) /\ raw_request' \in Seq(Bytes)
      /\ \A p \in 1..Len(raw_request) :
           raw_request'[p] = IF p = e THEN NUL ELSE raw_request[p]
  BY Cut
<1>2. DOMAIN raw_request = 1..Len(raw_request) /\ DOMAIN raw_request' = 1..Len(raw_request)
  BY <1>1, LenProperties
<1> QED BY <1>1, <1>2 DEF Intact, IntactIn

(* What a step does that writes a terminator at e and takes raw_body.       *)
LEMMA TakenCut ==
  ASSUME ViewsInv, parsing \in Pieces, NEW e \in c_str..Len(raw_request),
         raw_request' = Terminated(e),
         request'.headers = request.headers, request'.parts = request.parts,
         request'.raw_body \in ViewPair,
         request'.raw_body[1] <= request'.raw_body[2] + 1,
         \A p \in request'.raw_body[1]..request'.raw_body[2] :
           p \in 1..Len(raw_request) /\ p # e /\ raw_request[p] # NUL
  PROVE  Taken'
<1>1. /\ raw_request \in Seq(Bytes) /\ Len(raw_request) \in Nat
      /\ c_str \in 1..(Len(raw_request) + 1) /\ request.parts = <<>>
      /\ request.headers \in Seq(HeaderView) /\ request.parts \in Seq(ViewPair)
  BY DEF ViewsInv, Taken, Ahead
<1>2. e \in 1..Len(raw_request)
  BY <1>1
<1>3. /\ Len(raw_request') = Len(raw_request) /\ raw_request' \in Seq(Bytes)
      /\ \A p \in 1..Len(raw_request) :
           raw_request'[p] = IF p = e THEN NUL ELSE raw_request[p]
  BY <1>1, <1>2, Cut
<1>4. ASSUME NEW i \in 1..Len(request.headers)
      PROVE  Intact(request.headers[i].key)' /\ Intact(request.headers[i].val)'
  <2>1. /\ request.headers[i].key[2] < c_str /\ request.headers[i].val[2] < c_str
        /\ Intact(request.headers[i].key) /\ Intact(request.headers[i].val)
        /\ request.headers[i] \in HeaderView
    BY <1>1 DEF ViewsInv, Ahead, Taken
  <2> DEFINE k == request.headers[i].key
  <2> DEFINE v == request.headers[i].val
  <2>2. k \in ViewPair /\ v \in ViewPair /\ k' = k /\ v' = v
    BY <2>1 DEF HeaderView
  <2>3. Intact(k) /\ Intact(v) /\ k[2] < c_str /\ v[2] < c_str
    BY <2>1
  <2> HIDE DEF k, v
  <2>4. (\A p \in k[1]..k[2] : p # e) /\ (\A p \in v[1]..v[2] : p # e)
    BY <1>1, <2>2, <2>3 DEF ViewPair
  <2> QED BY <1>1, <1>2, <2>2, <2>3, <2>4, CutIntact DEF k, v
<1>5. \A p \in request'.raw_body[1]..request'.raw_body[2] :
        p \in DOMAIN raw_request' /\ raw_request'[p] # NUL
  BY <1>3, LenProperties
<1>6. Len(request'.parts) = 0
  BY <1>1, EmptySeq
<1> QED BY <1>1, <1>3, <1>4, <1>5, <1>6 DEF Taken, Intact, IntactIn
(* What holds when the search for the piece after a terminator at e begins. *)
LEMMA AheadCut ==
  ASSUME ViewsInv, parsing \in Pieces, NEW e \in c_str..Len(raw_request),
         raw_request' = Terminated(e),
         UNCHANGED <<request.headers, request.parts, request.raw_body>>,
         NEW from \in {c_str, e + 1}, NEW piece \in Pieces,
         c_str' = from, ParseFrom(Terminated(e), from, piece),
         piece = "key" => /\ from = c_str /\ next_line' = e + 1
                          /\ \A p \in c_str..(e - 1) : raw_request[p] # NUL
  PROVE  Taken' /\ Ahead'
<1>1. /\ raw_request \in Seq(Bytes) /\ Len(raw_request) \in Nat
      /\ c_str \in 1..(Len(raw_request) + 1)
      /\ request.parts = <<>> /\ request.raw_body = NoView
      /\ \A i \in 1..Len(request.headers) :
           request.headers[i].key[2] < c_str /\ request.headers[i].val[2] < c_str
  BY DEF ViewsInv, Taken, Ahead
<1>2. e \in 1..Len(raw_request)
  BY <1>1
<1>3. /\ Len(raw_request') = Len(raw_request) /\ raw_request' \in Seq(Bytes)
      /\ \A p \in 1..Len(raw_request) :
           raw_request'[p] = IF p = e THEN NUL ELSE raw_request[p]
  BY <1>1, <1>2, Cut
<1>4. Taken'
  <2>1. /\ request'.raw_body[1] = 1 /\ request'.raw_body[2] = 0
        /\ request'.raw_body \in ViewPair
    BY <1>1 DEF NoView, ViewPair
  <2> QED BY <2>1, TakenCut
<1>5. from \in 1..(Len(raw_request') + 1)
  BY <1>1, <1>2, <1>3
<1>6. /\ parsing' = piece /\ str' = CString(raw_request', c_str')
      /\ sep' = Separator(piece) /\ Search'
  BY <1>3, <1>5, Begins
<1>7. ASSUME NEW i \in 1..Len(request'.headers)
      PROVE  request'.headers[i].key[2] < c_str' /\ request'.headers[i].val[2] < c_str'
  <2>1. /\ request.headers[i].key[2] < c_str /\ request.headers[i].val[2] < c_str
        /\ request.headers[i] \in HeaderView
    BY <1>1, <1>7 DEF ViewsInv, Taken
  <2>2. request.headers[i].key[2] \in Int /\ request.headers[i].val[2] \in Int
    BY <2>1 DEF HeaderView, ViewPair
  <2>3. c_str <= c_str' /\ c_str \in Nat /\ c_str' \in Nat
    BY <1>1, <1>2
  <2> QED BY <2>1, <2>2, <2>3
<1>8. ASSUME piece = "key"
      PROVE  /\ TextEnd(raw_request', c_str') <= Len(raw_request')
             /\ next_line' = TextEnd(raw_request', c_str') + 1
  <2>1. Len(raw_request') \in Nat /\ c_str' \in 1..(Len(raw_request') + 1)
        /\ e \in c_str'..Len(raw_request') /\ raw_request'[e] = NUL
        /\ \A p \in c_str'..(e - 1) : raw_request'[p] # NUL
    BY <1>1, <1>2, <1>3, <1>8
  <2>2. TextEnd(raw_request', c_str') = e
    BY <2>1, EndIs
  <2> QED BY <1>1, <1>2, <1>3, <1>8, <2>2
<1>9. request'.raw_body = NoView /\ request'.parts = <<>>
  BY <1>1
<1> QED BY <1>4, <1>5, <1>6, <1>7, <1>8, <1>9 DEF Ahead

LEMMA DispatchKeeps ==
  ASSUME ViewsInv, NEW piece \in DOMAIN Following, dispatchHTTP(piece)
  PROVE  ViewsInv'
<1> DEFINE end == c_str + ret
<1>1. /\ parsing = piece /\ Found /\ raw_request' = Terminated(end)
      /\ \E s : request' = [request EXCEPT ![piece] = s]
      /\ c_str' = end + 1 /\ ParseFrom(Terminated(end), end + 1, Following[piece])
  BY DEF dispatchHTTP
<1>2. piece \in {"method", "path", "protocol"} /\ piece \in Pieces
      /\ Following[piece] \in Pieces \ {"key"}
  BY DEF Following, Pieces
<1>3. end \in c_str..Len(raw_request)
  BY <1>1, <1>2, FoundAt DEF ViewsInv
<1>4. Fields' /\ UNCHANGED <<request.headers, request.parts, request.raw_body>>
  BY <1>1, <1>2 DEF ViewsInv, Fields, NewRequest
<1> HIDE DEF end
<1>5. Taken' /\ Ahead'
  BY <1>1, <1>2, <1>3, <1>4, AheadCut
<1>6. parsing' \in Pieces
  BY <1>1, <1>2 DEF ParseFrom
<1> QED BY <1>4, <1>5, <1>6 DEF ViewsInv, Pieces

LEMMA TakeLineKeeps ==
  ASSUME ViewsInv, TakeLine
  PROVE  ViewsInv'
<1> DEFINE end == c_str + ret
<1> DEFINE stop == TextEnd(raw_request, c_str)
<1>1. /\ parsing = "line" /\ parsing \in Pieces /\ Found /\ raw_request' = Terminated(end)
  BY DEF TakeLine, Pieces
<1>2. /\ c_str \in Nat \ {0} /\ end \in c_str..Len(raw_request) /\ Len(raw_request) \in Nat
      /\ stop \in c_str..(Len(raw_request) + 1) /\ end < stop
      /\ \A p \in c_str..(stop - 1) : raw_request[p] # NUL
  BY <1>1, FoundAt DEF ViewsInv
<1>3. CASE EndsHeader(SubSeq(raw_request, c_str, end - 1))
  <2> DEFINE body == <<end + 1, TextEnd(raw_request, end + 1) - 1>>
  <2>1. /\ \E a : request' = [request EXCEPT !.raw_body = body, !.args = a]
        /\ parsing' = "accepted"
    BY <1>3 DEF TakeLine
  <2>2. /\ Fields' /\ request'.raw_body = body
        /\ request'.headers = request.headers /\ request'.parts = request.parts
    BY <2>1 DEF ViewsInv, Fields, NewRequest
  <2>3. /\ TextEnd(raw_request, end + 1) \in (end + 1)..(Len(raw_request) + 1)
        /\ \A p \in (end + 1)..(TextEnd(raw_request, end + 1) - 1) : raw_request[p] # NUL
    <3>1. end + 1 \in 1..(Len(raw_request) + 1) BY <1>2
    <3> QED BY <1>2, <3>1, TextEnds
  <2>4. /\ body \in ViewPair /\ body[1] <= body[2] + 1
        /\ \A p \in body[1]..body[2] :
             p \in 1..Len(raw_request) /\ p # end /\ raw_request[p] # NUL
    BY <1>2, <2>3 DEF ViewPair
  <2> HIDE DEF end, body
  <2>5. Taken'
    BY <1>1, <1>2, <2>2, <2>4, TakenCut
  <2> QED BY <2>1, <2>2, <2>5 DEF ViewsInv, Ahead, Pieces
<1>4. CASE ~ EndsHeader(SubSeq(raw_request, c_str, end - 1))
  <2>1. /\ next_line' = end + 1 /\ ParseFrom(Terminated(end), c_str, "key")
        /\ c_str' = c_str /\ request' = request
    BY <1>4 DEF TakeLine
  <2>2. /\ "key" \in Pieces /\ \A p \in c_str..(end - 1) : raw_request[p] # NUL
    BY <1>2 DEF Pieces
  <2>3. parsing' = "key"
    BY <2>1 DEF ParseFrom
  <2> HIDE DEF end
  <2>4. Taken' /\ Ahead'
    BY <1>1, <1>2, <2>1, <2>2, AheadCut
  <2> QED BY <2>1, <2>3, <2>4 DEF ViewsInv, Fields
<1> QED BY <1>3, <1>4
LEMMA TakeHeaderKeeps ==
  ASSUME ViewsInv, TakeHeader
  PROVE  ViewsInv'
<1> DEFINE end == c_str + ret
<1> DEFINE stop == TextEnd(raw_request, c_str)
<1> DEFINE key == <<c_str, end - 1>>
<1> DEFINE val == <<end + 2, next_line - 2>>
<1> DEFINE h == [key |-> key, val |-> val]
<1> DEFINE hs == request.headers
<1> DEFINE hs1 == Inserted(hs, key, val)
<1>1. /\ parsing = "key" /\ parsing \in Pieces /\ Found /\ raw_request' = Terminated(end)
      /\ request' = [request EXCEPT !.headers = hs1]
      /\ c_str' = next_line /\ ParseFrom(Terminated(end), next_line, "line")
  BY DEF TakeHeader, Pieces
<1>2. /\ c_str \in Nat \ {0} /\ end \in c_str..Len(raw_request) /\ Len(raw_request) \in Nat
      /\ stop \in c_str..(Len(raw_request) + 1) /\ end < stop /\ end + 1 < stop
      /\ \A p \in c_str..(stop - 1) : raw_request[p] # NUL
  BY <1>1, FoundAt DEF ViewsInv
<1>3. stop <= Len(raw_request) /\ next_line = stop + 1
  BY <1>1 DEF ViewsInv, Ahead
<1>4. /\ raw_request \in Seq(Bytes) /\ hs \in Seq(HeaderView) /\ request.parts = <<>>
      /\ request.raw_body = NoView
      /\ \A i \in 1..Len(hs) :
           /\ hs[i].key[2] < c_str /\ hs[i].val[2] < c_str
           /\ Intact(hs[i].key) /\ Intact(hs[i].val)
  BY <1>1 DEF ViewsInv, Taken, Ahead
<1>5. /\ Fields' /\ request'.headers = hs1 /\ request'.parts = request.parts
      /\ request'.raw_body = request.raw_body
  BY <1>1 DEF ViewsInv, Fields, NewRequest
<1>6. hs1 = hs \/ hs1 = Append(hs, h)
  BY DEF Inserted
<1>7. DOMAIN raw_request = 1..Len(raw_request)
  BY <1>4, LenProperties
<1>8. h \in HeaderView /\ h.key = key /\ h.val = val
  BY <1>2, <1>3 DEF HeaderView, ViewPair
<1>9. /\ key[1] = c_str /\ key[2] = end - 1 /\ val[1] = end + 2 /\ val[2] = stop - 1
  BY <1>2, <1>3
<1>10. /\ Intact(key) /\ Intact(val)
       /\ \A p \in key[1]..key[2] : p # end
       /\ \A p \in val[1]..val[2] : p # end
  BY <1>2, <1>3, <1>7, <1>9 DEF Intact, IntactIn
<1>11. end \in 1..Len(raw_request) /\ next_line \in 1..(Len(raw_request) + 1)
  BY <1>2, <1>3
<1>12. /\ Len(raw_request') = Len(raw_request) /\ raw_request' \in Seq(Bytes)
  BY <1>1, <1>4, <1>11, Cut
<1>13. ASSUME NEW v, Intact(v), \A p \in v[1]..v[2] : p # end
       PROVE  IntactIn(raw_request', v)
  <2>1. Intact(v)'
    BY <1>1, <1>4, <1>11, <1>13, CutIntact
  <2> QED BY <2>1 DEF Intact, IntactIn
<1>14. ASSUME NEW i \in 1..Len(hs)
       PROVE  /\ IntactIn(raw_request', hs[i].key) /\ IntactIn(raw_request', hs[i].val)
              /\ hs[i].key[2] < next_line /\ hs[i].val[2] < next_line
  <2> DEFINE k == hs[i].key
  <2> DEFINE v == hs[i].val
  <2>1. Intact(k) /\ Intact(v) /\ k[2] < c_str /\ v[2] < c_str
    BY <1>4
  <2>2. k \in ViewPair /\ v \in ViewPair
    <3>1. hs[i] \in HeaderView
      <4> HIDE DEF hs
      <4> QED BY <1>4
    <3> QED BY <3>1 DEF HeaderView
  <2> HIDE DEF k, v
  <2>3. (\A p \in k[1]..k[2] : p # end) /\ (\A p \in v[1]..v[2] : p # end)
        /\ k[2] < next_line /\ v[2] < next_line
    BY <1>2, <1>3, <2>1, <2>2 DEF ViewPair
  <2>4. IntactIn(raw_request', k) /\ IntactIn(raw_request', v)
    BY <1>13, <2>1, <2>3
  <2> QED BY <2>3, <2>4 DEF k, v
<1>15. /\ IntactIn(raw_request', h.key) /\ IntactIn(raw_request', h.val)
       /\ h.key[2] < next_line /\ h.val[2] < next_line
  <2>1. key[2] < next_line /\ val[2] < next_line
    BY <1>2, <1>3, <1>9
  <2> HIDE DEF key, val, h
  <2>2. IntactIn(raw_request', key) /\ IntactIn(raw_request', val)
    BY <1>10, <1>13
  <2> QED BY <1>8, <2>1, <2>2
<1> HIDE DEF h, hs, hs1, key, val, end, stop
<1>16. /\ hs1 \in Seq(HeaderView)
       /\ \A i \in 1..Len(hs1) :
            /\ IntactIn(raw_request', hs1[i].key) /\ IntactIn(raw_request', hs1[i].val)
            /\ hs1[i].key[2] < next_line /\ hs1[i].val[2] < next_line
  <2>1. CASE hs1 = hs
    BY <1>4, <1>14, <2>1
  <2>2. CASE hs1 = Append(hs, h)
    <3>1. /\ hs1 \in Seq(HeaderView) /\ Len(hs1) = Len(hs) + 1 /\ Len(hs) \in Nat
          /\ hs1[Len(hs) + 1] = h /\ \A i \in 1..Len(hs) : hs1[i] = hs[i]
      BY <1>4, <1>8, <2>2, AppendProperties
    <3>2. ASSUME NEW i \in 1..Len(hs1) PROVE i \in 1..Len(hs) \/ i = Len(hs) + 1
      BY <3>1
    <3> QED BY <1>14, <1>15, <3>1, <3>2
  <2> QED BY <1>6, <2>1, <2>2
<1>17. Taken'
  <2>1. /\ request'.raw_body[1] = 1 /\ request'.raw_body[2] = 0
        /\ request'.raw_body \in ViewPair /\ Len(request'.parts) = 0
        /\ request'.parts \in Seq(ViewPair)
    BY <1>4, <1>5, EmptySeq DEF NoView, ViewPair
  <2> QED BY <1>5, <1>12, <1>16, <2>1 DEF Taken, Intact, IntactIn
<1>18. /\ parsing' = "line" /\ "line" \in Pieces
       /\ str' = CString(raw_request', c_str') /\ sep' = Separator("line") /\ Search'
       /\ c_str' \in 1..(Len(raw_request') + 1)
  <2>1. "line" \in Pieces BY DEF Pieces
  <2>2. Terminated(end) \in Seq(Bytes) /\ next_line \in 1..(Len(Terminated(end)) + 1)
    BY <1>1, <1>11, <1>12
  <2> QED BY <1>1, <1>11, <1>12, <2>1, <2>2, Begins
<1>19. Ahead'
  BY <1>1, <1>4, <1>5, <1>16, <1>18 DEF Ahead
<1> QED BY <1>5, <1>17, <1>18, <1>19 DEF ViewsInv
(* A boundary is a text.                                                    *)
LEMMA BoundaryIs ==
  ASSUME Taken, NEW b \in Boundaries
  PROVE  Len(b) \in Nat
<1> DEFINE From(ct) == {i \in DOMAIN ct : ct[i] = "boundary="}
<1> DEFINE Ends(ct, i) == {j \in (i + 2)..Len(ct) : ct[j] \in {";", "\r"}}
<1> DEFINE Of(ct) == {SubSeq(ct, i + 1, Min(Ends(ct, i)) - 1) :
                        i \in {k \in From(ct) : Ends(ct, k) # {}}}
<1>1. b \in UNION {Of(ct) : ct \in ContentTypes}
  BY DEF Boundaries
<1> HIDE DEF Of
<1>2. PICK ct \in ContentTypes : b \in Of(ct)
  BY <1>1
<1>3. PICK i \in From(ct) : Ends(ct, i) # {} /\ b = SubSeq(ct, i + 1, Min(Ends(ct, i)) - 1)
  <2> HIDE DEF From, Ends
  <2> QED BY <1>2 DEF Of
<1>4. PICK g \in ToSet(request.headers) : ct = ViewText(g.val)
  BY DEF ContentTypes
<1>5. PICK n \in 1..Len(request.headers) : g = request.headers[n]
  BY LenProperties DEF Taken, ToSet
<1>6. g \in HeaderView /\ Intact(g.val)
  BY <1>5 DEF Taken
<1>7. ct \in Seq(Bytes)
  <2> DEFINE v == g.val
  <2>1. v \in ViewPair /\ \A p \in v[1]..v[2] : p \in DOMAIN raw_request
    BY <1>6 DEF HeaderView, Intact, IntactIn
  <2>2. raw_request \in Seq(Bytes) /\ v[1] \in Int /\ v[2] \in Int
    BY <2>1 DEF Taken, ViewPair
  <2>3. \A p \in v[1]..v[2] : raw_request[p] \in Bytes
    BY <2>1, <2>2
  <2>4. SubSeq(raw_request, v[1], v[2]) \in Seq(Bytes)
    BY <2>2, <2>3, SubSeqProperties
  <2> QED BY <1>4, <2>4 DEF ViewText
<1> DEFINE m == Min(Ends(ct, i))
<1>8. i \in 1..Len(ct) /\ Len(ct) \in Nat
  BY <1>3, <1>7, LenProperties
<1>9. Ends(ct, i) \subseteq Nat
  <2>1. \A j \in (i + 2)..Len(ct) : j \in Nat
    BY <1>8
  <2>2. Ends(ct, i) \subseteq (i + 2)..Len(ct)
    OBVIOUS
  <2> QED BY <2>1, <2>2
<1>10. m \in (i + 2)..Len(ct)
  <2>1. m \in Ends(ct, i)
    BY <1>3, <1>9, LeastIsMin
  <2> QED BY <2>1
<1> HIDE DEF m
<1>11. SubSeq(ct, i + 1, m - 1) \in Seq(Bytes)
  <2>1. \A p \in (i + 1)..(m - 1) : ct[p] \in Bytes
    BY <1>7, <1>8, <1>10
  <2> QED BY <1>7, <1>8, <1>10, <2>1, SubSeqProperties
<1>12. b = SubSeq(ct, i + 1, m - 1)
  BY <1>3 DEF m
<1> QED BY <1>11, <1>12

(* The length of the body's text.                                           *)
LEMMA BodyLength ==
  ASSUME Taken
  PROVE  LET v == request.raw_body
         IN  Len(ViewText(v)) = IF v[1] <= v[2] THEN v[2] - v[1] + 1 ELSE 0
<1> DEFINE v == request.raw_body
<1>1. /\ raw_request \in Seq(Bytes) /\ v \in ViewPair
      /\ \A p \in v[1]..v[2] : p \in DOMAIN raw_request
  BY DEF Taken, Intact, IntactIn
<1> HIDE DEF v
<1>2. v[1] \in Int /\ v[2] \in Int /\ \A p \in v[1]..v[2] : raw_request[p] \in Bytes
  BY <1>1 DEF ViewPair
<1>3. Len(SubSeq(raw_request, v[1], v[2])) = IF v[1] <= v[2] THEN v[2] - v[1] + 1 ELSE 0
  BY <1>1, <1>2, SubSeqProperties
<1> QED BY <1>3 DEF ViewText, v

(* What is found in form, also when it dangles, has a place in form.        *)
LEMMA PartsFit ==
  ASSUME ViewsInv, parsing = "form", NEW m \in MatchesInForm
  PROVE  /\ m.from \in Nat \ {0} /\ m.to \in Nat /\ m.end \in Nat
         /\ m.to <= request.raw_body[2] - request.raw_body[1] + 1
<1> DEFINE v == request.raw_body
<1>1. v \in ViewPair /\ form.length \in Int /\ form.length <= v[2] - v[1] + 1
  BY DEF ViewsInv, Taken
<1>2. PICK b \in Boundaries :
        m \in IF form.dangling
                THEN {[from |-> i, to |-> j, end |-> j + 1 + Len(b)] :
                        i, j \in 5..(form.length - 1 - Len(b))}
                ELSE {[from |-> p.from, to |-> p.to, end |-> p.end] :
                        p \in FirstPart(ViewText(v), b)}
  BY DEF MatchesInForm
<1>3. Len(b) \in Nat
  BY BoundaryIs DEF ViewsInv
<1>4. v[1] \in Int /\ v[2] \in Int
  BY <1>1 DEF ViewPair
<1>5. CASE form.dangling
  <2>1. PICK i, j \in 5..(form.length - 1 - Len(b)) :
          m = [from |-> i, to |-> j, end |-> j + 1 + Len(b)]
    BY <1>2, <1>5
  <2>2. m.from = i /\ m.to = j /\ m.end = j + 1 + Len(b)
    BY <2>1
  <2> HIDE DEF v
  <2>3. /\ m.from \in Nat \ {0} /\ m.to \in Nat /\ m.end \in Nat /\ m.to <= v[2] - v[1] + 1
    BY <1>1, <1>3, <1>4, <2>2
  <2> QED BY <2>3 DEF v
<1>6. CASE ~ form.dangling
  <2> DEFINE n == Len(ViewText(v))
  <2>1. PICK p \in FirstPart(ViewText(v), b) :
          m = [from |-> p.from, to |-> p.to, end |-> p.end]
    BY <1>2, <1>6
  <2>2. p.from \in 1..n /\ p.to \in 1..n /\ p.end \in 1..n
    BY <2>1 DEF FirstPart, PartsAt
  <2>3. m.from \in 1..n /\ m.to \in 1..n /\ m.end \in 1..n
    BY <2>1, <2>2
  <2>4. n = IF v[1] <= v[2] THEN v[2] - v[1] + 1 ELSE 0
    BY BodyLength DEF ViewsInv
  <2> HIDE DEF n, v
  <2>5. /\ m.from \in Nat \ {0} /\ m.to \in Nat /\ m.end \in Nat /\ m.to <= v[2] - v[1] + 1
    BY <1>4, <2>3, <2>4
  <2> QED BY <2>5 DEF v
<1> QED BY <1>5, <1>6

LEMMA HandleMethodKeeps ==
  ASSUME ViewsInv, handleMethod
  PROVE  ViewsInv'
<1>1. UNCHANGED raw_request
  BY DEF handleMethod
<1>2. CASE ParseForm
  <2>1. \E a : request' = [request EXCEPT !.body_args = a]
    BY <1>2 DEF ParseForm
  <2>2. /\ Fields' /\ parsing' = "find"
        /\ UNCHANGED <<request.headers, request.parts, request.raw_body>>
    BY <1>2, <2>1 DEF ViewsInv, Fields, NewRequest, ParseForm
  <2>3. Taken'
    BY <1>1, <2>2 DEF ViewsInv, Taken, Intact, IntactIn
  <2> QED BY <2>2, <2>3 DEF ViewsInv, Ahead, Pieces
<1>3. CASE IgnoreBody
  BY <1>1, <1>3, ViewsStay DEF IgnoreBody
<1>4. CASE BeginParts
  <2>1. /\ UNCHANGED request /\ parsing' = "form"
        /\ form'.length = Len(ViewText(request.raw_body))
    BY <1>4 DEF BeginParts
  <2>2. Taken' /\ Fields'
    BY <1>1, <2>1 DEF ViewsInv, Taken, Intact, IntactIn, Fields
  <2> DEFINE v == request.raw_body
  <2>3. v \in ViewPair /\ v[1] <= v[2] + 1
    BY DEF ViewsInv, Taken
  <2>4. form'.length = IF v[1] <= v[2] THEN v[2] - v[1] + 1 ELSE 0
    BY <2>1, BodyLength DEF ViewsInv
  <2> HIDE DEF v
  <2>5. form'.length \in Int /\ form'.length <= v[2] - v[1] + 1
    BY <2>3, <2>4 DEF ViewPair
  <2>6. form'.length <= request'.raw_body[2] - request'.raw_body[1] + 1
    BY <2>1, <2>5 DEF v
  <2> QED BY <2>1, <2>2, <2>5, <2>6 DEF ViewsInv, Ahead, Pieces
<1>5. CASE parsing = "form" /\ NoMorePart
  BY <1>1, <1>5, ViewsStay DEF NoMorePart
<1>6. ASSUME parsing = "form", NEW m \in MatchesInForm, TakePart(m)
      PROVE  ViewsInv'
  <2> DEFINE v == request.raw_body
  <2> DEFINE ps == request.parts
  <2>1. /\ m.from <= m.to /\ request' = [request EXCEPT !.parts = Append(ps, Content(m))]
        /\ form'.length = form.length - m.end /\ parsing' = "form"
    BY <1>6 DEF TakePart
  <2>2. /\ m.from \in Nat \ {0} /\ m.to \in Nat /\ m.end \in Nat
        /\ m.to <= v[2] - v[1] + 1
    BY <1>6, PartsFit
  <2>3. /\ v \in ViewPair /\ ps \in Seq(ViewPair)
        /\ form.length \in Int /\ form.length <= v[2] - v[1] + 1
        /\ \A i \in 1..Len(ps) : v[1] <= ps[i][1] /\ ps[i][2] <= v[2]
    BY <1>6 DEF ViewsInv, Taken
  <2>4. /\ Fields' /\ request'.parts = Append(ps, Content(m))
        /\ request'.headers = request.headers /\ request'.raw_body = v
    BY <2>1 DEF ViewsInv, Fields, NewRequest
  <2> DEFINE c == Content(m)
  <2>5. c = <<v[1] + m.from - 1, v[1] + m.to - 1>>
    BY DEF Content
  <2> HIDE DEF v, ps, c
  <2>6. c \in ViewPair /\ v[1] <= c[1] /\ c[2] <= v[2]
    <3>1. v[1] \in Int /\ v[2] \in Int
      BY <2>3 DEF ViewPair
    <3>2. /\ v[1] + m.from - 1 \in Int /\ v[1] <= v[1] + m.from - 1
          /\ v[1] + m.to - 1 \in Int /\ v[1] + m.to - 1 <= v[2]
      BY <2>2, <3>1
    <3> QED BY <2>5, <3>2 DEF ViewPair
  <2>7. /\ Append(ps, c) \in Seq(ViewPair)
        /\ \A i \in 1..Len(Append(ps, c)) :
             v[1] <= Append(ps, c)[i][1] /\ Append(ps, c)[i][2] <= v[2]
    <3>1. /\ Append(ps, c) \in Seq(ViewPair) /\ Len(Append(ps, c)) = Len(ps) + 1
          /\ Len(ps) \in Nat /\ Append(ps, c)[Len(ps) + 1] = c
          /\ \A i \in 1..Len(ps) : Append(ps, c)[i] = ps[i]
      BY <2>3, <2>6, AppendProperties
    <3>2. ASSUME NEW i \in 1..Len(Append(ps, c)) PROVE i \in 1..Len(ps) \/ i = Len(ps) + 1
      BY <3>1
    <3> QED BY <2>3, <2>6, <3>1, <3>2
  <2>8. Taken'
    <3>1. request'.parts = Append(ps, c) BY <2>4 DEF c
    <3>2. /\ raw_request \in Seq(Bytes) /\ request.headers \in Seq(HeaderView)
          /\ v[1] <= v[2] + 1 /\ Intact(v)
          /\ \A i \in 1..Len(request.headers) :
               Intact(request.headers[i].key) /\ Intact(request.headers[i].val)
      BY DEF ViewsInv, Taken, v
    <3> QED BY <1>1, <2>3, <2>4, <2>7, <3>1, <3>2 DEF Taken, Intact, IntactIn
  <2>9. form'.length \in Int /\ form'.length <= v[2] - v[1] + 1
    BY <2>1, <2>2, <2>3 DEF ViewPair
  <2> QED BY <2>1, <2>4, <2>8, <2>9 DEF ViewsInv, Ahead, Pieces
<1> QED BY <1>2, <1>3, <1>4, <1>5, <1>6 DEF handleMethod

LEMMA ViewsStep == Control /\ Reading /\ ViewsInv /\ [Next]_vars => ViewsInv'
<1> SUFFICES ASSUME Control, Reading, ViewsInv, [Next]_vars PROVE ViewsInv'
  OBVIOUS
<1>1. CASE ChangeFile \/ External \/ ReadStep \/ handleRequest \/ WriteStep \/ UNCHANGED vars
  <2>1. UNCHANGED <<raw_request, c_str, next_line, request, form, parsing, parseVars>>
    BY <1>1 DEF ChangeFile, External, ReadStep, handleRequest, WriteStep, httpVars, vars
  <2> QED BY <2>1, ViewsKept
<1>3. CASE Parse
  <2>1. CASE ParseStep /\ UNCHANGED httpVars
    <3>1. parsing \in Pieces /\ UNCHANGED httpVars
      BY <2>1 DEF ParseStep, Match, Matches, Restart, Mismatch, InLoop, NotFound, Control
    <3>2. /\ sep = Separator(parsing) /\ str = CString(raw_request, c_str) /\ Search
          /\ raw_request \in Seq(Bytes) /\ c_str \in 1..(Len(raw_request) + 1)
      BY <3>1 DEF ViewsInv, Ahead, Taken
    <3>3. Len(sep) \in {1, 2} /\ Len(str) \in Nat
      <4>1. str \in Seq(Char) BY <3>2, CStringIs
      <4> QED BY <3>1, <3>2, <4>1, SeparatorIs
    <3>4. Search' /\ UNCHANGED <<str, sep>>
      BY <2>1, <3>2, <3>3, SearchStep
    <3>5. UNCHANGED <<raw_request, c_str, next_line, request, form, parsing>>
      BY <3>1 DEF httpVars
    <3>6. Taken' /\ Fields'
      BY <3>5 DEF ViewsInv, Taken, Intact, IntactIn, Fields
    <3>7. Ahead'
      BY <3>1, <3>4, <3>5 DEF ViewsInv, Ahead, TextEnd, CString, Separator
    <3> QED BY <3>5, <3>6, <3>7 DEF ViewsInv
  <2>2. CASE \E piece \in DOMAIN Following : dispatchHTTP(piece)
    BY <2>2, DispatchKeeps
  <2>3. CASE TakeLine
    BY <2>3, TakeLineKeeps
  <2>4. CASE TakeHeader
    BY <2>4, TakeHeaderKeeps
  <2>5. CASE Reject
    BY <2>5, ViewsStay DEF Reject
  <2>6. CASE handleMethod
    BY <2>6, HandleMethodKeeps
  <2>7. CASE defaultFileFounder
    BY <2>7, ViewsStay DEF defaultFileFounder
  <2>8. CASE findHandler
    <3>1. CASE CallHandler \/ Stat
      BY <2>8, <3>1, ViewsStay DEF findHandler, CallHandler, Stat
    <3>2. CASE defaultPage
      <4>1. UNCHANGED raw_request /\ parsing' = "open"
            /\ \E p : request' = [request EXCEPT !.path = p]
        BY <2>8, <3>2 DEF findHandler, defaultPage
      <4>2. Fields' /\ UNCHANGED <<request.headers, request.parts, request.raw_body>>
        BY <4>1 DEF ViewsInv, Fields, NewRequest
      <4>3. Taken'
        BY <4>1, <4>2 DEF ViewsInv, Taken, Intact, IntactIn
      <4> QED BY <4>1, <4>2, <4>3 DEF ViewsInv, Ahead, Pieces
    <3> QED BY <2>8, <3>1, <3>2 DEF findHandler
  <2> QED BY <1>3, <2>1, <2>2, <2>3, <2>4, <2>5, <2>6, <2>7, <2>8 DEF Parse, HTTPStep
<1>2. CASE BeginParse
  <2>1. /\ parsing = "idle" /\ raw_request' = result /\ c_str' = 1
        /\ ParseFrom(result, 1, "method") /\ request' = request
    BY <1>2 DEF BeginParse, parseRequest
  <2>2. result \in Seq(Bytes)
    <3>1. Char \subseteq Bytes BY DEF Bytes
    <3> QED BY <3>1, SeqMonotonic DEF Reading
  <2>3. 1 \in 1..(Len(result) + 1) /\ "method" \in Pieces
    BY <2>2 DEF Pieces
  <2>4. /\ parsing' = "method" /\ str' = CString(raw_request', c_str')
        /\ sep' = Separator("method") /\ Search'
    BY <2>1, <2>2, <2>3, Begins
  <2>5. /\ request'.headers = <<>> /\ request'.parts = <<>> /\ request'.raw_body = NoView
        /\ Fields'
    BY <2>1 DEF ViewsInv, NewRequest, Fields
  <2>6. /\ request'.headers \in Seq(HeaderView) /\ request'.parts \in Seq(ViewPair)
        /\ Len(request'.headers) = 0 /\ Len(request'.parts) = 0
        /\ request'.raw_body \in ViewPair
        /\ request'.raw_body[1] = 1 /\ request'.raw_body[2] = 0
    BY <2>5, EmptySeq DEF NoView, ViewPair
  <2>7. Taken'
    BY <2>1, <2>2, <2>6 DEF Taken, Intact, IntactIn
  <2>8. Ahead'
    BY <2>1, <2>2, <2>3, <2>4, <2>5, <2>6 DEF Ahead
  <2> QED BY <2>4, <2>5, <2>7, <2>8 DEF ViewsInv
<1> QED BY <1>1, <1>2, <1>3 DEF Next, CoroutineStep

(* No view that parseRequest keeps has a terminator in it, whatever the     *)
(* text: what is written over the separators never falls into a piece       *)
(* already taken, and every part that is found lies within the body, even   *)
(* those found through the dangling view.                                   *)
THEOREM ViewsStayIntact == Spec => []ViewsAreIntact
<1>1. ViewsInv => ViewsAreIntact
  <2> SUFFICES ASSUME Taken,
                      NEW v \in {request.raw_body} \cup ToSet(request.parts)
                        \cup UNION {{h.key, h.val} : h \in ToSet(request.headers)}
               PROVE  Intact(v)
    BY DEF ViewsInv, ViewsAreIntact, Intact, IntactIn
  <2>1. CASE v = request.raw_body
    BY <2>1 DEF Taken
  <2>2. CASE v \in ToSet(request.parts)
    <3>1. PICK i \in 1..Len(request.parts) : v = request.parts[i]
      BY <2>2, LenProperties DEF ToSet, Taken
    <3> DEFINE body == request.raw_body
    <3>2. v \in ViewPair /\ body \in ViewPair /\ body[1] <= v[1] /\ v[2] <= body[2]
          /\ Intact(body)
      BY <3>1 DEF Taken
    <3> HIDE DEF body
    <3>3. \A p \in v[1]..v[2] : p \in body[1]..body[2]
      BY <3>2 DEF ViewPair
    <3> QED BY <3>2, <3>3 DEF Intact, IntactIn
  <2>3. ASSUME NEW h \in ToSet(request.headers), v \in {h.key, h.val}
        PROVE  Intact(v)
    <3>1. PICK i \in 1..Len(request.headers) : h = request.headers[i]
      BY <2>3, LenProperties DEF ToSet, Taken
    <3> QED BY <2>3, <3>1 DEF Taken
  <2> QED BY <2>1, <2>2, <2>3
<1> QED BY <1>1, ViewsInit, ViewsStep, ControlAlways, ReadingAlways, PTL DEF Spec

-------------------------------------------------------------------------------
(* Searching *)

(* A search that begins calls incrementParse as it may be called.           *)
LEMMA CallsAny ==
  ASSUME NEW t \in Seq(Bytes), NEW i \in 1..(Len(t) + 1), NEW piece \in Pieces,
         ParseFrom(t, i, piece), at # "loop"
  PROVE  CallAny
<1>1. CString(t, i) \in Seq(Char)
  BY CStringIs
<1>2. Separator(piece) \in Separators
  BY PathAssumption
<1>3. Call(CString(t, i), Separator(piece))
  BY DEF ParseFrom
<1> QED BY <1>1, <1>2, <1>3 DEF CallAny

(* ... also in the text with a terminator written into it.                  *)
LEMMA CallsTerminated ==
  ASSUME ViewsInv, at # "loop", c_str \in Nat \ {0}, Len(raw_request) \in Nat,
         NEW e \in c_str..Len(raw_request),
         NEW i \in 1..(Len(raw_request) + 1), NEW piece \in Pieces,
         ParseFrom(Terminated(e), i, piece)
  PROVE  CallAny
<1>1. raw_request \in Seq(Bytes) /\ e \in 1..Len(raw_request)
  BY DEF ViewsInv, Taken
<1>2. Terminated(e) \in Seq(Bytes) /\ Len(Terminated(e)) = Len(raw_request)
  BY <1>1, Cut
<1> QED BY <1>2, CallsAny

LEMMA ParseSimulates ==
  Control /\ Reading /\ ViewsInv /\ [Next]_vars => [ParseStep \/ CallAny]_parseVars
<1> SUFFICES ASSUME Control, Reading, ViewsInv, [Next]_vars
             PROVE  ParseStep \/ CallAny \/ UNCHANGED parseVars
  OBVIOUS
<1>1. CASE ChangeFile \/ External \/ ReadStep \/ handleRequest \/ WriteStep \/ UNCHANGED vars
  BY <1>1 DEF ChangeFile, External, ReadStep, handleRequest, WriteStep, vars
<1>2. CASE BeginParse
  <2>1. parsing = "idle" /\ ParseFrom(result, 1, "method")
    BY <1>2 DEF BeginParse, parseRequest
  <2>2. at # "loop" /\ "method" \in Pieces
    BY <2>1 DEF Control, Pieces
  <2>3. result \in Seq(Bytes) /\ 1 \in 1..(Len(result) + 1)
    <3>1. Char \subseteq Bytes BY DEF Bytes
    <3>2. result \in Seq(Bytes) BY <3>1, SeqMonotonic DEF Reading
    <3> QED BY <3>2
  <2> QED BY <2>1, <2>2, <2>3, CallsAny
<1>3. CASE Parse
  <2>1. CASE ParseStep \/ Reject \/ handleMethod \/ findHandler \/ defaultFileFounder
    BY <2>1 DEF Reject, handleMethod, findHandler, defaultFileFounder
  <2>2. ASSUME NEW piece \in DOMAIN Following, dispatchHTTP(piece)
        PROVE  CallAny
    <3> DEFINE end == c_str + ret
    <3>1. /\ parsing = piece /\ Found
          /\ ParseFrom(Terminated(end), end + 1, Following[piece])
      BY <2>2 DEF dispatchHTTP
    <3>2. piece \in Pieces \ {"key"} /\ Following[piece] \in Pieces
      BY DEF Following, Pieces
    <3>3. end \in c_str..Len(raw_request) /\ c_str \in Nat \ {0} /\ Len(raw_request) \in Nat
      BY <3>1, <3>2, FoundAt DEF ViewsInv
    <3> HIDE DEF end
    <3>4. end + 1 \in 1..(Len(raw_request) + 1)
      BY <3>3
    <3> DEFINE next == Following[piece]
    <3>5. next \in Pieces /\ ParseFrom(Terminated(end), end + 1, next) /\ at # "loop"
      BY <3>1, <3>2 DEF Found
    <3> HIDE DEF next
    <3> QED BY <3>3, <3>4, <3>5, CallsTerminated
  <2>3. ASSUME TakeLine \/ TakeHeader, ~ UNCHANGED parseVars
        PROVE  CallAny
    <3> DEFINE end == c_str + ret
    <3>1. /\ parsing \in Pieces /\ Found
          /\ \/ parsing = "line" /\ ParseFrom(Terminated(end), c_str, "key")
             \/ parsing = "key" /\ ParseFrom(Terminated(end), next_line, "line")
      BY <2>3 DEF TakeLine, TakeHeader, Pieces
    <3>2. /\ end \in c_str..Len(raw_request) /\ c_str \in Nat \ {0} /\ Len(raw_request) \in Nat
          /\ TextEnd(raw_request, c_str) \in c_str..(Len(raw_request) + 1)
      BY <3>1, FoundAt DEF ViewsInv
    <3> HIDE DEF end
    <3>3. "key" \in Pieces /\ "line" \in Pieces /\ at # "loop"
      BY <3>1 DEF Pieces, Found
    <3>4. parsing = "key" => next_line \in 1..(Len(raw_request) + 1)
      BY <3>2, <3>3 DEF ViewsInv, Ahead
    <3>5. c_str \in 1..(Len(raw_request) + 1)
      BY <3>2
    <3>6. CASE ParseFrom(Terminated(end), c_str, "key")
      BY <3>2, <3>3, <3>5, <3>6, CallsTerminated
    <3>7. CASE parsing = "key" /\ ParseFrom(Terminated(end), next_line, "line")
      BY <3>2, <3>3, <3>4, <3>7, CallsTerminated
    <3> QED BY <3>1, <3>6, <3>7
  <2> QED BY <1>3, <2>1, <2>2, <2>3 DEF Parse, HTTPStep
<1> QED BY <1>1, <1>2, <1>3 DEF Next, CoroutineStep

(* A request calls incrementParse as it may be called: what is proved of    *)
(* the search holds of every search of every request.                       *)
THEOREM RequestParses == Spec => ParseSpec
<1>1. Init => Idle
  BY DEF Init
<1> QED BY <1>1, ParseSimulates, ViewsInit, ViewsStep, ControlAlways, ReadingAlways, PTL
        DEF Spec, ParseSpec

(* Every search of a request finds the first separator, if there is one.    *)
THEOREM SearchesFindFirst == Spec => []FindsFirst
BY RequestParses, ParseFindsFirst, PTL

-------------------------------------------------------------------------------
(* What is parsed *)

(* The method, the path and the version end at the blanks i and j and the   *)
(* break k of t, and these are the pieces of a request q.                   *)
MethodEnds(t, i) ==
  i \in 1..Len(t) /\ t[i] = " " /\ \A p \in 1..(i - 1) : t[p] # " "

PathEnds(t, i, j) ==
  j \in (i + 1)..Len(t) /\ t[j] = " " /\ \A p \in (i + 1)..(j - 1) : t[p] # " "

ProtocolEnds(t, j, k) ==
  k \in (j + 1)..Len(t) /\ t[k] = "\n" /\ \A p \in (j + 1)..(k - 1) : t[p] # "\n"

MethodTo(t, q, i) == MethodEnds(t, i) /\ q.method = SubSeq(t, 1, i - 1)

PathTo(t, q, i, j) == PathEnds(t, i, j) /\ q.path = SubSeq(t, i + 1, j - 1)

ProtocolTo(t, q, j, k) == ProtocolEnds(t, j, k) /\ q.protocol = SubSeq(t, j + 1, k - 1)

FirstLine(t, q, i, j, k) ==
  MethodTo(t, q, i) /\ PathTo(t, q, i, j) /\ ProtocolTo(t, q, j, k)

(* The header lines between the breaks k and m: where a line begins, where  *)
(* it ends and where its colon is.                                          *)
LinesTo(t, k, m) ==
  {x \in (k..m) \X (k..m) \X (k..m) :
     x[1] < x[2] /\ IsLine(t, x[1], x[2]) /\ HeaderLine(t, x[1], x[2], x[3])}

KeyOf(t, x) == SubSeq(t, x[1] + 1, x[3] - 1)

FirstOf(t, k, m, x) ==
  \A y \in LinesTo(t, k, m) : KeyOf(t, x) = KeyOf(t, y) => x[1] <= y[1]

ViewsOf(x) == [key |-> <<x[1] + 1, x[3] - 1>>, val |-> <<x[3] + 2, x[2] - 1>>]

(* A line that is only "\r" ends at p.                                      *)
EndAt(t, p) == t[p - 2] = "\n" /\ t[p - 1] = "\r" /\ t[p] = "\n"

Split(t, k, m) ==
  \A a, b \in k..m : a < b /\ IsLine(t, a, b) => \E c \in a..b : HeaderLine(t, a, b, c)

(* The header is parsed up to the break m: every line is split, the headers *)
(* are the first lines with each key, and the header has not ended.         *)
HeadersTo(t, hs, k, m) ==
  /\ \A n \in 1..Len(hs) :
       \E x \in LinesTo(t, k, m) : FirstOf(t, k, m, x) /\ hs[n] = ViewsOf(x)
  /\ \A x \in LinesTo(t, k, m) :
       FirstOf(t, k, m, x) => \E n \in 1..Len(hs) : hs[n] = ViewsOf(x)
  /\ Split(t, k, m)
  /\ \A p \in (k + 2)..m : ~ EndAt(t, p)

(* The break m ends the line that begins at c, and it does not end the      *)
(* header.                                                                  *)
LineTo(t, c, m) ==
  /\ m \in c..Len(t) /\ t[m] = "\n"
  /\ \A p \in c..(m - 1) : t[p] # "\n"
  /\ ~ (m = c + 1 /\ t[c] = "\r")

Unreadable(t) == \A r \in Readings(t) : ~ WellFormed(t, r)

(* The text is the one that was read, except where terminators were written.*)
Copy ==
  /\ Len(raw_request) = Len(result)
  /\ \A p \in 1..Len(result) : raw_request[p] \in {result[p], NUL}

ParsedTo ==
  CASE parsing = "method" -> c_str = 1
    [] parsing = "path" ->
         \E i \in 1..Len(result) : MethodTo(result, request, i) /\ c_str = i + 1
    [] parsing = "protocol" ->
         \E i, j \in 1..Len(result) :
           MethodTo(result, request, i) /\ PathTo(result, request, i, j) /\ c_str = j + 1
    [] parsing \in {"line", "key"} ->
         \E i, j, k \in 1..Len(result) :
           /\ FirstLine(result, request, i, j, k)
           /\ c_str \in (k + 1)..(Len(result) + 1) /\ result[c_str - 1] = "\n"
           /\ HeadersTo(result, request.headers, k, c_str - 1)
    [] parsing = "accepted" ->
         \E i, j, k, e \in 1..Len(result) :
           /\ FirstLine(result, request, i, j, k)
           /\ e \in (k + 2)..Len(result) /\ EndAt(result, e)
           /\ HeadersTo(result, request.headers, k, e - 2)
           /\ request.raw_body = <<e + 1, Len(result)>>
    [] OTHER -> TRUE

(* What has been taken is what the text says, and what is left of it has    *)
(* not been touched.                                                        *)
ParsedInv ==
  /\ parsing \notin {"idle", "done"} => Copy
  /\ parsing \in Pieces =>
       \A p \in (IF parsing = "key" THEN next_line ELSE c_str)..Len(result) :
         raw_request[p] # NUL
  /\ parsing \in {"method", "path", "protocol"} => request.headers = <<>>
  /\ parsing = "key" => LineTo(result, c_str, next_line - 1)
  /\ parsing \in {"accepted", "form", "find", "open"} => Found
  /\ ParsedTo
  /\ parsing = "done" => io # "reading"
  /\ Rejected /\ io = "read" => Unreadable(result)

-------------------------------------------------------------------------------
(* Texts *)

LEMMA SameText ==
  ASSUME NEW t, NEW u, NEW a \in Int, NEW b \in Int, \A p \in a..b : t[p] = u[p]
  PROVE  SubSeq(t, a, b) = SubSeq(u, a, b)
<1> DEFINE S == {t[p] : p \in a..b}
<1>1. (\A p \in a..b : t[p] \in S) /\ (\A p \in a..b : u[p] \in S)
  OBVIOUS
<1> HIDE DEF S
<1>2. /\ SubSeq(t, a, b) \in Seq(S)
      /\ Len(SubSeq(t, a, b)) = IF a <= b THEN b - a + 1 ELSE 0
      /\ \A i \in 1..(b - a + 1) : SubSeq(t, a, b)[i] = t[a + i - 1]
  BY <1>1, SubSeqProperties
<1>3. /\ SubSeq(u, a, b) \in Seq(S)
      /\ Len(SubSeq(u, a, b)) = IF a <= b THEN b - a + 1 ELSE 0
      /\ \A i \in 1..(b - a + 1) : SubSeq(u, a, b)[i] = u[a + i - 1]
  BY <1>1, SubSeqProperties
<1>4. Len(SubSeq(t, a, b)) = Len(SubSeq(u, a, b))
  BY <1>2, <1>3
<1>5. ASSUME NEW i \in 1..Len(SubSeq(t, a, b))
      PROVE  SubSeq(t, a, b)[i] = SubSeq(u, a, b)[i]
  <2>1. i \in 1..(b - a + 1) /\ a + i - 1 \in a..b
    BY <1>2
  <2> QED BY <1>2, <1>3, <2>1
<1> QED BY <1>2, <1>3, <1>4, <1>5, SeqEqual

(* A piece of one token, and one of three.                                  *)
LEMMA OneToken ==
  ASSUME NEW t, NEW x, NEW a \in Int
  PROVE  SubSeq(t, a, a) = <<x>> <=> t[a] = x
<1> DEFINE S == {t[a], x}
<1>1. /\ <<x>> \in Seq(S) /\ Len(<<x>>) = 1 /\ <<x>>[1] = x
  <2>1. x \in S OBVIOUS
  <2> HIDE DEF S
  <2> QED BY <2>1, Literals
<1>2. \A p \in a..a : t[p] \in S
  OBVIOUS
<1> HIDE DEF S
<1>3. /\ SubSeq(t, a, a) \in Seq(S) /\ Len(SubSeq(t, a, a)) = 1
      /\ \A i \in 1..1 : SubSeq(t, a, a)[i] = t[a + i - 1]
  <2>1. Len(SubSeq(t, a, a)) = IF a <= a THEN a - a + 1 ELSE 0
    BY <1>2, SubSeqProperties
  <2>2. /\ SubSeq(t, a, a) \in Seq(S)
        /\ \A i \in 1..(a - a + 1) : SubSeq(t, a, a)[i] = t[a + i - 1]
    BY <1>2, SubSeqProperties
  <2> QED BY <2>1, <2>2
<1>4. SubSeq(t, a, a)[1] = t[a]
  BY <1>3
<1>5. ASSUME t[a] = x PROVE SubSeq(t, a, a) = <<x>>
  <2>1. \A i \in 1..Len(SubSeq(t, a, a)) : SubSeq(t, a, a)[i] = <<x>>[i]
    BY <1>1, <1>3, <1>4, <1>5
  <2> QED BY <1>1, <1>3, <2>1, SeqEqual
<1> QED BY <1>1, <1>4, <1>5

LEMMA TripleIs ==
  ASSUME NEW S, NEW x \in S, NEW y \in S, NEW z \in S
  PROVE  /\ <<x, y, z>> \in Seq(S) /\ Len(<<x, y, z>>) = 3
         /\ <<x, y, z>>[1] = x /\ <<x, y, z>>[2] = y /\ <<x, y, z>>[3] = z
OBVIOUS

LEMMA ThreeTokens ==
  ASSUME NEW t, NEW T, NEW w \in Seq(T), Len(w) = 3, NEW e \in Int
  PROVE  SubSeq(t, e - 2, e) = w <=> t[e - 2] = w[1] /\ t[e - 1] = w[2] /\ t[e] = w[3]
<1> DEFINE S == {t[p] : p \in (e - 2)..e} \cup T
<1> DEFINE u == SubSeq(t, e - 2, e)
<1>1. w \in Seq(S)
  <2>1. T \subseteq S OBVIOUS
  <2> HIDE DEF S
  <2> QED BY <2>1, SeqMonotonic
<1>2. \A p \in (e - 2)..e : t[p] \in S
  OBVIOUS
<1> HIDE DEF S
<1>3. /\ u \in Seq(S)
      /\ Len(u) = IF e - 2 <= e THEN e - (e - 2) + 1 ELSE 0
      /\ \A i \in 1..(e - (e - 2) + 1) : u[i] = t[(e - 2) + i - 1]
  BY <1>2, SubSeqProperties
<1> HIDE DEF u
<1>4. Len(u) = 3 /\ u[1] = t[e - 2] /\ u[2] = t[e - 1] /\ u[3] = t[e]
  <2>1. Len(u) = 3 BY <1>3
  <2>2. e - (e - 2) + 1 = 3 OBVIOUS
  <2>3. \A i \in 1..3 : u[i] = t[(e - 2) + i - 1] BY <1>3, <2>2
  <2>4. u[1] = t[(e - 2) + 1 - 1] /\ u[2] = t[(e - 2) + 2 - 1] /\ u[3] = t[(e - 2) + 3 - 1]
    BY <2>3
  <2>5. (e - 2) + 1 - 1 = e - 2 /\ (e - 2) + 2 - 1 = e - 1 /\ (e - 2) + 3 - 1 = e
    OBVIOUS
  <2> QED BY <2>1, <2>4, <2>5
<1>5. ASSUME t[e - 2] = w[1], t[e - 1] = w[2], t[e] = w[3] PROVE u = w
  <2>1. \A i \in 1..3 : i = 1 \/ i = 2 \/ i = 3 OBVIOUS
  <2>2. \A i \in 1..Len(u) : u[i] = w[i]
    BY <1>4, <1>5, <2>1
  <2> QED BY <1>1, <1>3, <1>4, <2>2, SeqEqual
<1>6. u = w => t[e - 2] = w[1] /\ t[e - 1] = w[2] /\ t[e] = w[3]
  BY <1>4
<1> QED BY <1>5, <1>6 DEF u

(* One separator of one character, and the one of two.                      *)
LEMMA OccursOne ==
  ASSUME NEW t, Len(t) \in Nat, NEW x, NEW p \in Int
  PROVE  OccursAt(t, <<x>>, p) <=> p + 1 <= Len(t) /\ t[p + 1] = x
<1>1. Len(<<x>>) = 1 /\ <<x>>[1] = x
  <2> DEFINE S == {x}
  <2>1. x \in S OBVIOUS
  <2> HIDE DEF S
  <2> QED BY <2>1, Literals
<1> DEFINE s == <<x>>
<1> HIDE DEF s
<1>2. OccursAt(t, s, p) <=> p + Len(s) <= Len(t) /\ \A j \in 1..Len(s) : t[p + j] = s[j]
  BY DEF OccursAt
<1>3. Len(s) = 1 /\ s[1] = x
  BY <1>1 DEF s
<1>4. \A j \in 1..1 : j = 1
  OBVIOUS
<1>5. OccursAt(t, s, p) <=> p + 1 <= Len(t) /\ t[p + 1] = x
  BY <1>2, <1>3, <1>4
<1> QED BY <1>5 DEF s

LEMMA PairIs ==
  ASSUME NEW S, NEW x \in S, NEW y \in S
  PROVE  <<x, y>> \in Seq(S) /\ Len(<<x, y>>) = 2 /\ <<x, y>>[1] = x /\ <<x, y>>[2] = y
OBVIOUS

LEMMA OccursTwo ==
  ASSUME NEW t, Len(t) \in Nat, NEW x, NEW y, NEW p \in Int
  PROVE  OccursAt(t, <<x, y>>, p) <=> p + 2 <= Len(t) /\ t[p + 1] = x /\ t[p + 2] = y
<1>1. Len(<<x, y>>) = 2 /\ <<x, y>>[1] = x /\ <<x, y>>[2] = y
  <2> DEFINE S == {x, y}
  <2>1. x \in S /\ y \in S OBVIOUS
  <2> HIDE DEF S
  <2> QED BY <2>1, PairIs
<1> DEFINE s == <<x, y>>
<1> HIDE DEF s
<1>2. OccursAt(t, s, p) <=> p + Len(s) <= Len(t) /\ \A j \in 1..Len(s) : t[p + j] = s[j]
  BY DEF OccursAt
<1>3. Len(s) = 2 /\ s[1] = x /\ s[2] = y
  BY <1>1 DEF s
<1>4. \A j \in 1..2 : j = 1 \/ j = 2
  OBVIOUS
<1>5. OccursAt(t, s, p) <=> p + 2 <= Len(t) /\ t[p + 1] = x /\ t[p + 2] = y
  BY <1>2, <1>3, <1>4
<1> QED BY <1>5 DEF s

(* What a search of the part of t between c and stop has found.             *)
FoundOne(t, x, c, stop, r) ==
  IF r = -1 THEN \A p \in c..(stop - 1) : t[p] # x
  ELSE /\ c + r \in c..(stop - 1) /\ t[c + r] = x
       /\ \A p \in c..((c + r) - 1) : t[p] # x

ColonAt(t, p) == t[p] = ":" /\ t[p + 1] = " "

FoundColon(t, c, stop, r) ==
  IF r = -1 THEN \A p \in c..(stop - 2) : ~ ColonAt(t, p)
  ELSE /\ c + r \in c..(stop - 2) /\ ColonAt(t, c + r)
       /\ \A p \in c..((c + r) - 1) : ~ ColonAt(t, p)

LEMMA SearchOne ==
  ASSUME NEW t, NEW x, NEW c \in Nat, NEW stop \in Nat, c <= stop, NEW r,
         NEW s, Len(s) = stop - c, \A k \in 1..(stop - c) : s[k] = t[c + k - 1],
         IsFirstMatch(r, s, <<x>>)
  PROVE  FoundOne(t, x, c, stop, r)
<1>0. Len(s) \in Nat
  OBVIOUS
<1>1. ASSUME NEW p \in Int
      PROVE  OccursAt(s, <<x>>, p) <=> p + 1 <= stop - c /\ s[p + 1] = x
  <2>1. OccursAt(s, <<x>>, p) <=> p + 1 <= Len(s) /\ s[p + 1] = x
    BY <1>0, OccursOne
  <2> QED BY <2>1
<1>2. ASSUME NEW p \in c..(stop - 1)
      PROVE  OccursAt(s, <<x>>, p - c) <=> t[p] = x
  <2>1. p - c \in Int /\ p - c + 1 \in 1..(stop - c) /\ c + (p - c + 1) - 1 = p
    OBVIOUS
  <2>2. s[p - c + 1] = t[p]
    BY <2>1
  <2> QED BY <1>1, <2>1, <2>2
<1>3. CASE r = -1
  <2>1. \A p \in 0..Len(s) : ~ OccursAt(s, <<x>>, p)
    BY <1>3 DEF IsFirstMatch
  <2>2. ASSUME NEW p \in c..(stop - 1) PROVE t[p] # x
    <3>1. p - c \in 0..Len(s) OBVIOUS
    <3> QED BY <1>2, <2>1, <3>1
  <2> QED BY <1>3, <2>2 DEF FoundOne
<1>4. CASE r # -1
  <2>1. /\ r \in 0..Len(s) /\ OccursAt(s, <<x>>, r)
        /\ \A p \in 0..(r - 1) : ~ OccursAt(s, <<x>>, p)
    BY <1>4 DEF IsFirstMatch
  <2>2. r + 1 <= stop - c /\ r \in Nat
    <3>1. r \in Nat /\ r \in Int
      BY <1>0, <2>1
    <3>2. OccursAt(s, <<x>>, r) => r + 1 <= stop - c
      BY <1>1, <3>1
    <3> QED BY <2>1, <3>1, <3>2
  <2>3. c + r \in c..(stop - 1) /\ (c + r) - c = r
    BY <2>2
  <2>4. t[c + r] = x
    BY <1>2, <2>1, <2>3
  <2>5. ASSUME NEW p \in c..((c + r) - 1) PROVE t[p] # x
    <3>1. p \in c..(stop - 1) /\ p - c \in 0..(r - 1)
      BY <2>2
    <3> QED BY <1>2, <2>1, <3>1
  <2> QED BY <1>4, <2>3, <2>4, <2>5 DEF FoundOne
<1> QED BY <1>3, <1>4

Colon == <<":", " ">>

LEMMA ColonOccurs ==
  ASSUME NEW t, Len(t) \in Nat, NEW p \in Int
  PROVE  OccursAt(t, Colon, p) <=> p + 2 <= Len(t) /\ t[p + 1] = ":" /\ t[p + 2] = " "
BY OccursTwo DEF Colon

LEMMA SearchColon ==
  ASSUME NEW t, NEW c \in Nat, NEW stop \in Nat, c <= stop, NEW r,
         NEW s, Len(s) = stop - c, \A k \in 1..(stop - c) : s[k] = t[c + k - 1],
         IsFirstMatch(r, s, Colon)
  PROVE  FoundColon(t, c, stop, r)
<1>0. Len(s) \in Nat
  OBVIOUS
<1>1. ASSUME NEW p \in Int
      PROVE  OccursAt(s, Colon, p) <=> p + 2 <= stop - c /\ s[p + 1] = ":" /\ s[p + 2] = " "
  <2>1. OccursAt(s, Colon, p) <=> p + 2 <= Len(s) /\ s[p + 1] = ":" /\ s[p + 2] = " "
    BY <1>0, ColonOccurs
  <2> QED BY <2>1
<1>2. ASSUME NEW p \in c..(stop - 2)
      PROVE  OccursAt(s, Colon, p - c) <=> ColonAt(t, p)
  <2>1. /\ p - c \in Int /\ p - c + 1 \in 1..(stop - c) /\ c + (p - c + 1) - 1 = p
        /\ p - c + 2 \in 1..(stop - c) /\ c + (p - c + 2) - 1 = p + 1
    OBVIOUS
  <2>2. s[p - c + 1] = t[p] /\ s[p - c + 2] = t[p + 1]
    BY <2>1
  <2>3. OccursAt(s, Colon, p - c)
          <=> (p - c) + 2 <= stop - c /\ s[(p - c) + 1] = ":" /\ s[(p - c) + 2] = " "
    BY <1>1, <2>1
  <2>4. (p - c) + 2 <= stop - c
    OBVIOUS
  <2> QED BY <2>2, <2>3, <2>4 DEF ColonAt
<1>3. CASE r = -1
  <2>1. \A p \in 0..Len(s) : ~ OccursAt(s, Colon, p)
    BY <1>3 DEF IsFirstMatch
  <2>2. ASSUME NEW p \in c..(stop - 2) PROVE ~ ColonAt(t, p)
    <3>1. p - c \in 0..Len(s) OBVIOUS
    <3> QED BY <1>2, <2>1, <3>1
  <2> QED BY <1>3, <2>2 DEF FoundColon
<1>4. CASE r # -1
  <2>1. /\ r \in 0..Len(s) /\ OccursAt(s, Colon, r)
        /\ \A p \in 0..(r - 1) : ~ OccursAt(s, Colon, p)
    BY <1>4 DEF IsFirstMatch
  <2>2. r + 2 <= stop - c /\ r \in Nat
    <3>1. r \in Nat /\ r \in Int BY <1>0, <2>1
    <3>2. OccursAt(s, Colon, r) => r + 2 <= stop - c BY <1>1, <3>1
    <3> QED BY <2>1, <3>1, <3>2
  <2>3. c + r \in c..(stop - 2) /\ (c + r) - c = r
    BY <2>2
  <2>4. ColonAt(t, c + r)
    BY <1>2, <2>1, <2>3
  <2>5. ASSUME NEW p \in c..((c + r) - 1) PROVE ~ ColonAt(t, p)
    <3>1. p \in c..(stop - 2) /\ p - c \in 0..(r - 1)
      BY <2>2
    <3> QED BY <1>2, <2>1, <3>1
  <2> QED BY <1>4, <2>3, <2>4, <2>5 DEF FoundColon
<1> QED BY <1>3, <1>4

LEMMA HeaderLineIs ==
  ASSUME NEW t, Len(t) \in Nat, NEW a \in Nat, NEW b \in 1..Len(t), NEW c
  PROVE  HeaderLine(t, a, b, c) <=>
           /\ c \in (a + 1)..(b - 2) /\ ColonAt(t, c)
           /\ \A p \in (a + 1)..(c - 1) : ~ ColonAt(t, p)
<1>1. \A p \in Int :
        OccursAt(t, Colon, p) <=> p + 2 <= Len(t) /\ t[p + 1] = ":" /\ t[p + 2] = " "
  BY ColonOccurs
<1>2. ASSUME NEW p \in (a + 1)..(b - 2)
      PROVE  OccursAt(t, Colon, p - 1) <=> ColonAt(t, p)
  <2>1. p - 1 \in Int /\ p - 1 + 2 = p + 1 /\ p - 1 + 1 = p /\ p + 1 <= Len(t)
    OBVIOUS
  <2> QED BY <1>1, <2>1 DEF ColonAt
<1>3. HeaderLine(t, a, b, c) <=>
        /\ c \in (a + 1)..(b - 2) /\ OccursAt(t, Colon, c - 1)
        /\ \A p \in (a + 1)..(c - 1) : ~ OccursAt(t, Colon, p - 1)
  BY DEF HeaderLine, Colon
<1>4. ASSUME c \in (a + 1)..(b - 2)
      PROVE  \A p \in (a + 1)..(c - 1) : p \in (a + 1)..(b - 2)
  BY <1>4
<1> QED BY <1>2, <1>3, <1>4

-------------------------------------------------------------------------------
(* Header lines *)

LEMMA HeaderPlace ==
  ASSUME NEW t, NEW a, NEW b, NEW c
  PROVE  HeaderLine(t, a, b, c) <=>
           /\ c \in (a + 1)..(b - 2) /\ OccursAt(t, Colon, c - 1)
           /\ \A p \in (a + 1)..(c - 1) : ~ OccursAt(t, Colon, p - 1)
BY Zenon DEF HeaderLine, Colon

LEMMA LineIn ==
  ASSUME NEW t, NEW k \in Nat, NEW m \in Nat, NEW x \in LinesTo(t, k, m)
  PROVE  /\ x = <<x[1], x[2], x[3]>> /\ x[1] \in k..m /\ x[2] \in k..m /\ x[3] \in k..m
         /\ x[1] < x[2] /\ x[3] \in (x[1] + 1)..(x[2] - 2)
         /\ IsLine(t, x[1], x[2]) /\ HeaderLine(t, x[1], x[2], x[3])
BY HeaderPlace DEF LinesTo

LEMMA InLines ==
  ASSUME NEW t, NEW k \in Nat, NEW m \in Nat, NEW a \in k..m, NEW b \in k..m, NEW c \in k..m,
         a < b, IsLine(t, a, b), HeaderLine(t, a, b, c)
  PROVE  <<a, b, c>> \in LinesTo(t, k, m)
BY DEF LinesTo

LEMMA NoLines ==
  ASSUME NEW t, NEW k \in Nat
  PROVE  LinesTo(t, k, k) = {} /\ Split(t, k, k)
BY DEF LinesTo, Split

(* One more line: the lines up to m are those up to c - 1 and this one.     *)
LEMMA LinesGrow ==
  ASSUME NEW t, Len(t) \in Nat, NEW k \in 1..Len(t), NEW c \in (k + 1)..(Len(t) + 1),
         t[c - 1] = "\n", NEW m, LineTo(t, c, m),
         NEW e, HeaderLine(t, c - 1, m, e)
  PROVE  LinesTo(t, k, m) = LinesTo(t, k, c - 1) \cup {<<c - 1, m, e>>}
<1>1. /\ m \in c..Len(t) /\ t[m] = "\n" /\ \A p \in c..(m - 1) : t[p] # "\n"
      /\ k \in Nat /\ m \in Nat /\ c - 1 \in Nat /\ c - 1 \in k..m /\ m \in k..m
      /\ c \in Nat /\ c - 1 < m
  BY DEF LineTo
<1>2. e \in c..(m - 2) /\ e \in k..m
  BY <1>1, HeaderPlace
<1>3. IsLine(t, c - 1, m)
  BY <1>1 DEF IsLine
<1>4. <<c - 1, m, e>> \in LinesTo(t, k, m)
  BY <1>1, <1>2, <1>3, InLines
<1>5. ASSUME NEW x \in LinesTo(t, k, c - 1) PROVE x \in LinesTo(t, k, m)
  <2>1. /\ x = <<x[1], x[2], x[3]>> /\ x[1] \in k..(c - 1) /\ x[2] \in k..(c - 1)
        /\ x[3] \in k..(c - 1) /\ x[1] < x[2]
        /\ IsLine(t, x[1], x[2]) /\ HeaderLine(t, x[1], x[2], x[3])
    BY <1>1, LineIn
  <2>2. x[1] \in k..m /\ x[2] \in k..m /\ x[3] \in k..m
    BY <1>1, <2>1
  <2>3. <<x[1], x[2], x[3]>> \in LinesTo(t, k, m)
    BY <1>1, <2>1, <2>2, InLines
  <2> QED BY <2>1, <2>3
<1>6. ASSUME NEW x \in LinesTo(t, k, m), x # <<c - 1, m, e>>
      PROVE  x \in LinesTo(t, k, c - 1)
  <2>1. /\ x = <<x[1], x[2], x[3]>> /\ x[1] \in k..m /\ x[2] \in k..m
        /\ x[3] \in (x[1] + 1)..(x[2] - 2) /\ x[1] < x[2]
        /\ IsLine(t, x[1], x[2]) /\ HeaderLine(t, x[1], x[2], x[3])
    BY <1>1, LineIn
  <2>2. t[x[1]] = "\n" /\ t[x[2]] = "\n" /\ \A p \in (x[1] + 1)..(x[2] - 1) : t[p] # "\n"
    BY <2>1 DEF IsLine
  <2>3. x[1] <= c - 1
    <3>1. x[1] \in c..(m - 1) \/ x[1] <= c - 1
      BY <1>1, <2>1
    <3> QED BY <1>1, <2>2, <3>1
  <2>4. CASE x[2] <= c - 1
    <3>1. x[1] \in k..(c - 1) /\ x[2] \in k..(c - 1) /\ x[3] \in k..(c - 1)
      BY <1>1, <2>1, <2>4
    <3>2. <<x[1], x[2], x[3]>> \in LinesTo(t, k, c - 1)
      BY <1>1, <2>1, <3>1, InLines
    <3> QED BY <2>1, <3>2
  <2>5. CASE x[2] > c - 1
    <3>1. x[2] = m
      <4>1. x[2] \in c..(m - 1) \/ x[2] = m
        BY <1>1, <2>1, <2>5
      <4> QED BY <1>1, <2>2, <4>1
    <3>2. x[1] = c - 1
      <4>1. c - 1 \in (x[1] + 1)..(x[2] - 1) \/ x[1] = c - 1
        BY <1>1, <2>1, <2>3, <2>5
      <4> QED BY <2>2, <4>1
    <3>3. x[3] = e
      <4>1. /\ x[3] \in c..(m - 2) /\ OccursAt(t, Colon, x[3] - 1)
            /\ \A p \in c..(x[3] - 1) : ~ OccursAt(t, Colon, p - 1)
        BY <1>1, <2>1, <3>1, <3>2, HeaderPlace
      <4>2. /\ OccursAt(t, Colon, e - 1)
            /\ \A p \in c..(e - 1) : ~ OccursAt(t, Colon, p - 1)
        BY <1>1, HeaderPlace
      <4>3. ~ (x[3] < e) /\ ~ (e < x[3])
        <5>1. x[3] < e => x[3] \in c..(e - 1) BY <1>1, <1>2, <4>1
        <5>2. e < x[3] => e \in c..(x[3] - 1) BY <1>1, <1>2, <4>1
        <5> QED BY <4>1, <4>2, <5>1, <5>2
      <4> QED BY <1>1, <1>2, <4>1, <4>3
    <3> QED BY <1>6, <2>1, <3>1, <3>2, <3>3
  <2> QED BY <1>1, <2>1, <2>4, <2>5
<1> QED BY <1>4, <1>5, <1>6

(* Of the lines with one key, one is the first.                             *)
LEMMA FirstExists ==
  ASSUME NEW t, NEW k \in Nat, NEW m \in Nat, NEW y \in LinesTo(t, k, m)
  PROVE  \E x \in LinesTo(t, k, m) : FirstOf(t, k, m, x) /\ KeyOf(t, x) = KeyOf(t, y)
<1> DEFINE T == {x[1] : x \in {z \in LinesTo(t, k, m) : KeyOf(t, z) = KeyOf(t, y)}}
<1>1. T \subseteq Nat
  <2>1. \A x \in LinesTo(t, k, m) : x[1] \in k..m
    BY LineIn
  <2>2. \A n \in k..m : n \in Nat
    OBVIOUS
  <2> QED BY <2>1, <2>2
<1>2. T # {}
  OBVIOUS
<1> HIDE DEF T
<1>3. PICK n \in T : \A i \in T : n <= i
  BY <1>1, <1>2, Least
<1>4. PICK x \in LinesTo(t, k, m) : n = x[1] /\ KeyOf(t, x) = KeyOf(t, y)
  BY <1>3 DEF T
<1>5. ASSUME NEW z \in LinesTo(t, k, m), KeyOf(t, x) = KeyOf(t, z) PROVE x[1] <= z[1]
  <2>1. z[1] \in T BY <1>4, <1>5 DEF T
  <2> QED BY <1>3, <1>4, <2>1
<1> QED BY <1>4, <1>5 DEF FirstOf

(* What map::insert makes of the headers is right for one line more.        *)
LEMMA HeadersGrow ==
  ASSUME NEW t, Len(t) \in Nat, NEW k \in 1..Len(t), NEW c \in (k + 1)..(Len(t) + 1),
         t[c - 1] = "\n", NEW m, LineTo(t, c, m),
         NEW e, HeaderLine(t, c - 1, m, e),
         NEW hs \in Seq(HeaderView), HeadersTo(t, hs, k, c - 1),
         NEW hs1 \in {hs, Append(hs, ViewsOf(<<c - 1, m, e>>))},
         hs1 = hs <=> \E y \in LinesTo(t, k, c - 1) : KeyOf(t, y) = KeyOf(t, <<c - 1, m, e>>)
  PROVE  HeadersTo(t, hs1, k, m)
<1> DEFINE x0 == <<c - 1, m, e>>
<1> DEFINE h0 == ViewsOf(x0)
<1> DEFINE Old == LinesTo(t, k, c - 1)
<1> DEFINE New == LinesTo(t, k, m)
<1>1. /\ m \in c..Len(t) /\ t[m] = "\n" /\ \A p \in c..(m - 1) : t[p] # "\n"
      /\ k \in Nat /\ m \in Nat /\ c - 1 \in Nat /\ c \in Nat
  BY DEF LineTo
<1>2. New = Old \cup {x0}
  BY LinesGrow
<1>3. x0[1] = c - 1 /\ x0[2] = m /\ x0[3] = e
  OBVIOUS
<1>4. ASSUME NEW y \in Old PROVE y[1] \in Nat /\ y[1] < x0[1]
  <2>1. y[1] \in k..(c - 1) /\ y[2] \in k..(c - 1) /\ y[1] < y[2]
    BY <1>1, LineIn
  <2> QED BY <1>1, <1>3, <2>1
<1>5. x0 \notin Old
  BY <1>1, <1>3, <1>4
<1> HIDE DEF x0, h0, Old, New
<1>6. ASSUME NEW x \in Old PROVE FirstOf(t, k, m, x) <=> FirstOf(t, k, c - 1, x)
  <2>1. x[1] <= x0[1]
    BY <1>1, <1>3, <1>4
  <2>2. FirstOf(t, k, m, x) <=> \A y \in New : KeyOf(t, x) = KeyOf(t, y) => x[1] <= y[1]
    BY DEF FirstOf, New
  <2>3. FirstOf(t, k, c - 1, x) <=> \A y \in Old : KeyOf(t, x) = KeyOf(t, y) => x[1] <= y[1]
    BY DEF FirstOf, Old
  <2> QED BY <1>2, <2>1, <2>2, <2>3
<1>7. FirstOf(t, k, m, x0) <=> ~ \E y \in Old : KeyOf(t, y) = KeyOf(t, x0)
  <2>1. FirstOf(t, k, m, x0) <=> \A y \in New : KeyOf(t, x0) = KeyOf(t, y) => x0[1] <= y[1]
    BY DEF FirstOf, New
  <2>2. \A y \in Old : ~ (x0[1] <= y[1])
    BY <1>1, <1>3, <1>4
  <2>3. x0[1] <= x0[1]
    BY <1>1, <1>3
  <2> QED BY <1>2, <2>1, <2>2, <2>3
<1>8. /\ hs1 = hs \/ hs1 = Append(hs, h0)
      /\ hs1 = hs <=> ~ FirstOf(t, k, m, x0)
  BY <1>7 DEF h0, x0, Old
<1>9. /\ \A n \in 1..Len(hs) : \E x \in Old : FirstOf(t, k, c - 1, x) /\ hs[n] = ViewsOf(x)
      /\ \A x \in Old : FirstOf(t, k, c - 1, x) => \E n \in 1..Len(hs) : hs[n] = ViewsOf(x)
  BY DEF HeadersTo, Old
<1>10. /\ \A n \in 1..Len(hs1) : \E x \in New : FirstOf(t, k, m, x) /\ hs1[n] = ViewsOf(x)
       /\ \A x \in New : FirstOf(t, k, m, x) => \E n \in 1..Len(hs1) : hs1[n] = ViewsOf(x)
  <2>1. CASE hs1 = hs
    BY <1>2, <1>6, <1>8, <1>9, <2>1
  <2>2. CASE hs1 # hs
    <3>1. hs1 = Append(hs, h0) /\ FirstOf(t, k, m, x0) /\ h0 = ViewsOf(x0)
      BY <1>8, <2>2 DEF h0
    <3>2. h0 \in HeaderView
      <4>1. e \in Int BY <1>1, HeaderPlace
      <4>2. c \in Int /\ m \in Int /\ (c - 1) + 1 \in Int BY <1>1
      <4> QED BY <1>3, <4>1, <4>2 DEF h0, ViewsOf, HeaderView, ViewPair
    <3>3. /\ Len(hs1) = Len(hs) + 1 /\ Len(hs) \in Nat
          /\ hs1[Len(hs) + 1] = h0 /\ \A i \in 1..Len(hs) : hs1[i] = hs[i]
      BY <3>1, <3>2, AppendProperties
    <3>4. ASSUME NEW i \in 1..Len(hs1) PROVE i \in 1..Len(hs) \/ i = Len(hs) + 1
      BY <3>3
    <3>5. ASSUME NEW n \in 1..Len(hs1)
          PROVE  \E x \in New : FirstOf(t, k, m, x) /\ hs1[n] = ViewsOf(x)
      <4>1. CASE n \in 1..Len(hs)
        <5>1. PICK x \in Old : FirstOf(t, k, c - 1, x) /\ hs[n] = ViewsOf(x)
          BY <1>9, <4>1
        <5> QED BY <1>2, <1>6, <3>3, <4>1, <5>1
      <4>2. CASE n = Len(hs) + 1
        BY <1>2, <3>1, <3>3, <4>2
      <4> QED BY <3>4, <4>1, <4>2
    <3>6. ASSUME NEW x \in New, FirstOf(t, k, m, x)
          PROVE  \E n \in 1..Len(hs1) : hs1[n] = ViewsOf(x)
      <4>1. CASE x = x0
        <5>1. Len(hs) + 1 \in 1..Len(hs1) BY <3>3
        <5> QED BY <3>1, <3>3, <4>1, <5>1
      <4>2. CASE x \in Old
        <5>1. PICK n \in 1..Len(hs) : hs[n] = ViewsOf(x)
          BY <1>6, <1>9, <3>6, <4>2
        <5>2. n \in 1..Len(hs1) BY <3>3
        <5> QED BY <3>3, <5>1, <5>2
      <4> QED BY <1>2, <4>1, <4>2
    <3> QED BY <3>5, <3>6
  <2> QED BY <2>1, <2>2
<1>11. Split(t, k, m)
  <2> SUFFICES ASSUME NEW a \in k..m, NEW b \in k..m, a < b, IsLine(t, a, b)
               PROVE  \E d \in a..b : HeaderLine(t, a, b, d)
    BY DEF Split
  <2>1. t[a] = "\n" /\ t[b] = "\n" /\ \A p \in (a + 1)..(b - 1) : t[p] # "\n"
    BY DEF IsLine
  <2>2. a <= c - 1
    <3>1. a \in c..(m - 1) \/ a <= c - 1 BY <1>1
    <3> QED BY <1>1, <2>1, <3>1
  <2>3. CASE b <= c - 1
    <3>1. a \in k..(c - 1) /\ b \in k..(c - 1) BY <1>1, <2>2, <2>3
    <3> QED BY <3>1 DEF HeadersTo, Split
  <2>4. CASE b > c - 1
    <3>1. b = m
      <4>1. b \in c..(m - 1) \/ b = m BY <1>1, <2>4
      <4> QED BY <1>1, <2>1, <4>1
    <3>2. a = c - 1
      <4>1. c - 1 \in (a + 1)..(b - 1) \/ a = c - 1 BY <1>1, <2>2, <2>4
      <4> QED BY <2>1, <4>1
    <3>3. e \in a..b
      BY <1>1, <3>1, <3>2, HeaderPlace
    <3> QED BY <3>1, <3>2, <3>3
  <2> QED BY <1>1, <2>3, <2>4
<1>12. ASSUME NEW p \in (k + 2)..m PROVE ~ EndAt(t, p)
  <2>1. CASE p <= c - 1
    <3>1. p \in (k + 2)..(c - 1) BY <1>1, <2>1
    <3> QED BY <3>1 DEF HeadersTo
  <2>2. CASE p \in c..(m - 1)
    BY <1>1, <2>2 DEF EndAt
  <2>3. CASE p = m
    <3>1. e \in c..(m - 2) BY <1>1, HeaderPlace
    <3>2. m - 2 \in c..(m - 1) BY <1>1, <3>1
    <3> QED BY <1>1, <2>3, <3>2 DEF EndAt
  <2> QED BY <1>1, <2>1, <2>2, <2>3
<1> QED BY <1>10, <1>11, <1>12 DEF HeadersTo, New

-------------------------------------------------------------------------------
(* Readings *)

LastLine == <<"\n", "\r", "\n">>

LEMMA LastLineIs ==
  ASSUME NEW t, NEW p \in Int
  PROVE  SubSeq(t, p - 2, p) = LastLine <=> EndAt(t, p)
<1> DEFINE T == {"\n", "\r"}
<1>1. "\n" \in T /\ "\r" \in T
  OBVIOUS
<1> HIDE DEF T
<1>2. /\ LastLine \in Seq(T) /\ Len(LastLine) = 3
      /\ LastLine[1] = "\n" /\ LastLine[2] = "\r" /\ LastLine[3] = "\n"
  BY <1>1, TripleIs, Zenon DEF LastLine
<1>3. SubSeq(t, p - 2, p) = LastLine
        <=> t[p - 2] = LastLine[1] /\ t[p - 1] = LastLine[2] /\ t[p] = LastLine[3]
  BY <1>2, ThreeTokens
<1> QED BY <1>2, <1>3, Zenon DEF EndAt

LEMMA HeaderEndIs ==
  ASSUME NEW t, Len(t) \in Nat, NEW k \in Nat, NEW e
  PROVE  HeaderEnd(t, k, e) <=>
           /\ e \in (k + 2)..Len(t) /\ EndAt(t, e)
           /\ \A p \in (k + 2)..(e - 1) : ~ EndAt(t, p)
<1>1. ASSUME NEW p \in Int PROVE SubSeq(t, p - 2, p) = LastLine <=> EndAt(t, p)
  BY LastLineIs
<1>2. HeaderEnd(t, k, e) <=>
        /\ e \in (k + 2)..Len(t) /\ SubSeq(t, e - 2, e) = LastLine
        /\ \A p \in (k + 2)..(e - 1) : SubSeq(t, p - 2, p) # LastLine
  BY Zenon DEF HeaderEnd, LastLine
<1>3. \A p \in (k + 2)..Len(t) : p \in Int
  OBVIOUS
<1>4. e \in (k + 2)..Len(t) => \A p \in (k + 2)..(e - 1) : p \in Int
  OBVIOUS
<1> QED BY <1>1, <1>2, <1>3, <1>4, Zenon

LEMMA ReadingIs ==
  ASSUME NEW t, Len(t) \in Nat, NEW r \in Readings(t)
  PROVE  /\ r.i \in 1..Len(t) /\ r.j \in 1..Len(t) /\ r.k \in 1..Len(t) /\ r.e \in 1..Len(t)
         /\ r.i < r.j /\ r.j < r.k /\ r.e \in (r.k + 2)..Len(t)
         /\ t[r.i] = " " /\ t[r.j] = " " /\ t[r.k] = "\n" /\ t[r.e] = "\n"
         /\ \A p \in 1..(r.j - 1) : t[p] = " " => p = r.i
         /\ \A p \in (r.j + 1)..(r.k - 1) : t[p] # "\n"
         /\ EndAt(t, r.e) /\ \A p \in (r.k + 2)..(r.e - 1) : ~ EndAt(t, p)
<1> DEFINE blanks == {p \in 1..Len(t) : t[p] = " "}
<1> DEFINE breaks == {p \in 1..Len(t) : t[p] = "\n"}
<1>1. /\ r \in [i : blanks, j : blanks, k : breaks, e : breaks]
      /\ RequestLine(t, r.i, r.j, r.k) /\ HeaderEnd(t, r.k, r.e)
  BY DEF Readings
<1>2. r.i \in blanks /\ r.j \in blanks /\ r.k \in breaks /\ r.e \in breaks
  <2> HIDE DEF blanks, breaks
  <2> QED BY <1>1
<1>3. /\ r.e \in (r.k + 2)..Len(t) /\ EndAt(t, r.e)
      /\ \A p \in (r.k + 2)..(r.e - 1) : ~ EndAt(t, p)
  <2>1. r.k \in Nat
    <3>1. \A p \in breaks : p \in Nat OBVIOUS
    <3> QED BY <1>2, <3>1
  <2> QED BY <1>1, <2>1, HeaderEndIs
<1> QED BY <1>1, <1>2, <1>3 DEF RequestLine

LEMMA FirstLineIs ==
  ASSUME NEW t, Len(t) \in Nat, NEW q, NEW i, NEW j, NEW k, FirstLine(t, q, i, j, k)
  PROVE  /\ MethodEnds(t, i) /\ PathEnds(t, i, j) /\ ProtocolEnds(t, j, k)
         /\ i \in 1..Len(t) /\ j \in 1..Len(t) /\ k \in 1..Len(t) /\ i < j /\ j < k
<1>1. MethodEnds(t, i) /\ PathEnds(t, i, j) /\ ProtocolEnds(t, j, k)
  BY Zenon DEF FirstLine, MethodTo, PathTo, ProtocolTo
<1>2. i \in 1..Len(t) /\ j \in (i + 1)..Len(t) /\ k \in (j + 1)..Len(t)
  BY <1>1, Zenon DEF MethodEnds, PathEnds, ProtocolEnds
<1> QED BY <1>1, <1>2

LEMMA IsReading ==
  ASSUME NEW t, Len(t) \in Nat,
         NEW i \in 1..Len(t), NEW j \in 1..Len(t), NEW k \in 1..Len(t), NEW e \in 1..Len(t),
         NEW q, FirstLine(t, q, i, j, k), e \in (k + 2)..Len(t), EndAt(t, e),
         \A p \in (k + 2)..(e - 1) : ~ EndAt(t, p)
  PROVE  [i |-> i, j |-> j, k |-> k, e |-> e] \in Readings(t)
<1> DEFINE blanks == {p \in 1..Len(t) : t[p] = " "}
<1> DEFINE breaks == {p \in 1..Len(t) : t[p] = "\n"}
<1> DEFINE r == [i |-> i, j |-> j, k |-> k, e |-> e]
<1>0. /\ MethodEnds(t, i) /\ PathEnds(t, i, j) /\ ProtocolEnds(t, j, k)
      /\ i < j /\ j < k
  BY FirstLineIs
<1>1. i \in blanks /\ j \in blanks /\ k \in breaks /\ e \in breaks
  BY <1>0 DEF MethodEnds, PathEnds, ProtocolEnds, EndAt
<1>2. RequestLine(t, i, j, k)
  <2>1. /\ i < j /\ j < k /\ t[i] = " " /\ t[j] = " " /\ t[k] = "\n"
        /\ \A p \in 1..(i - 1) : t[p] # " "
        /\ \A p \in (i + 1)..(j - 1) : t[p] # " "
        /\ \A p \in (j + 1)..(k - 1) : t[p] # "\n"
    BY <1>0 DEF MethodEnds, PathEnds, ProtocolEnds
  <2>2. ASSUME NEW p \in 1..(j - 1), t[p] = " " PROVE p = i
    <3>1. p \in 1..(i - 1) \/ p = i \/ p \in (i + 1)..(j - 1)
      OBVIOUS
    <3> QED BY <2>1, <2>2, <3>1
  <2> QED BY <2>1, <2>2 DEF RequestLine
<1>3. HeaderEnd(t, k, e)
  BY HeaderEndIs
<1>4. r \in [i : blanks, j : blanks, k : breaks, e : breaks]
  <2> HIDE DEF blanks, breaks
  <2> QED BY <1>1
<1>5. r.i = i /\ r.j = j /\ r.k = k /\ r.e = e
  OBVIOUS
<1> HIDE DEF r
<1>6. r \in Readings(t)
  BY <1>2, <1>3, <1>4, <1>5 DEF Readings
<1> QED BY <1>6 DEF r

(* The places of a reading are those of the first line that is parsed.      *)
LEMMA BlanksAre ==
  ASSUME NEW t, Len(t) \in Nat, NEW i, NEW j, NEW r \in Readings(t),
         MethodEnds(t, i), PathEnds(t, i, j)
  PROVE  r.i = i /\ r.j = j
<1> DEFINE a == r.i
<1> DEFINE b == r.j
<1>1. /\ a \in 1..Len(t) /\ b \in 1..Len(t) /\ a < b
      /\ t[a] = " " /\ t[b] = " " /\ \A p \in 1..(b - 1) : t[p] = " " => p = a
  BY ReadingIs, Zenon
<1> HIDE DEF a, b
<1>2. /\ i \in 1..Len(t) /\ t[i] = " " /\ \A p \in 1..(i - 1) : t[p] # " "
      /\ j \in (i + 1)..Len(t) /\ t[j] = " " /\ \A p \in (i + 1)..(j - 1) : t[p] # " "
  BY DEF MethodEnds, PathEnds
<1>0. a \in Nat \ {0} /\ b \in Nat /\ i \in Nat \ {0} /\ j \in Nat /\ a < b /\ i < j
  <2>1. i \in 1..Len(t) /\ j \in (i + 1)..Len(t)
    BY <1>2
  <2>2. a \in 1..Len(t) /\ b \in 1..Len(t) /\ a < b
    BY <1>1
  <2> QED BY <2>1, <2>2
<1>3. a = i
  <2>1. a \in 1..(i - 1) \/ a = i \/ i \in 1..(b - 1)
    BY <1>0
  <2> QED BY <1>1, <1>2, <2>1
<1>4. b = j
  <2>1. b \in (i + 1)..(j - 1) \/ b = j \/ j \in 1..(b - 1)
    BY <1>0, <1>3
  <2>2. j # a
    BY <1>0, <1>3
  <2> QED BY <1>1, <1>2, <2>1, <2>2
<1> QED BY <1>3, <1>4 DEF a, b

LEMMA BreakIs ==
  ASSUME NEW t, Len(t) \in Nat, NEW q, NEW i, NEW j, NEW k, NEW r \in Readings(t),
         FirstLine(t, q, i, j, k)
  PROVE  r.k = k
<1> DEFINE b == r.j
<1> DEFINE c == r.k
<1>1. /\ c \in 1..Len(t) /\ b < c /\ t[c] = "\n"
      /\ \A p \in (b + 1)..(c - 1) : t[p] # "\n"
  BY ReadingIs, Zenon
<1>2. b = j /\ j \in 1..Len(t) /\ ProtocolEnds(t, j, k)
  BY BlanksAre, FirstLineIs, Zenon
<1> HIDE DEF b, c
<1>3. /\ k \in (j + 1)..Len(t) /\ t[k] = "\n"
      /\ \A p \in (j + 1)..(k - 1) : t[p] # "\n"
  BY <1>2 DEF ProtocolEnds
<1>4. c \in (j + 1)..(k - 1) \/ c = k \/ k \in (b + 1)..(c - 1)
  BY <1>1, <1>2, <1>3
<1>5. c = k
  BY <1>1, <1>2, <1>3, <1>4
<1> QED BY <1>5 DEF c

(* A text in which the piece that is looked for does not end has no reading.*)
LEMMA NoMethod ==
  ASSUME NEW t, Len(t) \in Nat, \A p \in 1..Len(t) : t[p] # " "
  PROVE  Unreadable(t)
BY ReadingIs DEF Unreadable

LEMMA Between ==
  ASSUME NEW n \in Nat, NEW i \in 1..n, NEW a \in 1..n, NEW b \in 1..n, a < b
  PROVE  a \in 1..(i - 1) \/ b \in (i + 1)..n
OBVIOUS

LEMMA NoPath ==
  ASSUME NEW t, Len(t) \in Nat, NEW i, MethodEnds(t, i),
         \A p \in (i + 1)..Len(t) : t[p] # " "
  PROVE  Unreadable(t)
<1> SUFFICES ASSUME NEW r \in Readings(t) PROVE FALSE
  BY DEF Unreadable
<1> DEFINE a == r.i
<1> DEFINE b == r.j
<1>1. a \in 1..Len(t) /\ b \in 1..Len(t) /\ a < b /\ t[a] = " " /\ t[b] = " "
  BY ReadingIs, Zenon
<1> HIDE DEF a, b
<1>2. i \in 1..Len(t) /\ \A p \in 1..(i - 1) : t[p] # " "
  BY DEF MethodEnds
<1>3. i \in 1..Len(t) /\ a \in 1..Len(t) /\ b \in 1..Len(t) /\ a < b
  BY <1>1, <1>2
<1>4. a \in 1..(i - 1) \/ b \in (i + 1)..Len(t)
  BY <1>3, Between, Zenon
<1> QED BY <1>1, <1>2, <1>4

LEMMA NoProtocol ==
  ASSUME NEW t, Len(t) \in Nat, NEW i, NEW j,
         MethodEnds(t, i), PathEnds(t, i, j),
         \A p \in (j + 1)..Len(t) : t[p] # "\n"
  PROVE  Unreadable(t)
<1> SUFFICES ASSUME NEW r \in Readings(t) PROVE FALSE
  BY DEF Unreadable
<1>0. r.k \in 1..Len(t) /\ r.j < r.k /\ t[r.k] = "\n" /\ r.j \in 1..Len(t)
  BY ReadingIs, Zenon
<1>1. r.k \in 1..Len(t) /\ r.j < r.k /\ t[r.k] = "\n" /\ r.j = j /\ r.j \in 1..Len(t)
  BY <1>0, BlanksAre
<1>2. r.k \in (j + 1)..Len(t)
  BY <1>1
<1> QED BY <1>1, <1>2

LEMMA NoEnd ==
  ASSUME NEW t, Len(t) \in Nat, NEW q, NEW i, NEW j, NEW k, FirstLine(t, q, i, j, k),
         NEW c \in (k + 1)..(Len(t) + 1), NEW hs, HeadersTo(t, hs, k, c - 1),
         \A p \in c..Len(t) : t[p] # "\n"
  PROVE  Unreadable(t)
<1> SUFFICES ASSUME NEW r \in Readings(t) PROVE FALSE
  BY DEF Unreadable
<1>1. r.k = k
  BY BreakIs, Zenon
<1>0. r.k \in 1..Len(t) /\ r.e \in (r.k + 2)..Len(t) /\ t[r.e] = "\n" /\ EndAt(t, r.e)
  BY ReadingIs, Zenon
<1>2. r.e \in (k + 2)..(c - 1) \/ r.e \in c..Len(t)
  BY <1>0, <1>1
<1> QED BY <1>0, <1>2 DEF HeadersTo

LEMMA NoColon ==
  ASSUME NEW t, Len(t) \in Nat, NEW q, NEW i, NEW j, NEW k, FirstLine(t, q, i, j, k),
         NEW c \in (k + 1)..(Len(t) + 1), t[c - 1] = "\n",
         NEW hs, HeadersTo(t, hs, k, c - 1),
         NEW m, LineTo(t, c, m), \A p \in c..(m - 2) : ~ ColonAt(t, p)
  PROVE  Unreadable(t)
<1> SUFFICES ASSUME NEW r \in Readings(t), WellFormed(t, r) PROVE FALSE
  BY DEF Unreadable
<1>a. r.k = k
  BY BreakIs
<1>0. /\ r.k \in 1..Len(t) /\ r.e \in (r.k + 2)..Len(t) /\ EndAt(t, r.e) /\ r.k = k
  BY <1>a, ReadingIs, Zenon
<1>1. /\ r.k = k /\ k \in 1..Len(t) /\ r.e \in (k + 2)..Len(t) /\ EndAt(t, r.e)
  BY <1>0
<1>2. t[r.e - 2] = "\n" /\ t[r.e - 1] = "\r" /\ t[r.e] = "\n"
  BY <1>1 DEF EndAt
<1>3. /\ m \in c..Len(t) /\ t[m] = "\n" /\ c \in Nat
      /\ \A p \in c..(m - 1) : t[p] # "\n"
      /\ ~ (m = c + 1 /\ t[c] = "\r")
  BY <1>1 DEF LineTo
<1>4. r.e \notin (k + 2)..(c - 1)
  BY <1>1 DEF HeadersTo
<1>5. r.e \notin c..(m - 1) /\ r.e - 2 \notin c..(m - 1)
  BY <1>2, <1>3
<1>6. r.e - 1 # m /\ r.e # c
  <2>1. r.e = c => r.e - 1 = c - 1 BY <1>1
  <2> QED BY <1>2, <1>3, <2>1
<1>7. ~ (r.e = m)
  <2> SUFFICES ASSUME r.e = m PROVE FALSE
    OBVIOUS
  <2>1. r.e = c + 1
    BY <1>1, <1>3, <1>5, <1>6
  <2>2. r.e - 1 = c
    BY <1>3, <2>1
  <2> QED BY <1>2, <1>3, <2>1, <2>2
<1>8. m <= r.e - 2
  <2> DEFINE e == r.e
  <2>1. /\ k \in Nat /\ e \in Nat /\ k + 2 <= e /\ m \in Nat /\ c \in Nat /\ c <= m
        /\ e \notin (k + 2)..(c - 1) /\ e \notin c..(m - 1) /\ e # m /\ e - 1 # m
    BY <1>1, <1>3, <1>4, <1>5, <1>6, <1>7
  <2> HIDE DEF e
  <2>2. ~ (e < c)
    BY <2>1
  <2>3. ~ (e < m)
    BY <2>1, <2>2
  <2> QED BY <2>1, <2>3 DEF e
<1>9. /\ c - 1 \in k..(r.e - 2) /\ m \in k..(r.e - 2) /\ c - 1 < m
      /\ c - 1 \in Nat /\ m \in 1..Len(t)
  BY <1>1, <1>3, <1>8
<1>10. IsLine(t, c - 1, m)
  BY <1>3 DEF IsLine
<1>11. PICK d : HeaderLine(t, c - 1, m, d)
  BY <1>1, <1>9, <1>10 DEF WellFormed
<1>12. d \in ((c - 1) + 1)..(m - 2) /\ ColonAt(t, d)
  BY <1>9, <1>11, HeaderLineIs
<1> QED BY <1>3, <1>12

-------------------------------------------------------------------------------
(* What is taken is what the text says *)

LEMMA SeparatorOnce ==
  ASSUME NEW piece \in Pieces
  PROVE  Unambiguous(Separator(piece))
<1>1. Separator(piece) \in Seq(Char)
  BY PathAssumption, ParseAssumption
<1>2. CASE piece = "key"
  <2>1. Separator(piece) = Colon
    BY <1>2 DEF Separator, Colon
  <2>2. Len(Colon) = 2 /\ Colon[1] = ":" /\ Colon[2] = " "
    <3> DEFINE S == {":", " "}
    <3>1. ":" \in S /\ " " \in S OBVIOUS
    <3> HIDE DEF S
    <3> QED BY <3>1, PairIs DEF Colon
  <2>3. ASSUME NEW j \in 2..Len(Colon) PROVE Colon[j] # Colon[1]
    <3>1. 2..Len(Colon) = 2..2 BY <2>2
    <3>2. j = 2 BY <3>1
    <3> QED BY <2>2, <3>2
  <2> QED BY <1>1, <2>1, <2>3, FirstCharOnce
<1>3. CASE piece # "key"
  <2>1. PICK x : Separator(piece) = <<x>>
    BY <1>3 DEF Separator, Pieces
  <2>2. Len(<<x>>) = 1
    <3> DEFINE S == {x}
    <3>1. x \in S OBVIOUS
    <3> HIDE DEF S
    <3> QED BY <3>1, Literals
  <2>3. \A j \in 2..Len(Separator(piece)) : FALSE
    BY <2>1, <2>2
  <2> QED BY <1>1, <2>3, FirstCharOnce
<1> QED BY <1>2, <1>3

(* Where the piece that is looked for may end.                              *)
Stop == IF parsing = "key" THEN next_line - 1 ELSE Len(result) + 1

(* The search has looked at the text as it was read.                        *)
LEMMA SearchEnds ==
  ASSUME Reading, ViewsInv, ParsedInv, parsing \in Pieces
  PROVE  /\ Len(result) \in Nat /\ Len(raw_request) = Len(result)
         /\ c_str \in 1..(Len(result) + 1) /\ Stop \in c_str..(Len(result) + 1)
         /\ TextEnd(raw_request, c_str) = Stop
         /\ \A p \in c_str..(Stop - 1) : raw_request[p] = result[p]
         /\ Len(str) = Stop - c_str
         /\ \A k \in 1..(Stop - c_str) : str[k] = result[c_str + k - 1]
<1> DEFINE stop == TextEnd(raw_request, c_str)
<1>1. /\ Copy /\ result \in Seq(Char) /\ raw_request \in Seq(Bytes)
      /\ c_str \in 1..(Len(raw_request) + 1) /\ str = CString(raw_request, c_str)
      /\ parsing = "key" => next_line = stop + 1
      /\ parsing # "key" => \A p \in c_str..Len(result) : raw_request[p] # NUL
  BY DEF Reading, ViewsInv, ParsedInv, Taken, Ahead, Pieces
<1>2. Len(result) \in Nat /\ Len(raw_request) = Len(result)
  BY <1>1 DEF Copy
<1>3. /\ stop \in c_str..(Len(raw_request) + 1)
      /\ stop = Len(raw_request) + 1 \/ raw_request[stop] = NUL
      /\ \A k \in c_str..(stop - 1) : raw_request[k] # NUL
  BY <1>1, <1>2, TextEnds
<1>4. /\ Len(str) = stop - c_str
      /\ \A k \in 1..(stop - c_str) : str[k] = raw_request[c_str + k - 1]
  BY <1>1, CStringIs
<1> HIDE DEF stop
<1>5. stop = Stop
  <2>1. CASE parsing = "key"
    BY <1>1, <1>2, <1>3, <2>1 DEF Stop
  <2>2. CASE parsing # "key"
    <3>1. stop \in c_str..Len(result) \/ stop = Len(result) + 1
      BY <1>1, <1>2, <1>3
    <3>2. stop = Len(result) + 1
      BY <1>1, <1>2, <1>3, <2>2, <3>1
    <3> QED BY <2>2, <3>2 DEF Stop
  <2> QED BY <2>1, <2>2
<1>6. ASSUME NEW p \in c_str..(stop - 1) PROVE raw_request[p] = result[p]
  <2>1. p \in 1..Len(result)
    BY <1>1, <1>2, <1>3
  <2> QED BY <1>1, <1>3, <2>1 DEF Copy
<1>7. ASSUME NEW k \in 1..(stop - c_str) PROVE str[k] = result[c_str + k - 1]
  <2>1. c_str + k - 1 \in c_str..(stop - 1)
    BY <1>1, <1>2, <1>3
  <2> QED BY <1>4, <1>6, <2>1
<1> QED BY <1>1, <1>2, <1>3, <1>4, <1>5, <1>6, <1>7 DEF stop

LEMMA MatchIs ==
  ASSUME ViewsInv, FindsFirst, parsing \in Pieces, at = "returned"
  PROVE  IsFirstMatch(ret, str, Separator(parsing))
<1>1. sep = Separator(parsing)
  BY DEF ViewsInv, Ahead
<1> QED BY <1>1, SeparatorOnce DEF FindsFirst

(* ... for a piece that ends at one character, and for a key.               *)
LEMMA PieceEnds ==
  ASSUME Reading, ViewsInv, FindsFirst, ParsedInv, parsing \in Pieces, at = "returned",
         NEW x, Separator(parsing) = <<x>>, parsing # "key"
  PROVE  FoundOne(result, x, c_str, Len(result) + 1, ret)
<1>1. /\ Len(result) \in Nat
      /\ c_str \in 1..(Len(result) + 1) /\ Stop \in c_str..(Len(result) + 1)
      /\ Len(str) = Stop - c_str
      /\ \A k \in 1..(Stop - c_str) : str[k] = result[c_str + k - 1]
  BY SearchEnds
<1>2. Stop = Len(result) + 1
  BY DEF Stop
<1>3. IsFirstMatch(ret, str, <<x>>)
  BY MatchIs
<1>4. c_str \in Nat /\ Stop \in Nat /\ c_str <= Stop
  BY <1>1
<1>5. FoundOne(result, x, c_str, Stop, ret)
  BY <1>1, <1>3, <1>4, SearchOne
<1> QED BY <1>2, <1>5

LEMMA KeyEnds ==
  ASSUME Reading, ViewsInv, FindsFirst, ParsedInv, parsing = "key", at = "returned"
  PROVE  FoundColon(result, c_str, next_line - 1, ret)
<1>0. parsing \in Pieces
  BY DEF Pieces
<1>1. /\ Len(result) \in Nat
      /\ c_str \in 1..(Len(result) + 1) /\ Stop \in c_str..(Len(result) + 1)
      /\ Len(str) = Stop - c_str
      /\ \A k \in 1..(Stop - c_str) : str[k] = result[c_str + k - 1]
  BY <1>0, SearchEnds
<1>2. Stop = next_line - 1
  BY DEF Stop
<1>3. IsFirstMatch(ret, str, Colon)
  BY <1>0, MatchIs DEF Separator, Colon
<1>4. c_str \in Nat /\ Stop \in Nat /\ c_str <= Stop
  BY <1>1
<1>5. FoundColon(result, c_str, Stop, ret)
  BY <1>1, <1>3, <1>4, SearchColon
<1> QED BY <1>2, <1>5

(* A terminator is written over the separator at e.                         *)
LEMMA CopyCut ==
  ASSUME Copy, Len(result) \in Nat, raw_request \in Seq(Bytes),
         NEW e \in 1..Len(raw_request), raw_request' = Terminated(e), result' = result
  PROVE  /\ Copy'
         /\ \A p \in (e + 1)..Len(result) : raw_request[p] # NUL => raw_request'[p] # NUL
<1>1. /\ Len(raw_request') = Len(raw_request)
      /\ \A p \in 1..Len(raw_request) :
           raw_request'[p] = IF p = e THEN NUL ELSE raw_request[p]
  BY Cut
<1>2. Copy'
  BY <1>1 DEF Copy
<1>3. Len(raw_request) = Len(result)
  BY DEF Copy
<1>4. ASSUME NEW p \in (e + 1)..Len(result), raw_request[p] # NUL
      PROVE  raw_request'[p] # NUL
  <2>1. p \in 1..Len(raw_request) /\ p # e
    BY <1>3
  <2> QED BY <1>1, <1>4, <2>1
<1> QED BY <1>2, <1>4

(* A text that has no reading is rejected for good.                         *)
LEMMA RejectIsRight ==
  ASSUME Reading, ViewsInv, FindsFirst, ParsedInv, Reject
  PROVE  Unreadable(result)
<1>1. parsing \in Pieces /\ at = "returned" /\ ret = -1
  BY DEF Reject
<1>2. Len(result) \in Nat
  BY <1>1, SearchEnds
<1>3. ASSUME NEW x, Separator(parsing) = <<x>>, parsing # "key"
      PROVE  \A p \in c_str..Len(result) : result[p] # x
  <2>1. FoundOne(result, x, c_str, Len(result) + 1, ret)
    BY <1>1, <1>3, PieceEnds
  <2>2. (Len(result) + 1) - 1 = Len(result)
    BY <1>2
  <2> QED BY <1>1, <2>1, <2>2 DEF FoundOne
<1>4. CASE parsing = "method"
  <2>1. c_str = 1
    BY <1>4 DEF ParsedInv, ParsedTo
  <2>2. \A p \in c_str..Len(result) : result[p] # " "
    BY <1>3, <1>4 DEF Separator
  <2> QED BY <1>2, <2>1, <2>2, NoMethod
<1>5. CASE parsing = "path"
  <2>1. PICK i \in 1..Len(result) : MethodTo(result, request, i) /\ c_str = i + 1
    BY <1>5 DEF ParsedInv, ParsedTo
  <2>2. \A p \in c_str..Len(result) : result[p] # " "
    BY <1>3, <1>5 DEF Separator
  <2> QED BY <1>2, <2>1, <2>2, NoPath DEF MethodTo
<1>6. CASE parsing = "protocol"
  <2>1. PICK i, j \in 1..Len(result) :
          MethodTo(result, request, i) /\ PathTo(result, request, i, j) /\ c_str = j + 1
    BY <1>6 DEF ParsedInv, ParsedTo
  <2>2. \A p \in c_str..Len(result) : result[p] # "\n"
    BY <1>3, <1>6 DEF Separator
  <2> QED BY <1>2, <2>1, <2>2, NoProtocol DEF MethodTo, PathTo
<1>7. CASE parsing \in {"line", "key"}
  <2>1. PICK i, j, k \in 1..Len(result) :
          /\ FirstLine(result, request, i, j, k)
          /\ c_str \in (k + 1)..(Len(result) + 1) /\ result[c_str - 1] = "\n"
          /\ HeadersTo(result, request.headers, k, c_str - 1)
    BY <1>7 DEF ParsedInv, ParsedTo
  <2>2. CASE parsing = "line"
    <3>1. \A p \in c_str..Len(result) : result[p] # "\n"
      BY <1>3, <2>2 DEF Separator
    <3> QED BY <1>2, <2>1, <3>1, NoEnd
  <2>3. CASE parsing = "key"
    <3> DEFINE m == next_line - 1
    <3>1. LineTo(result, c_str, m)
      BY <2>3 DEF ParsedInv
    <3>2. FoundColon(result, c_str, m, ret)
      BY <1>1, <2>3, KeyEnds
    <3> HIDE DEF m
    <3>3. \A p \in c_str..(m - 2) : ~ ColonAt(result, p)
      BY <1>1, <3>2 DEF FoundColon
    <3> QED BY <1>2, <2>1, <3>1, <3>3, NoColon
  <2> QED BY <1>7, <2>2, <2>3
<1> QED BY <1>1, <1>4, <1>5, <1>6, <1>7 DEF Pieces

(* Where the piece that has been found ends.                                *)
LEMMA PieceFound ==
  ASSUME Reading, ViewsInv, FindsFirst, ParsedInv, parsing \in Pieces \ {"key"}, Found,
         NEW x, Separator(parsing) = <<x>>
  PROVE  /\ Len(result) \in Nat /\ Len(raw_request) = Len(result)
         /\ c_str \in 1..(Len(result) + 1) /\ c_str + ret \in c_str..Len(result)
         /\ result[c_str + ret] = x
         /\ \A p \in c_str..((c_str + ret) - 1) : result[p] # x
         /\ SubSeq(raw_request, c_str, (c_str + ret) - 1) = SubSeq(result, c_str, (c_str + ret) - 1)
         /\ \A p \in c_str..Len(result) : raw_request[p] # NUL
<1>1. /\ Len(result) \in Nat /\ Len(raw_request) = Len(result)
      /\ c_str \in 1..(Len(result) + 1)
      /\ \A p \in c_str..(Stop - 1) : raw_request[p] = result[p]
  BY SearchEnds
<1>2. Stop = Len(result) + 1
  BY DEF Stop
<1>3. FoundOne(result, x, c_str, Len(result) + 1, ret)
  BY PieceEnds DEF Found
<1> DEFINE e == c_str + ret
<1>4. /\ e \in c_str..((Len(result) + 1) - 1) /\ result[e] = x
      /\ \A p \in c_str..(e - 1) : result[p] # x
  BY <1>3, Zenon DEF FoundOne, Found
<1> HIDE DEF e
<1>5. e \in c_str..Len(result) /\ c_str \in Int /\ e - 1 \in Int
  BY <1>1, <1>4
<1>6. \A p \in c_str..(e - 1) : raw_request[p] = result[p]
  <2>1. \A p \in c_str..(e - 1) : p \in c_str..(Stop - 1)
    BY <1>1, <1>2, <1>5
  <2> QED BY <1>1, <2>1
<1>7. SubSeq(raw_request, c_str, e - 1) = SubSeq(result, c_str, e - 1)
  BY <1>5, <1>6, SameText
<1>8. \A p \in c_str..Len(result) : raw_request[p] # NUL
  BY DEF ParsedInv
<1> QED BY <1>1, <1>4, <1>5, <1>7, <1>8, Zenon DEF e

LEMMA NoHeaders ==
  ASSUME NEW t, NEW k \in Nat
  PROVE  HeadersTo(t, <<>>, k, k)
<1>1. Len(<<>>) = 0
  BY EmptySeq
<1>2. \A p \in (k + 2)..k : FALSE
  OBVIOUS
<1> QED BY <1>1, <1>2, NoLines DEF HeadersTo

LEMMA DispatchIsRight ==
  ASSUME Reading, ViewsInv, FindsFirst, ParsedInv,
         NEW piece \in DOMAIN Following, dispatchHTTP(piece), result' = result
  PROVE  ParsedInv'
<1> DEFINE e == c_str + ret
<1> DEFINE s == SubSeq(raw_request, c_str, e - 1)
<1>1. /\ parsing = piece /\ Found /\ raw_request' = Terminated(e)
      /\ request' = [request EXCEPT ![piece] = s]
      /\ c_str' = e + 1 /\ parsing' = Following[piece]
  BY DEF dispatchHTTP, ParseFrom
<1>2. piece \in {"method", "path", "protocol"} /\ piece \in Pieces \ {"key"}
  BY DEF Following, Pieces
<1> DEFINE x == IF piece = "protocol" THEN "\n" ELSE " "
<1>3. Separator(parsing) = <<x>>
  BY <1>1, <1>2 DEF Separator
<1> HIDE DEF x
<1>4. /\ Len(result) \in Nat /\ Len(raw_request) = Len(result)
      /\ c_str \in 1..(Len(result) + 1) /\ e \in c_str..Len(result)
      /\ result[e] = x /\ \A p \in c_str..(e - 1) : result[p] # x
      /\ s = SubSeq(result, c_str, e - 1)
      /\ \A p \in c_str..Len(result) : raw_request[p] # NUL
  <2>1. parsing \in Pieces \ {"key"} /\ Found
    BY <1>1, <1>2
  <2> QED BY <1>3, <2>1, PieceFound, Zenon
<1>5. /\ request'.headers = request.headers /\ request.headers = <<>>
      /\ \A f \in {"method", "path", "protocol"} :
           request'[f] = IF f = piece THEN s ELSE request[f]
  BY <1>1, <1>2 DEF ViewsInv, Fields, NewRequest, ParsedInv
<1> HIDE DEF e, s
<1>6. e \in 1..Len(raw_request) /\ Copy /\ raw_request \in Seq(Bytes)
  BY <1>1, <1>2, <1>4 DEF ParsedInv, ViewsInv, Taken
<1>7. /\ Copy'
      /\ \A p \in (e + 1)..Len(result) : raw_request[p] # NUL => raw_request'[p] # NUL
  BY <1>1, <1>4, <1>6, CopyCut
<1>8. \A p \in c_str'..Len(result') : raw_request'[p] # NUL
  <2>1. \A p \in (e + 1)..Len(result) : p \in c_str..Len(result)
    BY <1>4
  <2> QED BY <1>1, <1>4, <1>7, <2>1
<1>9. e \in 1..Len(result)
  BY <1>4, <1>6
<1>10. CASE piece = "method"
  <2>1. c_str = 1 /\ x = " " /\ parsing' = "path"
    BY <1>1, <1>10 DEF ParsedInv, ParsedTo, x, Following
  <2>2. request'.method = s
    BY <1>5, <1>10
  <2>3. MethodTo(result, request', e)
    BY <1>4, <1>9, <2>1, <2>2 DEF MethodTo, MethodEnds
  <2>4. ParsedTo'
    BY <1>1, <1>9, <2>1, <2>3 DEF ParsedTo
  <2> QED BY <1>5, <1>7, <1>8, <2>1, <2>4 DEF ParsedInv, Rejected
<1>11. CASE piece = "path"
  <2>1. x = " " /\ parsing' = "protocol"
    BY <1>1, <1>11 DEF x, Following
  <2>2. PICK i \in 1..Len(result) : MethodTo(result, request, i) /\ c_str = i + 1
    BY <1>1, <1>11 DEF ParsedInv, ParsedTo
  <2>3. request'.path = s /\ request'.method = request.method
    BY <1>5, <1>11
  <2>4. MethodTo(result, request', i)
    BY <2>2, <2>3 DEF MethodTo
  <2>5. PathEnds(result, i, e)
    BY <1>4, <2>1, <2>2 DEF PathEnds
  <2>6. PathTo(result, request', i, e)
    BY <1>4, <2>2, <2>3, <2>5 DEF PathTo
  <2>7. ParsedTo'
    BY <1>1, <1>9, <2>1, <2>2, <2>4, <2>6 DEF ParsedTo
  <2> QED BY <1>5, <1>7, <1>8, <2>1, <2>7 DEF ParsedInv, Rejected
<1>12. CASE piece = "protocol"
  <2>1. x = "\n" /\ parsing' = "line"
    BY <1>1, <1>12 DEF x, Following
  <2>2. PICK i, j \in 1..Len(result) :
          MethodTo(result, request, i) /\ PathTo(result, request, i, j) /\ c_str = j + 1
    BY <1>1, <1>12 DEF ParsedInv, ParsedTo
  <2>3. /\ request'.protocol = s /\ request'.method = request.method
        /\ request'.path = request.path
    BY <1>5, <1>12
  <2>4. MethodTo(result, request', i) /\ PathTo(result, request', i, j)
    BY <2>2, <2>3 DEF MethodTo, PathTo
  <2>5. ProtocolEnds(result, j, e)
    BY <1>4, <2>1, <2>2 DEF ProtocolEnds
  <2>6. ProtocolTo(result, request', j, e)
    BY <1>4, <2>2, <2>3, <2>5 DEF ProtocolTo
  <2>7. FirstLine(result, request', i, j, e)
    BY <2>4, <2>6 DEF FirstLine
  <2>8. HeadersTo(result, request'.headers, e, e)
    BY <1>5, <1>9, NoHeaders
  <2>9. /\ c_str' \in (e + 1)..(Len(result) + 1) /\ c_str' - 1 = e /\ result[e] = "\n"
    BY <1>1, <1>4, <1>9, <2>1
  <2>10. ParsedTo'
    BY <1>9, <2>1, <2>2, <2>7, <2>8, <2>9 DEF ParsedTo
  <2> QED BY <1>7, <1>8, <2>1, <2>10 DEF ParsedInv, Rejected
<1> QED BY <1>2, <1>10, <1>11, <1>12

LEMMA OneLong ==
  ASSUME NEW t, NEW x, NEW a \in Int, NEW b \in Int, SubSeq(t, a, b) = <<x>>
  PROVE  a = b
<1> DEFINE S == {t[p] : p \in a..b}
<1>1. \A p \in a..b : t[p] \in S
  OBVIOUS
<1> HIDE DEF S
<1>2. Len(SubSeq(t, a, b)) = IF a <= b THEN b - a + 1 ELSE 0
  BY <1>1, SubSeqProperties
<1>3. Len(<<x>>) = 1
  <2> DEFINE T == {x}
  <2>1. x \in T OBVIOUS
  <2> HIDE DEF T
  <2> QED BY <2>1, Literals
<1>4. Len(SubSeq(t, a, b)) = 1
  BY <1>3
<1> QED BY <1>2, <1>4

LEMMA TakeLineIsRight ==
  ASSUME Reading, ViewsInv, FindsFirst, ParsedInv, TakeLine, result' = result
  PROVE  ParsedInv'
<1> DEFINE e == c_str + ret
<1> DEFINE s == SubSeq(raw_request, c_str, e - 1)
<1>1. parsing = "line" /\ parsing \in Pieces \ {"key"} /\ Found /\ raw_request' = Terminated(e)
  BY DEF TakeLine, Pieces
<1>2. Separator(parsing) = <<"\n">>
  BY <1>1 DEF Separator
<1>3. /\ Len(result) \in Nat /\ Len(raw_request) = Len(result)
      /\ c_str \in 1..(Len(result) + 1) /\ e \in c_str..Len(result)
      /\ result[e] = "\n" /\ \A p \in c_str..(e - 1) : result[p] # "\n"
      /\ s = SubSeq(result, c_str, e - 1)
      /\ \A p \in c_str..Len(result) : raw_request[p] # NUL
  BY <1>1, <1>2, PieceFound
<1>4. PICK i, j, k \in 1..Len(result) :
        /\ FirstLine(result, request, i, j, k)
        /\ c_str \in (k + 1)..(Len(result) + 1) /\ result[c_str - 1] = "\n"
        /\ HeadersTo(result, request.headers, k, c_str - 1)
  BY <1>1 DEF ParsedInv, ParsedTo
<1>5. CASE EndsHeader(s)
  <2>1. /\ parsing' = "accepted" /\ UNCHANGED parseVars
        /\ \E a : request' = [request EXCEPT
                     !.raw_body = <<e + 1, TextEnd(raw_request, e + 1) - 1>>, !.args = a]
    BY <1>5 DEF TakeLine
  <2>2. /\ request'.headers = request.headers /\ request'.method = request.method
        /\ request'.path = request.path /\ request'.protocol = request.protocol
        /\ request'.raw_body = <<e + 1, TextEnd(raw_request, e + 1) - 1>>
    BY <2>1 DEF ViewsInv, Fields, NewRequest
  <2> HIDE DEF e
  <2>3. s = <<"\r">> /\ c_str \in Int /\ e - 1 \in Int
    BY <1>3, <1>5 DEF EndsHeader
  <2>4. c_str = e - 1
    BY <1>3, <2>3, OneLong
  <2>5. result[c_str] = "\r"
    <3>1. SubSeq(result, c_str, c_str) = <<"\r">>
      BY <1>3, <2>3, <2>4
    <3> QED BY <2>3, <3>1, OneToken
  <2>6. e - 2 = c_str - 1 /\ e \in (k + 2)..Len(result) /\ e \in 1..Len(result)
    BY <1>3, <1>4, <2>4
  <2>7. EndAt(result, e)
    BY <1>3, <1>4, <2>4, <2>5, <2>6 DEF EndAt
  <2>8. TextEnd(raw_request, e + 1) = Len(result) + 1
    <3>1. e + 1 \in 1..(Len(raw_request) + 1)
      BY <1>3, <2>6
    <3>2. /\ TextEnd(raw_request, e + 1) \in (e + 1)..(Len(raw_request) + 1)
          /\ \/ TextEnd(raw_request, e + 1) = Len(raw_request) + 1
             \/ raw_request[TextEnd(raw_request, e + 1)] = NUL
      BY <1>3, <3>1, TextEnds
    <3>3. \/ TextEnd(raw_request, e + 1) = Len(result) + 1
          \/ TextEnd(raw_request, e + 1) \in c_str..Len(result)
      BY <1>3, <3>2
    <3> QED BY <1>3, <3>2, <3>3
  <2>9. request'.raw_body = <<e + 1, Len(result)>>
    BY <1>3, <2>2, <2>8
  <2>10. FirstLine(result, request', i, j, k)
    BY <1>4, <2>2 DEF FirstLine, MethodTo, PathTo, ProtocolTo
  <2>11. HeadersTo(result, request'.headers, k, e - 2)
    BY <1>4, <2>2, <2>6
  <2>12. ParsedTo'
    BY <2>1, <2>6, <2>7, <2>9, <2>10, <2>11 DEF ParsedTo
  <2>13. Copy'
    BY <1>1, <1>3, <2>6, CopyCut DEF ParsedInv, ViewsInv, Taken
  <2>14. Found'
    BY <1>1, <2>1 DEF Found, parseVars
  <2> QED BY <2>1, <2>12, <2>13, <2>14 DEF ParsedInv, Rejected, Pieces
<1>6. CASE ~ EndsHeader(s)
  <2>1. /\ next_line' = e + 1 /\ parsing' = "key" /\ c_str' = c_str /\ request' = request
    BY <1>6 DEF TakeLine, ParseFrom
  <2> HIDE DEF e
  <2>2. ~ (e = c_str + 1 /\ result[c_str] = "\r")
    <3> SUFFICES ASSUME e = c_str + 1, result[c_str] = "\r" PROVE FALSE
      OBVIOUS
    <3>1. e - 1 = c_str /\ c_str \in Int
      BY <1>3
    <3>2. SubSeq(result, c_str, c_str) = <<"\r">>
      BY <3>1, OneToken
    <3> QED BY <1>3, <1>6, <3>1, <3>2 DEF EndsHeader
  <2>3. LineTo(result, c_str, e) /\ next_line' - 1 = e
    BY <1>3, <2>1, <2>2 DEF LineTo
  <2>4. e \in 1..Len(raw_request)
    BY <1>3
  <2>5. /\ Copy'
        /\ \A p \in (e + 1)..Len(result) : raw_request[p] # NUL => raw_request'[p] # NUL
    BY <1>1, <1>3, <2>4, CopyCut DEF ParsedInv, ViewsInv, Taken
  <2>6. \A p \in next_line'..Len(result') : raw_request'[p] # NUL
    <3>1. \A p \in (e + 1)..Len(result) : p \in c_str..Len(result)
      BY <1>3
    <3> QED BY <1>3, <2>1, <2>5, <3>1
  <2>7. ParsedTo'
    BY <1>4, <2>1 DEF ParsedTo
  <2> QED BY <2>1, <2>3, <2>5, <2>6, <2>7 DEF ParsedInv, Rejected
<1> QED BY <1>5, <1>6

(* The text of a view is what was read there.                               *)
LEMMA ViewIs ==
  ASSUME Copy, Len(result) \in Nat, raw_request \in Seq(Bytes), NEW v \in ViewPair, Intact(v)
  PROVE  ViewText(v) = SubSeq(result, v[1], v[2])
<1>1. Len(raw_request) = Len(result) /\ DOMAIN raw_request = 1..Len(raw_request)
  BY LenProperties DEF Copy
<1>2. \A p \in v[1]..v[2] : raw_request[p] = result[p]
  BY <1>1 DEF Copy, Intact, IntactIn
<1>3. v[1] \in Int /\ v[2] \in Int
  BY DEF ViewPair
<1> QED BY <1>2, <1>3, SameText DEF ViewText

LEMMA KeyIs ==
  ASSUME Copy, Len(result) \in Nat, Taken, NEW n \in 1..Len(request.headers),
         NEW x, request.headers[n] = ViewsOf(x)
  PROVE  /\ ViewText(request.headers[n].key) = KeyOf(result, x)
         /\ ViewText(request.headers[n].val) = SubSeq(result, x[3] + 2, x[2] - 1)
<1> DEFINE h == request.headers[n]
<1>1. h \in HeaderView /\ Intact(h.key) /\ Intact(h.val) /\ raw_request \in Seq(Bytes)
  BY DEF Taken
<1>2. h.key \in ViewPair /\ h.val \in ViewPair
  BY <1>1 DEF HeaderView
<1>3. h.key = <<x[1] + 1, x[3] - 1>> /\ h.val = <<x[3] + 2, x[2] - 1>>
  BY DEF ViewsOf
<1> HIDE DEF h
<1>4. /\ ViewText(h.key) = SubSeq(result, h.key[1], h.key[2])
      /\ ViewText(h.val) = SubSeq(result, h.val[1], h.val[2])
  BY <1>1, <1>2, ViewIs
<1>5. /\ h.key[1] = x[1] + 1 /\ h.key[2] = x[3] - 1
      /\ h.val[1] = x[3] + 2 /\ h.val[2] = x[2] - 1
  BY <1>3
<1>6. /\ ViewText(h.key) = KeyOf(result, x)
      /\ ViewText(h.val) = SubSeq(result, x[3] + 2, x[2] - 1)
  BY <1>4, <1>5, Zenon DEF KeyOf
<1> QED BY <1>6 DEF h

LEMMA TakeHeaderIsRight ==
  ASSUME Reading, ViewsInv, FindsFirst, ParsedInv, TakeHeader, result' = result
  PROVE  ParsedInv'
<1> DEFINE e == c_str + ret
<1> DEFINE m == next_line - 1
<1> DEFINE x0 == <<c_str - 1, m, e>>
<1> DEFINE key == <<c_str, e - 1>>
<1> DEFINE val == <<e + 2, next_line - 2>>
<1> DEFINE hs == request.headers
<1> DEFINE hs1 == Inserted(hs, key, val)
<1>1. /\ parsing = "key" /\ parsing \in Pieces /\ Found /\ raw_request' = Terminated(e)
      /\ request' = [request EXCEPT !.headers = hs1]
      /\ c_str' = next_line /\ parsing' = "line"
  BY DEF TakeHeader, ParseFrom, Pieces
<1>2. /\ Len(result) \in Nat /\ Len(raw_request) = Len(result)
      /\ c_str \in 1..(Len(result) + 1)
      /\ \A p \in c_str..(m - 1) : raw_request[p] = result[p]
  BY <1>1, SearchEnds DEF Stop
<1>3. LineTo(result, c_str, m) /\ FoundColon(result, c_str, m, ret)
  BY <1>1, KeyEnds DEF ParsedInv, Found
<1>4. /\ e \in c_str..(m - 2) /\ ColonAt(result, e)
      /\ \A p \in c_str..(e - 1) : ~ ColonAt(result, p)
  BY <1>1, <1>3, Zenon DEF FoundColon, Found
<1>5. m \in c_str..Len(result) /\ result[m] = "\n"
  BY <1>3 DEF LineTo
<1>6. next_line = m + 1
  <2>1. next_line \in Int
    BY <1>1, TextEnds, <1>2 DEF ViewsInv, Ahead
  <2> QED BY <2>1
<1>7. PICK i, j, k \in 1..Len(result) :
        /\ FirstLine(result, request, i, j, k)
        /\ c_str \in (k + 1)..(Len(result) + 1) /\ result[c_str - 1] = "\n"
        /\ HeadersTo(result, hs, k, c_str - 1)
  BY <1>1 DEF ParsedInv, ParsedTo
<1>8. /\ Copy /\ Taken /\ raw_request \in Seq(Bytes) /\ hs \in Seq(HeaderView)
      /\ \A p \in next_line..Len(result) : raw_request[p] # NUL
  BY <1>1 DEF ParsedInv, ViewsInv, Taken
<1>9. /\ request'.headers = hs1 /\ request'.method = request.method
      /\ request'.path = request.path /\ request'.protocol = request.protocol
  BY <1>1 DEF ViewsInv, Fields, NewRequest
<1> HIDE DEF e, m
<1>10. HeaderLine(result, c_str - 1, m, e)
  <2>1. c_str - 1 \in Nat /\ m \in 1..Len(result) /\ (c_str - 1) + 1 = c_str
    BY <1>2, <1>5
  <2> QED BY <1>2, <1>4, <2>1, HeaderLineIs
<1>11. ViewsOf(x0) = [key |-> key, val |-> val]
  <2>1. x0[1] = c_str - 1 /\ x0[2] = m /\ x0[3] = e
    OBVIOUS
  <2>2. (c_str - 1) + 1 = c_str /\ m - 1 = next_line - 2
    BY <1>2, <1>5, <1>6
  <2> QED BY <2>1, <2>2 DEF ViewsOf
<1>12. ViewText(key) = KeyOf(result, x0)
  <2>1. \A p \in c_str..(e - 1) : raw_request[p] = result[p]
    <3>1. \A p \in c_str..(e - 1) : p \in c_str..(m - 1)
      BY <1>2, <1>4, <1>5
    <3> QED BY <1>2, <3>1
  <2>2. SubSeq(raw_request, c_str, e - 1) = SubSeq(result, c_str, e - 1)
    <3>1. c_str \in Int /\ e - 1 \in Int BY <1>2, <1>4
    <3> QED BY <2>1, <3>1, SameText
  <2>3. (c_str - 1) + 1 = c_str
    BY <1>2
  <2>4. key[1] = c_str /\ key[2] = e - 1 /\ x0[1] = c_str - 1 /\ x0[3] = e
    OBVIOUS
  <2> HIDE DEF key, x0
  <2> QED BY <2>2, <2>3, <2>4 DEF ViewText, KeyOf
<1> DEFINE Old == LinesTo(result, k, c_str - 1)
<1>13. (\E h \in ToSet(hs) : ViewText(h.key) = ViewText(key))
         <=> \E y \in Old : KeyOf(result, y) = KeyOf(result, x0)
  <2> HIDE DEF key, x0, Old
  <2>1. ASSUME NEW h \in ToSet(hs), ViewText(h.key) = ViewText(key)
        PROVE  \E y \in Old : KeyOf(result, y) = KeyOf(result, x0)
    <3>1. PICK n \in 1..Len(hs) : h = hs[n]
      BY <1>8, LenProperties DEF ToSet
    <3>2. PICK y \in Old : hs[n] = ViewsOf(y)
      BY <1>7 DEF HeadersTo, Old
    <3>3. ViewText(h.key) = KeyOf(result, y)
      BY <1>2, <1>8, <3>1, <3>2, KeyIs
    <3> QED BY <1>12, <2>1, <3>3
  <2>2. ASSUME NEW y \in Old, KeyOf(result, y) = KeyOf(result, x0)
        PROVE  \E h \in ToSet(hs) : ViewText(h.key) = ViewText(key)
    <3>1. k \in Nat /\ c_str - 1 \in Nat
      BY <1>2
    <3>2. PICK x \in Old : /\ FirstOf(result, k, c_str - 1, x)
                           /\ KeyOf(result, x) = KeyOf(result, y)
      BY <3>1, FirstExists DEF Old
    <3>3. PICK n \in 1..Len(hs) : hs[n] = ViewsOf(x)
      BY <1>7, <3>2 DEF HeadersTo, Old
    <3>4. ViewText(hs[n].key) = KeyOf(result, x)
      BY <1>2, <1>8, <3>3, KeyIs
    <3>5. hs[n] \in ToSet(hs)
      BY <1>8, LenProperties DEF ToSet
    <3> QED BY <1>12, <2>2, <3>2, <3>4, <3>5
  <2> QED BY <2>1, <2>2
<1> DEFINE h0 == ViewsOf(x0)
<1>14. /\ hs1 \in {hs, Append(hs, h0)}
       /\ hs1 = hs <=> \E y \in Old : KeyOf(result, y) = KeyOf(result, x0)
  <2>1. hs1 = IF \E y \in Old : KeyOf(result, y) = KeyOf(result, x0)
                THEN hs ELSE Append(hs, h0)
    <3>1. hs1 = IF \E h \in ToSet(hs) : ViewText(h.key) = ViewText(key)
                  THEN hs ELSE Append(hs, [key |-> key, val |-> val])
      BY DEF Inserted
    <3> HIDE DEF hs1, hs, key, val, Old, x0
    <3> QED BY <1>11, <1>13, <3>1, Zenon
  <2>2. Append(hs, h0) # hs
    <3>1. Len(hs) \in Nat /\ Len(Append(hs, h0)) = Len(hs) + 1
      <4> HIDE DEF h0, hs
      <4> DEFINE S == HeaderView \cup {h0}
      <4>1. hs \in Seq(S)
        <5>1. HeaderView \subseteq S OBVIOUS
        <5> HIDE DEF S
        <5> QED BY <1>8, <5>1, SeqMonotonic
      <4>2. h0 \in S OBVIOUS
      <4> HIDE DEF S
      <4> QED BY <4>1, <4>2, AppendProperties
    <3> QED BY <3>1
  <2> HIDE DEF hs1, hs, h0, Old, x0
  <2> QED BY <2>1, <2>2
<1> HIDE DEF hs1, hs, key, val
<1>15. HeadersTo(result, hs1, k, m)
  BY <1>2, <1>3, <1>7, <1>8, <1>10, <1>14, HeadersGrow
<1>16. FirstLine(result, request', i, j, k)
  BY <1>7, <1>9 DEF FirstLine, MethodTo, PathTo, ProtocolTo
<1>17. /\ c_str' \in (k + 1)..(Len(result) + 1) /\ c_str' - 1 = m
  BY <1>1, <1>2, <1>5, <1>6, <1>7
<1>18. ParsedTo'
  BY <1>1, <1>5, <1>7, <1>9, <1>15, <1>16, <1>17 DEF ParsedTo
<1>19. e \in 1..Len(raw_request)
  BY <1>2, <1>4, <1>5
<1>20. /\ Copy'
       /\ \A p \in (e + 1)..Len(result) : raw_request[p] # NUL => raw_request'[p] # NUL
  BY <1>1, <1>2, <1>8, <1>19, CopyCut
<1>21. \A p \in c_str'..Len(result') : raw_request'[p] # NUL
  <2>1. \A p \in next_line..Len(result) : p \in (e + 1)..Len(result)
    BY <1>2, <1>4, <1>5, <1>6
  <2> QED BY <1>1, <1>8, <1>20, <2>1
<1> QED BY <1>1, <1>18, <1>20, <1>21 DEF ParsedInv, Rejected

(* What is read before it is parsed, and what happens while nothing is      *)
(* parsed.                                                                  *)
LEMMA ParsedIdle ==
  ASSUME parsing' = "idle"
  PROVE  ParsedInv'
BY DEF ParsedInv, ParsedTo, Pieces, Rejected

LEMMA ParsedKept ==
  ASSUME ParsedInv, io' \in {"read", "reading"} => io' = io,
         UNCHANGED <<result, raw_request, c_str, next_line, request, parsing, at, ret>>
  PROVE  ParsedInv'
<1>1. Copy => Copy'
  BY DEF Copy
<1>2. ParsedTo'
  BY DEF ParsedInv, ParsedTo
<1>3. Found => Found'
  BY DEF Found
<1>4. Rejected' => Rejected
  BY DEF Rejected
<1> QED BY <1>1, <1>2, <1>3, <1>4 DEF ParsedInv

(* The text is parsed, and nothing more is written into it.                 *)
LEMMA ParsedOver ==
  ASSUME ParsedInv, parsing \in {"accepted", "form", "find", "open"},
         parsing' \in {"form", "find", "open", "done"}, io = "read", io' = io,
         UNCHANGED <<result, raw_request, at, ret>>
  PROVE  ParsedInv'
<1>1. Copy' /\ Found'
  BY DEF ParsedInv, Copy, Found
<1>2. ParsedTo'
  BY DEF ParsedTo
<1>3. ~ Rejected'
  BY <1>1 DEF Rejected, Found
<1> QED BY <1>1, <1>2, <1>3 DEF ParsedInv, Pieces

LEMMA ParsedStep ==
  Control /\ Reading /\ ViewsInv /\ FindsFirst /\ ParsedInv /\ [Next]_vars => ParsedInv'
<1> SUFFICES ASSUME Control, Reading, ViewsInv, FindsFirst, ParsedInv, [Next]_vars
             PROVE  ParsedInv'
  OBVIOUS
<1>1. CASE ChangeFile \/ External \/ ReadStep \/ handleRequest \/ WriteStep \/ UNCHANGED vars
  <2>1. UNCHANGED <<raw_request, c_str, next_line, request, parsing, at, ret>>
    BY <1>1 DEF ChangeFile, External, ReadStep, handleRequest, WriteStep, httpVars, vars,
                parseVars
  <2>2. CASE parsing = "idle"
    BY <2>1, <2>2, ParsedIdle
  <2>3. CASE parsing # "idle"
    <3>1. io # "reading"
      BY <2>3 DEF Control, ParsedInv
    <3>2. result' = result /\ (io' \in {"read", "reading"} => io' = io)
      <4>1. CASE ChangeFile \/ External \/ UNCHANGED vars
        BY <4>1 DEF ChangeFile, External, Arrive, HangUp, CloseSocket, socketVars, vars
      <4>2. CASE ReadStep
        BY <3>1, <4>2 DEF ReadStep, Read, ReadEnds
      <4>3. CASE handleRequest
        BY <4>3 DEF handleRequest, BeginWrite
      <4>4. CASE WriteStep
        BY <4>4 DEF WriteStep, Send, SendFails, SendEnds, NoFile, BeginFile, SendFile,
                    SendFileEnds
      <4> QED BY <1>1, <4>1, <4>2, <4>3, <4>4
    <3> QED BY <2>1, <3>2, ParsedKept
  <2> QED BY <2>2, <2>3
<1>2. CASE BeginParse
  <2>1. /\ parsing = "idle" /\ raw_request' = result /\ c_str' = 1 /\ result' = result
        /\ parsing' = "method" /\ request' = request
    BY <1>2 DEF BeginParse, parseRequest, ParseFrom, socketVars
  <2>2. result \in Seq(Char) /\ NUL \notin Char
    BY PathAssumption DEF Reading
  <2>3. \A p \in 1..Len(result) : result[p] # NUL
    BY <2>2
  <2>4. Copy'
    BY <2>1 DEF Copy
  <2>5. request'.headers = <<>>
    BY <2>1 DEF ViewsInv, NewRequest
  <2>6. ParsedTo'
    BY <2>1 DEF ParsedTo
  <2> QED BY <2>1, <2>3, <2>4, <2>5, <2>6 DEF ParsedInv, Pieces, Rejected
<1>3. CASE Parse
  <2>0. result' = result /\ io' = io /\ io = "read"
    BY <1>3, ParserMoves DEF Parse, socketVars, Control
  <2>1. CASE ParseStep /\ UNCHANGED httpVars
    <3>1. /\ parsing \in Pieces
          /\ UNCHANGED <<raw_request, c_str, next_line, request, parsing>>
      BY <2>1 DEF ParseStep, Match, Matches, Restart, Mismatch, InLoop, NotFound, Control,
                  httpVars
    <3>2. ParsedTo' /\ (Copy => Copy')
      BY <2>0, <3>1 DEF ParsedInv, ParsedTo, Copy
    <3>3. parsing' \notin {"accepted", "form", "find", "open", "done", "idle"}
      BY <3>1 DEF Pieces
    <3> QED BY <2>0, <3>1, <3>2, <3>3 DEF ParsedInv, Rejected
  <2>2. CASE \E piece \in DOMAIN Following : dispatchHTTP(piece)
    BY <2>0, <2>2, DispatchIsRight
  <2>3. CASE TakeLine
    BY <2>0, <2>3, TakeLineIsRight
  <2>4. CASE TakeHeader
    BY <2>0, <2>4, TakeHeaderIsRight
  <2>5. CASE Reject
    <3>1. Unreadable(result)
      BY <2>5, RejectIsRight
    <3>2. parsing' = "done"
      BY <2>5 DEF Reject
    <3> QED BY <2>0, <3>1, <3>2 DEF ParsedInv, ParsedTo, Pieces
  <2>6. CASE handleMethod
    <3>1. /\ parsing \in {"accepted", "form"} /\ parsing' \in {"form", "find"}
          /\ UNCHANGED <<raw_request, at, ret>>
      BY <2>6 DEF handleMethod, ParseForm, BeginParts, IgnoreBody, NoMorePart, TakePart,
                  parseVars
    <3> QED BY <2>0, <3>1, ParsedOver
  <2>7. CASE findHandler
    <3>1. /\ parsing = "find" /\ parsing' \in {"open", "done"}
          /\ UNCHANGED <<raw_request, at, ret>>
      BY <2>7 DEF findHandler, CallHandler, defaultPage, Stat, parseVars
    <3> QED BY <2>0, <3>1, ParsedOver
  <2>8. CASE defaultFileFounder
    <3>1. /\ parsing = "open" /\ parsing' = "done"
          /\ UNCHANGED <<raw_request, at, ret>>
      BY <2>8 DEF defaultFileFounder, parseVars
    <3> QED BY <2>0, <3>1, ParsedOver
  <2> QED BY <1>3, <2>1, <2>2, <2>3, <2>4, <2>5, <2>6, <2>7, <2>8 DEF Parse, HTTPStep
<1> QED BY <1>1, <1>2, <1>3 DEF Next, CoroutineStep

LEMMA LinesAre ==
  ASSUME NEW t, Len(t) \in Nat, NEW k \in Nat, NEW e \in (k + 2)..Len(t)
  PROVE  HeaderLines(t, k, e) = LinesTo(t, k, e - 2)
<1> DEFINE breaks == {i \in k..(e - 2) : t[i] = "\n"}
<1> DEFINE colons == {i \in k..(e - 2) : t[i] = ":"}
<1>1. HeaderLines(t, k, e) =
        {x \in breaks \X breaks \X colons :
           x[1] < x[2] /\ IsLine(t, x[1], x[2]) /\ HeaderLine(t, x[1], x[2], x[3])}
  BY Zenon DEF HeaderLines
<1>2. ASSUME NEW x \in LinesTo(t, k, e - 2) PROVE x \in HeaderLines(t, k, e)
  <2>1. /\ x = <<x[1], x[2], x[3]>> /\ x[1] \in k..(e - 2) /\ x[2] \in k..(e - 2)
        /\ x[3] \in k..(e - 2) /\ x[1] < x[2]
        /\ IsLine(t, x[1], x[2]) /\ HeaderLine(t, x[1], x[2], x[3])
    <3>1. e - 2 \in Nat OBVIOUS
    <3> QED BY <3>1, LineIn
  <2>2. t[x[1]] = "\n" /\ t[x[2]] = "\n"
    BY <2>1 DEF IsLine
  <2>3. t[x[3]] = ":"
    <3> DEFINE a == x[1]
    <3> DEFINE b == x[2]
    <3> DEFINE c == x[3]
    <3>1. a \in Nat /\ b \in 1..Len(t) /\ HeaderLine(t, a, b, c)
      BY <2>1
    <3> HIDE DEF a, b, c
    <3>2. ColonAt(t, c)
      BY <3>1, HeaderLineIs
    <3> QED BY <3>2 DEF ColonAt, c
  <2>4. x[1] \in breaks /\ x[2] \in breaks /\ x[3] \in colons
    BY <2>1, <2>2, <2>3
  <2> HIDE DEF breaks, colons
  <2>5. x \in breaks \X breaks \X colons
    BY <2>1, <2>4
  <2> QED BY <1>1, <2>1, <2>5
<1>3. ASSUME NEW x \in HeaderLines(t, k, e) PROVE x \in LinesTo(t, k, e - 2)
  <2>1. /\ x \in breaks \X breaks \X colons /\ x[1] < x[2]
        /\ IsLine(t, x[1], x[2]) /\ HeaderLine(t, x[1], x[2], x[3])
    BY <1>1
  <2>2. breaks \subseteq k..(e - 2) /\ colons \subseteq k..(e - 2)
    OBVIOUS
  <2> HIDE DEF breaks, colons
  <2>3. x \in (k..(e - 2)) \X (k..(e - 2)) \X (k..(e - 2))
    BY <2>1, <2>2
  <2> QED BY <2>1, <2>3 DEF LinesTo
<1> QED BY <1>2, <1>3

(* What the first lines with each key say is what is found in the headers.  *)
LEMMA HeadersAreRight ==
  ASSUME Copy, Len(result) \in Nat, Taken, NEW k, NEW m,
         HeadersTo(result, request.headers, k, m)
  PROVE  {<<ViewText(h.key), ViewText(h.val)>> : h \in ToSet(request.headers)}
           = {<<KeyOf(result, x), SubSeq(result, x[3] + 2, x[2] - 1)>> :
                x \in {y \in LinesTo(result, k, m) : FirstOf(result, k, m, y)}}
<1> DEFINE hs == request.headers
<1> DEFINE Lines == LinesTo(result, k, m)
<1> DEFINE Of(h) == <<ViewText(h.key), ViewText(h.val)>>
<1> DEFINE Says(x) == <<KeyOf(result, x), SubSeq(result, x[3] + 2, x[2] - 1)>>
<1>1. /\ \A n \in 1..Len(hs) :
           \E x \in Lines : FirstOf(result, k, m, x) /\ hs[n] = ViewsOf(x)
      /\ \A x \in Lines :
           FirstOf(result, k, m, x) => \E n \in 1..Len(hs) : hs[n] = ViewsOf(x)
  BY Zenon DEF HeadersTo
<1>2. \A n \in 1..Len(hs) : \A x : hs[n] = ViewsOf(x) => Of(hs[n]) = Says(x)
  BY KeyIs
<1>3. hs \in Seq(HeaderView)
  BY DEF Taken
<1> HIDE DEF hs, Of, Says, Lines
<1>4. \A h : h \in ToSet(hs) <=> \E n \in 1..Len(hs) : h = hs[n]
  BY <1>3, LenProperties DEF ToSet
<1> DEFINE First == {y \in Lines : FirstOf(result, k, m, y)}
<1>5. ASSUME NEW h \in ToSet(hs) PROVE \E x \in First : Of(h) = Says(x)
  <2>1. PICK n \in 1..Len(hs) : h = hs[n]
    BY <1>4
  <2>2. PICK x \in Lines : FirstOf(result, k, m, x) /\ hs[n] = ViewsOf(x)
    BY <1>1
  <2> QED BY <1>2, <2>1, <2>2
<1>6. ASSUME NEW x \in First PROVE \E h \in ToSet(hs) : Of(h) = Says(x)
  <2>1. PICK n \in 1..Len(hs) : hs[n] = ViewsOf(x)
    BY <1>1
  <2> QED BY <1>2, <1>4, <2>1
<1> HIDE DEF First
<1>7. {Of(h) : h \in ToSet(hs)} = {Says(x) : x \in First}
  BY <1>5, <1>6
<1> QED BY <1>7 DEF hs, Of, Says, Lines, First

LEMMA AcceptIsRight ==
  ASSUME Reading, ViewsInv, ParsedInv, Accepted
  PROVE  \E r \in Readings(result) :
           /\ WellFormed(result, r)
           /\ request.method = SubSeq(result, 1, r.i - 1)
           /\ request.path = SubSeq(result, r.i + 1, r.j - 1)
           /\ request.protocol = SubSeq(result, r.j + 1, r.k - 1)
           /\ ViewText(request.raw_body) = SubSeq(result, r.e + 1, Len(result))
           /\ {<<ViewText(h.key), ViewText(h.val)>> : h \in ToSet(request.headers)}
                = {<<KeyOf(result, x), SubSeq(result, x[3] + 2, x[2] - 1)>> :
                     x \in {y \in HeaderLines(result, r.k, r.e) :
                              \A z \in HeaderLines(result, r.k, r.e) :
                                KeyOf(result, y) = KeyOf(result, z) => y[1] <= z[1]}}
<1>1. parsing = "accepted" /\ Copy /\ Taken /\ raw_request \in Seq(Bytes)
  BY DEF Accepted, ParsedInv, ViewsInv, Taken
<1>2. Len(result) \in Nat
  BY DEF Reading
<1>3. PICK i, j, k, e \in 1..Len(result) :
        /\ FirstLine(result, request, i, j, k)
        /\ e \in (k + 2)..Len(result) /\ EndAt(result, e)
        /\ HeadersTo(result, request.headers, k, e - 2)
        /\ request.raw_body = <<e + 1, Len(result)>>
  BY <1>1 DEF ParsedInv, ParsedTo
<1>4. ASSUME NEW p \in (k + 2)..(e - 1) PROVE ~ EndAt(result, p)
  <2>1. CASE p = e - 1
    <3>1. result[e - 1] = "\r" BY <1>3 DEF EndAt
    <3> QED BY <2>1, <3>1 DEF EndAt
  <2>2. CASE p # e - 1
    <3>1. p \in (k + 2)..(e - 2) BY <1>2, <1>3, <2>2
    <3> QED BY <1>3, <3>1 DEF HeadersTo
  <2> QED BY <2>1, <2>2
<1> DEFINE r == [i |-> i, j |-> j, k |-> k, e |-> e]
<1>5. r \in Readings(result)
  BY <1>2, <1>3, <1>4, IsReading
<1>6. r.i = i /\ r.j = j /\ r.k = k /\ r.e = e
  OBVIOUS
<1> HIDE DEF r
<1>7. WellFormed(result, r)
  BY <1>3, <1>6 DEF WellFormed, HeadersTo, Split
<1>8. /\ request.method = SubSeq(result, 1, r.i - 1)
      /\ request.path = SubSeq(result, r.i + 1, r.j - 1)
      /\ request.protocol = SubSeq(result, r.j + 1, r.k - 1)
  BY <1>3, <1>6 DEF FirstLine, MethodTo, PathTo, ProtocolTo
<1>9. ViewText(request.raw_body) = SubSeq(result, r.e + 1, Len(result))
  <2> DEFINE v == request.raw_body
  <2>1. v \in ViewPair /\ Intact(v)
    BY <1>1 DEF Taken
  <2>2. v[1] = e + 1 /\ v[2] = Len(result)
    BY <1>3
  <2> HIDE DEF v
  <2>3. ViewText(v) = SubSeq(result, v[1], v[2])
    BY <1>1, <1>2, <2>1, ViewIs
  <2> QED BY <1>6, <2>2, <2>3 DEF v
<1>10. HeaderLines(result, r.k, r.e) = LinesTo(result, k, e - 2)
  BY <1>2, <1>3, <1>6, LinesAre
<1>11. {y \in LinesTo(result, k, e - 2) : FirstOf(result, k, e - 2, y)}
         = {y \in LinesTo(result, k, e - 2) : \A z \in LinesTo(result, k, e - 2) :
              KeyOf(result, y) = KeyOf(result, z) => y[1] <= z[1]}
  BY DEF FirstOf
<1>12. {<<ViewText(h.key), ViewText(h.val)>> : h \in ToSet(request.headers)}
         = {<<KeyOf(result, x), SubSeq(result, x[3] + 2, x[2] - 1)>> :
              x \in {y \in LinesTo(result, k, e - 2) : FirstOf(result, k, e - 2, y)}}
  BY <1>1, <1>2, <1>3, HeadersAreRight
<1> QED BY <1>5, <1>7, <1>8, <1>9, <1>10, <1>11, <1>12

(* parseRequest accepts exactly the texts that can be read as a request,    *)
(* for every text and set of names, and takes from them what the reading    *)
(* says, each header from the first line with its key (HTTPUnit.cpp         *)
(* 108-164).                                                                *)
THEOREM RequestsAreParsedAsWritten == Spec => []ParsedAsWritten
<1>1. Init => ParsedInv
  BY DEF Init, HTTPInit, ParsedInv, ParsedTo, Pieces, Rejected
<1>2. Reading /\ ViewsInv /\ ParsedInv => ParsedAsWritten
  <2> SUFFICES ASSUME Reading, ViewsInv, ParsedInv PROVE ParsedAsWritten
    OBVIOUS
  <2>1. Rejected /\ io = "read" => {r \in Readings(result) : WellFormed(result, r)} = {}
    BY DEF ParsedInv, Unreadable
  <2>2. CASE Accepted
    <3>1. PICK r \in Readings(result) :
            /\ WellFormed(result, r)
            /\ request.method = SubSeq(result, 1, r.i - 1)
            /\ request.path = SubSeq(result, r.i + 1, r.j - 1)
            /\ request.protocol = SubSeq(result, r.j + 1, r.k - 1)
            /\ ViewText(request.raw_body) = SubSeq(result, r.e + 1, Len(result))
            /\ {<<ViewText(h.key), ViewText(h.val)>> : h \in ToSet(request.headers)}
                 = {<<KeyOf(result, x), SubSeq(result, x[3] + 2, x[2] - 1)>> :
                      x \in {y \in HeaderLines(result, r.k, r.e) :
                               \A z \in HeaderLines(result, r.k, r.e) :
                                 KeyOf(result, y) = KeyOf(result, z) => y[1] <= z[1]}}
      BY <2>2, AcceptIsRight
    <3>2. r \in {q \in Readings(result) : WellFormed(result, q)}
      BY <3>1
    <3> QED BY <2>1, <3>1, <3>2 DEF ParsedAsWritten, KeyOf
  <2>3. CASE ~ Accepted
    BY <2>1, <2>3 DEF ParsedAsWritten
  <2> QED BY <2>2, <2>3
<1> QED BY <1>1, <1>2, ParsedStep, SearchesFindFirst, ViewsInit, ViewsStep, ControlAlways,
           ReadingAlways, PTL DEF Spec
-------------------------------------------------------------------------------
(* Arguments *)

Word(x) == x \notin {"?", "="} \cup Delimiters

(* What follows the only mark of p, at q, is a list of pairs, and no "="    *)
(* precedes it.                                                             *)
PairList(p, q) ==
  /\ q \in 1..Len(p) /\ p[q] = "?"
  /\ \A i \in 1..Len(p) : (p[i] = "?" => i = q) /\ (p[i] = "=" => i > q)
  /\ (Len(p) - q) % 4 = 3
  /\ \A i \in (q + 1)..Len(p) :
       /\ (i - q) % 2 = 1 => Word(p[i])
       /\ (i - q) % 4 = 2 => p[i] = "="
       /\ (i - q) % 4 = 0 => p[i] = "&"

(* What is before and behind the "=" at e in a list of pairs.               *)
Preceded(p, q, e) ==
  \/ e = q + 2
  \/ e >= q + 6 /\ p[e - 4] = "=" /\ Word(p[e - 3]) /\ p[e - 2] = "&"

Followed(p, e) ==
  \/ e + 1 = Len(p)
  \/ e + 4 <= Len(p) /\ p[e + 2] = "&" /\ Word(p[e + 3]) /\ p[e + 4] = "="

LEMMA AroundEquals ==
  ASSUME NEW p, Len(p) \in Nat, NEW q \in Int, PairList(p, q),
         NEW e \in 1..Len(p), p[e] = "="
  PROVE  /\ e \in (q + 2)..(Len(p) - 1) /\ Word(p[e - 1]) /\ Word(p[e + 1])
         /\ Preceded(p, q, e) /\ Followed(p, e)
<1>0. /\ q \in 1..Len(p) /\ (Len(p) - q) % 4 = 3 /\ e > q
      /\ \A i \in (q + 1)..Len(p) :
           /\ (i - q) % 2 = 1 => Word(p[i])
           /\ (i - q) % 4 = 2 => p[i] = "="
           /\ (i - q) % 4 = 0 => p[i] = "&"
  BY DEF PairList
<1> DEFINE n == Len(p)
           d == e - q
<1>1. n \in Nat /\ d \in Nat /\ d > 0 /\ e = q + d /\ e <= n /\ q >= 1
  BY <1>0
<1>2. d % 4 = 2
  <2>1. e \in (q + 1)..Len(p)
    BY <1>0
  <2>2. (d % 2 = 1 => Word(p[e])) /\ (d % 4 = 0 => p[e] = "&")
    BY <1>0, <2>1
  <2>3. d % 2 # 1 /\ d % 4 # 0
    BY <2>2 DEF Word
  <2> HIDE DEF d
  <2> QED BY <1>1, <2>3
<1> HIDE DEF n, d
<1>3. n - q \in Nat /\ (n - q) % 4 = 3 /\ n - q >= d
  BY <1>0, <1>1 DEF n
<1>4. /\ d >= 2 /\ n - q >= d + 1 /\ (d - 1) % 2 = 1 /\ (d + 1) % 2 = 1
      /\ \/ d = 2
         \/ d >= 6 /\ (d - 4) % 4 = 2 /\ (d - 3) % 2 = 1 /\ (d - 2) % 4 = 0
      /\ \/ n - q = d + 1
         \/ n - q >= d + 4 /\ (d + 2) % 4 = 0 /\ (d + 3) % 2 = 1 /\ (d + 4) % 4 = 2
  BY <1>1, <1>2, <1>3
<1>5. ASSUME NEW i \in Int, 1 <= i, i <= n - q
      PROVE  /\ i % 2 = 1 => Word(p[q + i])
             /\ i % 4 = 2 => p[q + i] = "="
             /\ i % 4 = 0 => p[q + i] = "&"
  <2>1. q + i \in (q + 1)..Len(p) /\ (q + i) - q = i
    BY <1>1, <1>5 DEF n
  <2> QED BY <1>0, <2>1
<1>6. /\ (q + (d - 1)) = e - 1 /\ (q + (d + 1)) = e + 1
      /\ (q + (d - 4)) = e - 4 /\ (q + (d - 3)) = e - 3 /\ (q + (d - 2)) = e - 2
      /\ (q + (d + 2)) = e + 2 /\ (q + (d + 3)) = e + 3 /\ (q + (d + 4)) = e + 4
  BY <1>1
<1>7. e \in (q + 2)..(Len(p) - 1)
  BY <1>1, <1>4 DEF n
<1>8. Word(p[e - 1]) /\ Word(p[e + 1])
  <2>1. d - 1 \in Int /\ d + 1 \in Int /\ 1 <= d - 1 /\ d - 1 <= n - q /\ 1 <= d + 1
    BY <1>1, <1>4
  <2>2. Word(p[q + (d - 1)]) /\ Word(p[q + (d + 1)])
    BY <1>4, <1>5, <2>1
  <2> QED BY <1>6, <2>2
<1>9. Preceded(p, q, e)
  <2>1. CASE d = 2
    BY <1>1, <2>1 DEF Preceded
  <2>2. CASE d # 2
    <3>1. /\ d - 4 \in Int /\ 1 <= d - 4 /\ d - 4 <= n - q
          /\ d - 3 \in Int /\ 1 <= d - 3 /\ d - 3 <= n - q
          /\ d - 2 \in Int /\ 1 <= d - 2 /\ d - 2 <= n - q
      BY <1>1, <1>4, <2>2
    <3>2. p[q + (d - 4)] = "=" /\ Word(p[q + (d - 3)]) /\ p[q + (d - 2)] = "&"
      BY <1>4, <1>5, <2>2, <3>1
    <3>3. e >= q + 6
      BY <1>1, <1>4, <2>2
    <3> QED BY <1>6, <3>2, <3>3 DEF Preceded
  <2> QED BY <2>1, <2>2
<1>10. Followed(p, e)
  <2>1. CASE n - q = d + 1
    <3>1. e + 1 = Len(p)
      BY <1>1, <2>1 DEF n
    <3> QED BY <3>1 DEF Followed
  <2>2. CASE n - q # d + 1
    <3>1. /\ d + 4 \in Int /\ 1 <= d + 4 /\ d + 4 <= n - q
          /\ d + 3 \in Int /\ 1 <= d + 3 /\ d + 3 <= n - q
          /\ d + 2 \in Int /\ 1 <= d + 2 /\ d + 2 <= n - q
      BY <1>1, <1>4, <2>2
    <3>2. p[q + (d + 4)] = "=" /\ Word(p[q + (d + 3)]) /\ p[q + (d + 2)] = "&"
      BY <1>4, <1>5, <2>2, <3>1
    <3>3. e + 4 <= Len(p)
      BY <1>1, <1>4, <2>2 DEF n
    <3> QED BY <1>6, <3>2, <3>3 DEF Followed
  <2> QED BY <2>1, <2>2
<1> QED BY <1>7, <1>8, <1>9, <1>10

(* Where the search that finds the "=" at e begins.                         *)
From(q, e) == IF e = q + 2 THEN 1 ELSE e - 1

LEMMA DomainIs == ASSUME NEW S, NEW p \in Seq(S) PROVE DOMAIN p = 1..Len(p) /\ Len(p) \in Nat
OBVIOUS

(* Every "=" of a list of pairs is found ...                                *)
LEMMA EveryEquals ==
  ASSUME NEW S, NEW p \in Seq(S), NEW q \in Int, PairList(p, q),
         NEW e \in 1..Len(p), p[e] = "="
  PROVE  [from |-> From(q, e), equals |-> e] \in ArgPairs(p)
<1>0. DOMAIN p = 1..Len(p) /\ Len(p) \in Nat
  BY DomainIs
<1>1. /\ e \in (q + 2)..(Len(p) - 1) /\ Word(p[e - 1]) /\ Preceded(p, q, e)
  BY <1>0, AroundEquals
<1>2. q \in 1..Len(p) /\ \A i \in 1..Len(p) : p[i] = "=" => i > q
  BY DEF PairList
<1>3. ASSUME NEW f \in SearchesFrom(p), f <= e, \A i \in f..(e - 1) : p[i] # "="
      PROVE  [from |-> f, equals |-> e] \in ArgPairs(p)
  BY <1>0, <1>3 DEF ArgPairs
<1>4. CASE e = q + 2
  <2>1. 1 \in SearchesFrom(p) /\ 1 <= e /\ From(q, e) = 1
    BY <1>2, <1>4 DEF SearchesFrom, From
  <2>2. ASSUME NEW i \in 1..(e - 1) PROVE p[i] # "="
    <3>1. i \in 1..Len(p) /\ (i > q => i = e - 1)
      BY <1>0, <1>1, <1>2, <1>4
    <3>2. p[e - 1] # "="
      BY <1>1 DEF Word
    <3> QED BY <1>2, <3>1, <3>2
  <2> QED BY <1>3, <2>1, <2>2
<1>5. CASE e # q + 2
  <2>1. e >= q + 6 /\ p[e - 4] = "=" /\ Word(p[e - 3]) /\ p[e - 2] = "&"
    BY <1>1, <1>5 DEF Preceded
  <2>2. /\ e - 2 \in DOMAIN p /\ e - 4 \in 1..((e - 2) - 1) /\ (e - 2) + 1 = e - 1
        /\ e - 1 \in Int /\ e - 1 <= e
    BY <1>0, <1>1, <1>2, <2>1
  <2>3. \A j \in ((e - 4) + 1)..((e - 2) - 1) : p[j] \notin Delimiters
    <3>1. ASSUME NEW j \in ((e - 4) + 1)..((e - 2) - 1) PROVE j = e - 3
      BY <1>1
    <3>2. p[e - 3] \notin Delimiters
      BY <2>1 DEF Word
    <3> QED BY <3>1, <3>2
  <2>4. p[e - 2] \in Delimiters
    BY <2>1 DEF Delimiters
  <2>5. e - 1 \in SearchesFrom(p)
    BY <2>1, <2>2, <2>3, <2>4 DEF SearchesFrom
  <2>6. ASSUME NEW i \in (e - 1)..(e - 1) PROVE p[i] # "="
    <3>1. i = e - 1 BY <1>1
    <3> QED BY <1>1, <3>1 DEF Word
  <2> QED BY <1>3, <1>5, <2>2, <2>5, <2>6 DEF From
<1> QED BY <1>4, <1>5

(* ... and nothing else is.                                                 *)
LEMMA OnlyEquals ==
  ASSUME NEW S, NEW p \in Seq(S), NEW q \in Int, PairList(p, q), NEW a \in ArgPairs(p)
  PROVE  /\ a.equals \in 1..Len(p) /\ p[a.equals] = "="
         /\ a.from = From(q, a.equals)
<1>0. DOMAIN p = 1..Len(p) /\ Len(p) \in Nat
  BY DomainIs
<1> DEFINE f == a.from
           e == a.equals
<1>1. /\ f \in SearchesFrom(p) /\ e \in 1..Len(p) /\ f <= e /\ p[e] = "="
      /\ \A i \in f..(e - 1) : p[i] # "="
  BY <1>0 DEF ArgPairs
<1> HIDE DEF f, e
<1>2. e \in (q + 2)..(Len(p) - 1) /\ Preceded(p, q, e)
  BY <1>0, <1>1, AroundEquals
<1>3. q \in 1..Len(p)
  BY DEF PairList
<1>4. CASE f = 1
  <2>1. CASE e = q + 2
    BY <1>1, <1>4, <2>1 DEF From, f, e
  <2>2. CASE e # q + 2
    <3>1. e >= q + 6 /\ p[e - 4] = "="
      BY <1>2, <2>2 DEF Preceded
    <3>2. e - 4 \in f..(e - 1)
      BY <1>1, <1>3, <1>4, <3>1
    <3> QED BY <1>1, <3>1, <3>2
  <2> QED BY <2>1, <2>2
<1>5. CASE f # 1
  <2>1. PICK d \in 1..Len(p) :
          /\ f = d + 1 /\ p[d] \in Delimiters
          /\ \E x \in 1..(d - 1) :
               p[x] = "=" /\ \A j \in (x + 1)..(d - 1) : p[j] \notin Delimiters
    BY <1>0, <1>1, <1>5 DEF SearchesFrom
  <2>2. PICK x \in 1..(d - 1) :
          p[x] = "=" /\ \A j \in (x + 1)..(d - 1) : p[j] \notin Delimiters
    BY <2>1
  <2>3. x \in 1..Len(p) /\ x \in Int /\ d \in Int /\ d >= x + 1 /\ d <= Len(p)
    BY <1>0, <2>1, <2>2
  <2>4. x \in (q + 2)..(Len(p) - 1) /\ Word(p[x + 1]) /\ Followed(p, x)
    BY <1>0, <2>2, <2>3, AroundEquals
  <2>5. d # x + 1
    BY <2>1, <2>4 DEF Word
  <2>6. x + 4 <= Len(p) /\ p[x + 2] = "&" /\ Word(p[x + 3]) /\ p[x + 4] = "="
    <3>1. x + 1 # Len(p)
      <4> DEFINE n == Len(p)
      <4>1. d \in Int /\ x \in Int /\ n \in Int /\ d >= x + 1 /\ d <= n /\ d # x + 1
        BY <1>0, <2>3, <2>5
      <4> HIDE DEF n
      <4>2. x + 1 # n
        BY <4>1
      <4> QED BY <4>2 DEF n
    <3> QED BY <2>4, <3>1 DEF Followed
  <2>7. d = x + 2
    <3>1. p[x + 2] \in Delimiters
      BY <2>6 DEF Delimiters
    <3>2. x + 2 \notin (x + 1)..(d - 1)
      BY <2>2, <3>1
    <3> QED BY <2>3, <2>5, <3>2
  <2>8. e # x + 3
    BY <1>1, <2>6 DEF Word
  <2>9. x + 4 \notin f..(e - 1)
    BY <1>1, <2>6
  <2>10. f = x + 3 /\ e \in Int
    BY <1>1, <2>1, <2>3, <2>7
  <2>11. e = x + 4
    BY <1>1, <2>3, <2>8, <2>9, <2>10
  <2>12. f = e - 1 /\ e # q + 2
    BY <2>3, <2>4, <2>10, <2>11
  <2> QED BY <1>1, <2>12 DEF From, f, e
<1> QED BY <1>4, <1>5

(* The key and the value are the words on both sides.                       *)
LEMMA KeyOfPair ==
  ASSUME NEW S, NEW p \in Seq(S), NEW q \in Int, PairList(p, q), NEW a \in ArgPairs(p)
  PROVE  ArgKey(p, a) = <<p[a.equals - 1]>>
<1>0. DOMAIN p = 1..Len(p) /\ Len(p) \in Nat
  BY DomainIs
<1> DEFINE f == a.from
           e == a.equals
           begins == {f} \cup {i \in (f + 1)..e : p[i - 1] = "?"}
<1>1. e \in 1..Len(p) /\ p[e] = "=" /\ f = From(q, e)
  BY OnlyEquals
<1> HIDE DEF f, e
<1>2. e \in (q + 2)..(Len(p) - 1) /\ Word(p[e - 1])
  BY <1>0, <1>1, AroundEquals
<1>3. q \in 1..Len(p) /\ p[q] = "?" /\ \A i \in 1..Len(p) : p[i] = "?" => i = q
  BY DEF PairList
<1>4. e - 1 \in begins /\ \A y \in begins : y <= e - 1 /\ y \in Int
  <2>1. CASE e = q + 2
    <3>1. f = 1 /\ e - 1 = q + 1
      BY <1>1, <1>3, <2>1 DEF From
    <3>2. e - 1 \in (f + 1)..e /\ p[(e - 1) - 1] = "?"
      <4>1. (e - 1) - 1 = q
        BY <1>3, <2>1
      <4>2. e - 1 \in (f + 1)..e
        BY <1>2, <1>3, <3>1
      <4> QED BY <1>3, <4>1, <4>2
    <3>3. ASSUME NEW i \in (f + 1)..e, p[i - 1] = "?" PROVE i = e - 1
      <4>1. i - 1 \in 1..Len(p) /\ i \in Int
        BY <1>0, <1>2, <3>1, <3>3
      <4>2. i - 1 = q
        BY <1>3, <3>3, <4>1
      <4> QED BY <2>1, <4>1, <4>2, <1>3
    <3>4. f <= e - 1 /\ f \in Int /\ e - 1 \in Int
      BY <1>2, <1>3, <3>1
    <3> QED BY <3>2, <3>3, <3>4
  <2>2. CASE e # q + 2
    <3>1. f = e - 1 /\ f \in Int
      BY <1>1, <2>2 DEF From
    <3>2. ASSUME NEW i \in (f + 1)..e PROVE p[i - 1] # "?"
      <4>1. i - 1 = e - 1
        BY <1>2, <3>1
      <4> QED BY <1>2, <4>1 DEF Word
    <3> QED BY <3>1, <3>2
  <2> QED BY <2>1, <2>2
<1>5. Max(begins) = e - 1
  <2>1. Max(begins) \in begins /\ \A y \in begins : Max(begins) >= y
    <3>1. \E x \in begins : \A y \in begins : x >= y
      <4>1. \A y \in begins : e - 1 >= y
        BY <1>2, <1>4
      <4> QED BY <1>4, <4>1
    <3> HIDE DEF begins
    <3> QED BY <3>1, Zenon DEF Max
  <2> HIDE DEF begins
  <2> QED BY <1>2, <1>4, <2>1
<1>6. ArgKey(p, a) = SubSeq(p, e - 1, e - 1)
  BY <1>5 DEF ArgKey, f, e
<1>7. e - 1 \in Int
  BY <1>2
<1>8. SubSeq(p, e - 1, e - 1) = <<p[e - 1]>>
  BY <1>7, OneToken
<1> QED BY <1>6, <1>8 DEF e

LEMMA ValueOfPair ==
  ASSUME NEW S, NEW p \in Seq(S), NEW q \in Int, PairList(p, q), NEW a \in ArgPairs(p)
  PROVE  ArgVal(p, a) = <<p[a.equals + 1]>>
<1>0. DOMAIN p = 1..Len(p) /\ Len(p) \in Nat
  BY DomainIs
<1> DEFINE e == a.equals
           ends == {Len(p) + 1} \cup {i \in (e + 1)..Len(p) : p[i] \in Delimiters}
<1>1. e \in 1..Len(p) /\ p[e] = "="
  BY OnlyEquals
<1> HIDE DEF e
<1>2. e \in (q + 2)..(Len(p) - 1) /\ Word(p[e + 1]) /\ Followed(p, e)
  BY <1>0, <1>1, AroundEquals
<1>3. e + 2 \in ends
  <2>1. CASE e + 1 = Len(p)
    BY <1>0, <1>1, <2>1
  <2>2. CASE e + 1 # Len(p)
    <3>1. e + 4 <= Len(p) /\ p[e + 2] = "&"
      BY <1>2, <2>2 DEF Followed
    <3>2. e + 2 \in (e + 1)..Len(p)
      BY <1>0, <1>1, <3>1
    <3> QED BY <3>1, <3>2 DEF Delimiters
  <2> QED BY <2>1, <2>2
<1>4. \A y \in ends : e + 2 <= y /\ y \in Int
  <2>1. ASSUME NEW i \in (e + 1)..Len(p), p[i] \in Delimiters PROVE e + 2 <= i /\ i \in Int
    <3>1. i # e + 1
      BY <1>2, <2>1 DEF Word
    <3> QED BY <1>0, <1>1, <3>1
  <2>2. e + 2 <= Len(p) + 1 /\ Len(p) + 1 \in Int
    BY <1>0, <1>2, <1>1
  <2> QED BY <2>1, <2>2
<1>5. Min(ends) = e + 2
  <2>1. Min(ends) \in ends /\ \A y \in ends : Min(ends) <= y
    <3>1. \E x \in ends : \A y \in ends : x <= y
      BY <1>3, <1>4
    <3> HIDE DEF ends
    <3> QED BY <3>1, Zenon DEF Min
  <2> HIDE DEF ends
  <2> QED BY <1>1, <1>3, <1>4, <2>1
<1>6. ArgVal(p, a) = SubSeq(p, e + 1, (e + 2) - 1)
  BY <1>5 DEF ArgVal, e
<1>7. e + 1 \in Int /\ (e + 2) - 1 = e + 1
  BY <1>1
<1>8. SubSeq(p, e + 1, e + 1) = <<p[e + 1]>>
  BY <1>7, OneToken
<1> QED BY <1>6, <1>7, <1>8 DEF e

(* parseArgs takes every pair of the list, and of those with one key the    *)
(* last.                                                                    *)
LEMMA ArgsOfList ==
  ASSUME NEW S, NEW p \in Seq(S), NEW q \in Int, PairList(p, q)
  PROVE  LET pairs == {i \in DOMAIN p : p[i] = "="}
         IN  /\ DOMAIN parseArgs(p) = {<<p[i - 1]>> : i \in pairs}
             /\ \A i \in pairs :
                  \/ parseArgs(p)[<<p[i - 1]>>] = <<p[i + 1]>>
                  \/ \E x \in pairs : x > i /\ p[x - 1] = p[i - 1]
<1> DEFINE pairs == {i \in DOMAIN p : p[i] = "="}
           At(i) == [from |-> From(q, i), equals |-> i]
<1>0. DOMAIN p = 1..Len(p) /\ Len(p) \in Nat
  BY DomainIs
<1>1. ASSUME NEW a \in ArgPairs(p)
      PROVE  /\ a.equals \in pairs /\ ArgKey(p, a) = <<p[a.equals - 1]>>
             /\ ArgVal(p, a) = <<p[a.equals + 1]>>
  BY <1>0, OnlyEquals, KeyOfPair, ValueOfPair
<1>2. ASSUME NEW i \in pairs PROVE At(i) \in ArgPairs(p) /\ At(i).equals = i
  BY <1>0, EveryEquals
<1>3. \A i \in pairs : i \in Int
  BY <1>0
<1> HIDE DEF pairs, At
<1>4. {ArgKey(p, a) : a \in ArgPairs(p)} = {<<p[i - 1]>> : i \in pairs}
  <2>1. ASSUME NEW a \in ArgPairs(p) PROVE ArgKey(p, a) \in {<<p[i - 1]>> : i \in pairs}
    BY <1>1
  <2>2. ASSUME NEW i \in pairs PROVE <<p[i - 1]>> \in {ArgKey(p, a) : a \in ArgPairs(p)}
    <3>1. ArgKey(p, At(i)) = <<p[i - 1]>> /\ At(i) \in ArgPairs(p)
      BY <1>1, <1>2
    <3> QED BY <3>1
  <2> QED BY <2>1, <2>2
<1>5. DOMAIN parseArgs(p) = {<<p[i - 1]>> : i \in pairs}
  BY <1>4 DEF parseArgs
<1>6. ASSUME NEW i \in pairs, ~ \E x \in pairs : x > i /\ p[x - 1] = p[i - 1]
      PROVE  parseArgs(p)[<<p[i - 1]>>] = <<p[i + 1]>>
  <2> DEFINE key == <<p[i - 1]>>
             W == ArgsWith(p, key)
  <2>1. At(i) \in W
    BY <1>1, <1>2 DEF ArgsWith
  <2>2. ASSUME NEW b \in W PROVE b \in ArgPairs(p) /\ b.equals \in pairs /\ b.equals <= i
    <3>1. b \in ArgPairs(p) /\ ArgKey(p, b) = key
      BY DEF ArgsWith
    <3>2. b.equals \in pairs /\ <<p[b.equals - 1]>> = <<p[i - 1]>>
      BY <1>1, <3>1
    <3>3. p[b.equals - 1] = p[i - 1]
      BY <3>2
    <3>4. ~ (b.equals > i)
      BY <1>6, <3>2, <3>3
    <3> QED BY <1>3, <3>1, <3>2, <3>4
  <2>3. LastAssigned(W) \in W /\ \A b \in W : b.equals <= LastAssigned(W).equals
    <3>1. \E x \in W : \A b \in W : b.equals <= x.equals
      BY <1>2, <2>1, <2>2
    <3> HIDE DEF W
    <3> QED BY <3>1, Zenon DEF LastAssigned
  <2> HIDE DEF W
  <2>4. i <= LastAssigned(W).equals
    BY <1>2, <2>1, <2>3
  <2>5. LastAssigned(W).equals = i
    BY <1>3, <2>2, <2>3, <2>4
  <2>6. ArgVal(p, LastAssigned(W)) = <<p[i + 1]>>
    BY <1>1, <2>2, <2>3, <2>5
  <2>7. key \in {ArgKey(p, a) : a \in ArgPairs(p)}
    BY <1>4
  <2> QED BY <2>6, <2>7 DEF parseArgs, W
<1> QED BY <1>5, <1>6 DEF pairs

(* What is accepted has the arguments of its path.                          *)
ArgsInv == Accepted => request.args = parseArgs(request.path)

LEMMA ArgsStep == Fields /\ ArgsInv /\ [Next]_vars => ArgsInv'
<1> SUFFICES ASSUME Fields, ArgsInv, [Next]_vars PROVE ArgsInv'
  OBVIOUS
<1>1. CASE ChangeFile \/ External \/ ReadStep \/ handleRequest \/ WriteStep \/ UNCHANGED vars
  <2>1. UNCHANGED <<request, parsing>>
    BY <1>1 DEF ChangeFile, External, ReadStep, handleRequest, WriteStep, httpVars, vars
  <2> QED BY <2>1 DEF ArgsInv, Accepted
<1>2. CASE BeginParse
  BY <1>2 DEF BeginParse, parseRequest, ParseFrom, ArgsInv, Accepted
<1>3. CASE Parse
  <2>1. CASE ParseStep /\ UNCHANGED httpVars
    BY <2>1 DEF httpVars, ArgsInv, Accepted
  <2>2. CASE TakeLine
    <3>1. CASE parsing' = "accepted"
      <4>1. request' = [request EXCEPT
                         !.raw_body = request'.raw_body, !.args = parseArgs(request.path)]
        BY <2>2, <3>1 DEF TakeLine, ParseFrom
      <4>2. {"args", "path"} \subseteq DOMAIN request
        BY DEF Fields, NewRequest
      <4>3. request'.args = parseArgs(request.path) /\ request'.path = request.path
        BY <4>1, <4>2
      <4> QED BY <4>3 DEF ArgsInv
    <3> QED BY <3>1 DEF ArgsInv, Accepted
  <2>3. CASE \E piece \in DOMAIN Following : dispatchHTTP(piece)
    <3>1. PICK piece \in DOMAIN Following : parsing' = Following[piece]
      BY <2>3 DEF dispatchHTTP, ParseFrom
    <3>2. parsing' \in {"path", "protocol", "line"}
      BY <3>1 DEF Following
    <3> QED BY <3>2 DEF ArgsInv, Accepted
  <2>4. CASE TakeHeader \/ Reject
    BY <2>4 DEF TakeHeader, Reject, ParseFrom, ArgsInv, Accepted
  <2>5. CASE handleMethod
    <3>1. parsing' \in {"form", "find"}
      BY <2>5 DEF handleMethod, ParseForm, BeginParts, IgnoreBody, NoMorePart, TakePart
    <3> QED BY <3>1 DEF ArgsInv, Accepted
  <2>6. CASE findHandler \/ defaultFileFounder
    <3>1. parsing' \in {"open", "done"}
      BY <2>6 DEF findHandler, CallHandler, defaultPage, Stat, defaultFileFounder
    <3> QED BY <3>1 DEF ArgsInv, Accepted
  <2> QED BY <1>3, <2>1, <2>2, <2>3, <2>4, <2>5, <2>6 DEF Parse, HTTPStep
<1> QED BY <1>1, <1>2, <1>3 DEF Next, CoroutineStep

(* A path whose only "?" is followed by a list of pairs, without "=" before *)
(* it, gives the arguments the documentation says, for every such path and  *)
(* length of the list (HTTPUnit.hpp 25-41, HTTPUnit.cpp 194-205).           *)
THEOREM ArgumentsAreAsDocumented == Spec => []ArgsAsDocumented
<1>1. Init => ArgsInv /\ Fields
  BY DEF Init, HTTPInit, ArgsInv, Accepted, Fields
<1>2. Reading /\ ParsedAsWritten /\ ArgsInv => ArgsAsDocumented
  <2> SUFFICES ASSUME Reading, ParsedAsWritten, ArgsInv, Accepted PROVE ArgsAsDocumented
    BY DEF ArgsAsDocumented
  <2> DEFINE p == request.path
             marks == {i \in DOMAIN p : p[i] = "?"}
             pairs == {i \in DOMAIN p : p[i] = "="}
             words == {i \in DOMAIN p : p[i] \notin {"?", "="} \cup Delimiters}
             IsList(q) == /\ (Len(p) - q) % 4 = 3
                          /\ \A i \in pairs : i > q
                          /\ \A i \in (q + 1)..Len(p) :
                               CASE (i - q) % 2 = 1 -> i \in words
                                 [] (i - q) % 4 = 2 -> i \in pairs
                                 [] OTHER -> p[i] = "&"
  <2>1. request.args = parseArgs(p)
    BY DEF ArgsInv
  <2>2. p \in Seq(Char)
    <3>1. PICK r \in Readings(result) : p = SubSeq(result, r.i + 1, r.j - 1)
      BY DEF ParsedAsWritten
    <3>2. r.i \in 1..Len(result) /\ r.j \in 1..Len(result)
      BY DEF Readings
    <3>3. result \in Seq(Char) /\ Len(result) \in Nat
      BY DEF Reading
    <3> HIDE DEF p
    <3>4. r.i + 1 \in Int /\ r.j - 1 \in Int /\ \A x \in (r.i + 1)..(r.j - 1) : x \in 1..Len(result)
      BY <3>2, <3>3
    <3>5. \A x \in (r.i + 1)..(r.j - 1) : result[x] \in Char
      BY <3>3, <3>4
    <3> QED BY <3>1, <3>4, <3>5, SubSeqProperties
  <2>3. ASSUME NEW q \in marks, marks = {q}, IsList(q)
        PROVE  /\ DOMAIN parseArgs(p) = {<<p[i - 1]>> : i \in pairs}
               /\ \A i \in pairs :
                    \/ parseArgs(p)[<<p[i - 1]>>] = <<p[i + 1]>>
                    \/ \E x \in pairs : x > i /\ p[x - 1] = p[i - 1]
    <3> HIDE DEF p
    <3>1. DOMAIN p = 1..Len(p) /\ Len(p) \in Nat
      BY <2>2, DomainIs
    <3>2. q \in 1..Len(p) /\ q \in Int /\ p[q] = "?"
      BY <3>1
    <3>3. \A i \in 1..Len(p) : (p[i] = "?" => i = q) /\ (p[i] = "=" => i > q)
      BY <2>3, <3>1
    <3>4. ASSUME NEW i \in (q + 1)..Len(p)
          PROVE  /\ (i - q) % 2 = 1 => Word(p[i])
                 /\ (i - q) % 4 = 2 => p[i] = "="
                 /\ (i - q) % 4 = 0 => p[i] = "&"
      <4> DEFINE d == i - q
      <4>1. (CASE d % 2 = 1 -> i \in words
               [] d % 4 = 2 -> i \in pairs
               [] OTHER -> p[i] = "&")
        BY <2>3
      <4>2. d \in Nat
        BY <3>1, <3>2
      <4>3. (i \in words => Word(p[i])) /\ (i \in pairs => p[i] = "=")
        BY DEF Word
      <4> HIDE DEF d, words, pairs
      <4>4. (d % 4 = 2 => d % 2 # 1) /\ (d % 4 = 0 => d % 2 # 1 /\ d % 4 # 2)
        BY <4>2
      <4> QED BY <4>1, <4>3, <4>4 DEF d
    <3>5. PairList(p, q)
      BY <2>3, <3>2, <3>3, <3>4 DEF PairList
    <3> QED BY <2>2, <3>2, <3>5, ArgsOfList
  <2> QED BY <2>1, <2>3 DEF ArgsAsDocumented
<1> QED BY <1>1, <1>2, ArgsStep, FieldsStep, ReadingAlways, RequestsAreParsedAsWritten,
           PTL DEF Spec
===============================================================================
