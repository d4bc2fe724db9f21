------------------------------- MODULE HTTPUnit -------------------------------
(****************************************************************************)
(* src/src/HTTPUnit.cpp and HTTPResponse.cpp: parseRequest takes the text   *)
(* of a request apart in place, writing terminators over the separators     *)
(* incrementParse finds, and looks for somebody who answers it.             *)
(*                                                                          *)
(* Text is a sequence of tokens: the characters that separate something,    *)
(* and words, which stand for runs of other characters.  The first token of *)
(* a path is one character.  A view (a string_view, or a char * kept) is    *)
(* the pair of the indices of its first and last token in raw_request.      *)
(****************************************************************************)
EXTENDS IncrementParse, FiniteSets, SequencesExt

CONSTANTS
  Bound,        \* the URLs bindUrl was called with
  Bodies,       \* the lengths of the bodies their handlers answer with
  Names,        \* names files may have, relative to the resource directory
  Sizes         \* sizes they may have

Absent == -1

ASSUME HTTPAssumption ==
  /\ Bodies \subseteq Nat /\ Sizes \subseteq Nat
  /\ Names \subseteq Seq(Char) /\ <<>> \notin Names

VARIABLES
  raw_request,  \* the text of the request, modified in place
  c_str,        \* where the part not yet parsed begins
  next_line,    \* where the line after the one being parsed begins
  request,      \* the HTTPRequest
  response,     \* the HTTPResponse
  form,         \* handleMethod's view of the parts not yet found
  named,        \* the file name in the path, as stat and open read it
  files,        \* external: the size of each file, or Absent
  parsing       \* where parseRequest is

httpVars == <<raw_request, c_str, next_line, request, response, form, named,
              files, parsing>>

ViewText(v) == SubSeq(raw_request, v[1], v[2])

NoView == <<1, 0>>

NewRequest ==
  [method |-> <<>>, path |-> <<>>, protocol |-> <<>>, headers |-> <<>>,
   args |-> <<>>, body_args |-> <<>>, parts |-> <<>>, raw_body |-> NoView]

(* HTTPResponseText with its defaults. *)
NewText ==
  [status |-> "200 OK", type |-> "text", length |-> 0, body |-> 0,
   mime |-> "text/plain", file |-> <<>>]

notFoundHandler ==
  [NewText EXCEPT !.status = "404 Not Found", !.body = 3, !.length = 3]

HTTPInit ==
  /\ raw_request = <<>> /\ c_str = 1 /\ next_line = 1
  /\ request = NewRequest /\ response = NewText
  /\ form = [length |-> 0, dangling |-> FALSE]
  /\ named = <<>>
  /\ files \in [Names -> Sizes \cup {Absent}]
  /\ parsing = "idle"

-------------------------------------------------------------------------------
(* parseArgs *)

Delimiters == {"&", "\r", "\n"}

(* Where a search begins: with the text, or after the delimiter that ended  *)
(* the value before, which is the first one after some "=".                 *)
SearchesFrom(t) ==
  {1} \cup {d + 1 : d \in
    {i \in DOMAIN t :
       /\ t[i] \in Delimiters
       /\ \E e \in 1..(i - 1) :
            t[e] = "=" /\ \A j \in (e + 1)..(i - 1) : t[j] \notin Delimiters}}

(* The matches of regex_search: each takes the first "=" it comes to. *)
ArgPairs(t) ==
  {a \in [from : SearchesFrom(t), equals : DOMAIN t] :
     /\ a.from <= a.equals /\ t[a.equals] = "="
     /\ \A i \in a.from..(a.equals - 1) : t[i] # "="}

(* A key is what precedes "=", back to the last "?" or to where the search  *)
(* began, and its value ends at "&", at a line break or with the text.      *)
ArgKey(t, a) ==
  LET begins == {a.from} \cup {i \in (a.from + 1)..a.equals : t[i - 1] = "?"}
  IN  SubSeq(t, Max(begins), a.equals - 1)

ArgVal(t, a) ==
  LET ends == {Len(t) + 1} \cup
                {i \in (a.equals + 1)..Len(t) : t[i] \in Delimiters}
  IN  SubSeq(t, a.equals + 1, Min(ends) - 1)

ArgsWith(t, key) == {a \in ArgPairs(t) : ArgKey(t, a) = key}

(* Mutant: the pairs are inserted, and the first with a key stays. *)
FirstAssigned(pairs) ==
  CHOOSE a \in pairs : \A b \in pairs : a.equals <= b.equals

(* A later pair replaces an earlier one with the same key. *)
LastAssigned(pairs) ==
  CHOOSE a \in pairs : \A b \in pairs : b.equals <= a.equals

parseArgs(t) ==
  [key \in {ArgKey(t, a) : a \in ArgPairs(t)} |->
     ArgVal(t, LastAssigned(ArgsWith(t, key)))]

-------------------------------------------------------------------------------
(* dispatchHTTP and dispatchHeader: parsing names the piece that ends at    *)
(* the next separator.                                                      *)

Following == [method |-> "path", path |-> "protocol", protocol |-> "line"]

Separator(piece) ==
  CASE piece \in {"method", "path"} -> <<" ">>
    [] piece \in {"protocol", "line"} -> <<"\n">>
    [] piece = "key" -> <<":", " ">>

Pieces == {"method", "path", "protocol", "line", "key"}

(* incrementParse is called for the next piece of t, from index i on. *)
ParseFrom(t, i, piece) ==
  /\ parsing' = piece
  /\ Call(CString(t, i), Separator(piece))

Found == at = "returned" /\ ret # -1

Terminated(i) == [raw_request EXCEPT ![i] = NUL]

parseRequest(text) ==
  /\ parsing = "idle"
  /\ raw_request' = text /\ c_str' = 1
  /\ ParseFrom(text, 1, "method")
  /\ UNCHANGED <<next_line, request, response, form, named, files>>

dispatchHTTP(piece) ==
  /\ parsing = piece /\ Found
  /\ LET end == c_str + ret
     IN  /\ raw_request' = Terminated(end)
         /\ request' = [request EXCEPT ![piece] = SubSeq(raw_request, c_str, end - 1)]
         /\ c_str' = end + 1
         /\ ParseFrom(Terminated(end), end + 1, Following[piece])
  /\ UNCHANGED <<next_line, response, form, named, files>>

(* Mutant: an empty line ends the header too. *)
EndsHeaderEmpty(line) == line \in {<<>>, <<"\r">>}

EndsHeader(line) == line = <<"\r">>

(* A line of the header has been found: either it is the last, and the body *)
(* and the path's arguments are taken, or it is split.                      *)
TakeLine ==
  /\ parsing = "line" /\ Found
  /\ LET end == c_str + ret
     IN  /\ raw_request' = Terminated(end)
         /\ IF EndsHeader(SubSeq(raw_request, c_str, end - 1))
              THEN /\ c_str' = end + 1
                   /\ request' = [request EXCEPT
                        !.raw_body = <<end + 1, TextEnd(raw_request, end + 1) - 1>>,
                        !.args = parseArgs(request.path)]
                   /\ parsing' = "accepted"
                   /\ UNCHANGED <<parseVars, next_line>>
              ELSE /\ next_line' = end + 1
                   /\ ParseFrom(Terminated(end), c_str, "key")
                   /\ UNCHANGED <<c_str, request>>
  /\ UNCHANGED <<response, form, named, files>>

(* map::insert: the first header with a key stays. *)
Inserted(headers, key, val) ==
  IF \E h \in ToSet(headers) : ViewText(h.key) = ViewText(key) THEN headers
  ELSE Append(headers, [key |-> key, val |-> val])

TakeHeader ==
  /\ parsing = "key" /\ Found
  /\ LET end == c_str + ret
     IN  /\ raw_request' = Terminated(end)
         /\ request' = [request EXCEPT !.headers =
                          Inserted(@, <<c_str, end - 1>>, <<end + 2, next_line - 2>>)]
         /\ c_str' = next_line
         /\ ParseFrom(Terminated(end), next_line, "line")
  /\ UNCHANGED <<next_line, response, form, named, files>>

(* "header has incorrect format": runtime_error, caught in parseRequest. *)
Reject ==
  /\ parsing \in Pieces /\ at = "returned" /\ ret = -1
  /\ response' = notFoundHandler
  /\ parsing' = "done"
  /\ UNCHANGED <<parseVars, raw_request, c_str, next_line, request, form, named,
                 files>>

-------------------------------------------------------------------------------
(* handleMethod *)

(* The Content-Type headers: one at most; at() throws if there is none,     *)
(* which is caught.                                                         *)
ContentTypes ==
  {ViewText(h.val) : h \in {g \in ToSet(request.headers) :
                              ViewText(g.key) = <<"Content-Type">>}}

ContentIs(type) ==
  /\ request.method = <<"POST">>
  /\ \E ct \in ContentTypes : ct # <<>> /\ Head(ct) = type

Form == "application/x-www-form-urlencoded"
FormData == "multipart/form-data"

(* boundary="?(.+?)"?[;|$|\n|\r] *)
Boundaries ==
  UNION {LET from == {i \in DOMAIN ct : ct[i] = "boundary="}
             ends(i) == {j \in (i + 2)..Len(ct) : ct[j] \in {";", "\r"}}
         IN  {SubSeq(ct, i + 1, Min(ends(i)) - 1) : i \in {k \in from : ends(k) # {}}}
         : ct \in ContentTypes}

ParseForm ==
  /\ parsing = "accepted" /\ ContentIs(Form)
  /\ request' = [request EXCEPT !.body_args = parseArgs(ViewText(request.raw_body))]
  /\ parsing' = "find"
  /\ UNCHANGED form

BeginParts ==
  /\ parsing = "accepted" /\ ContentIs(FormData) /\ Boundaries # {}
  /\ form' = [length |-> Len(ViewText(request.raw_body)), dangling |-> FALSE]
  /\ parsing' = "form"
  /\ UNCHANGED request

IgnoreBody ==
  /\ parsing = "accepted" /\ ~ ContentIs(Form)
  /\ ContentIs(FormData) => Boundaries = {}
  /\ parsing' = "find"
  /\ UNCHANGED <<request, form>>

Breaks == {"\n", "\r"}

(* Content-Disposition: (.+?)[\n|\r]{2}([\s\S]+?)--boundary, searched in t: *)
(* the second group and the end of the leftmost match.                      *)
PartsAt(t, b) ==
  {m \in [p : 1..Len(t), from : 1..Len(t), to : 1..Len(t), end : 1..Len(t)] :
     /\ t[m.p] = "Content-Disposition: "
     /\ m.from - m.p > 3
     /\ \A i \in (m.p + 1)..(m.from - 3) : t[i] \notin Breaks
     /\ {t[m.from - 2], t[m.from - 1]} \subseteq Breaks
     /\ m.to >= m.from /\ m.end = m.to + 1 + Len(b)
     /\ SubSeq(t, m.to + 1, m.end) = <<"--">> \o b
     /\ \A i \in (m.from + 1)..m.to : SubSeq(t, i, i + Len(b)) # <<"--">> \o b}

FirstPart(t, b) ==
  {m \in PartsAt(t, b) : \A n \in PartsAt(t, b) : m.p <= n.p}

(* What regex_search may find in form.  The first time form views raw_body. *)
(* Then it views a string that has been destroyed: anything of the shape of *)
(* a part that fits into its length, or nothing.                            *)
MatchesInForm ==
  UNION {IF form.dangling
           THEN {[from |-> i, to |-> j, end |-> j + 1 + Len(b)] :
                   i, j \in 5..(form.length - 1 - Len(b))}
           ELSE {[from |-> m.from, to |-> m.to, end |-> m.end] :
                   m \in FirstPart(ViewText(request.raw_body), b)}
         : b \in Boundaries}

(* Mutant: positions in form are taken for positions in raw_request. *)
ContentInRequest(m) == <<m.from, m.to>>

(* GET_SV_MATCH: positions in form are taken for positions in raw_body. *)
Content(m) ==
  <<request.raw_body[1] + m.from - 1, request.raw_body[1] + m.to - 1>>

TakePart(m) ==
  /\ m.from <= m.to
  /\ request' = [request EXCEPT !.parts = Append(@, Content(m))]
  /\ form' = [length |-> form.length - m.end, dangling |-> TRUE]
  /\ UNCHANGED parsing

NoMorePart ==
  /\ form.dangling \/ MatchesInForm = {}
  /\ parsing' = "find"
  /\ UNCHANGED <<request, form>>

handleMethod ==
  /\ \/ ParseForm \/ BeginParts \/ IgnoreBody
     \/ /\ parsing = "form"
        /\ NoMorePart \/ \E m \in MatchesInForm : TakePart(m)
  /\ UNCHANGED <<parseVars, raw_request, c_str, next_line, response, named, files>>

-------------------------------------------------------------------------------
(* Who answers *)

(* The constructor binds "/"; bindUrl inserts, so nothing replaces that. *)
url_map_ ==
  [u \in Bound \cup {<<"/">>} |->
     IF u = <<"/">> THEN "defaultPage" ELSE "handler"]

(* The name at path.data() + 1: for an empty path, whatever follows the     *)
(* terminator.                                                              *)
NamesIn(path) ==
  IF path = <<>> THEN Names \cup {<<>>} ELSE {Tail(path)}

(* Mutant: an empty file counts as none. *)
ExistsIfLong(name) == name \in Names /\ files[name] > 0

Exists(name) == name \in Names /\ files[name] # Absent

Unbound == request.path \notin DOMAIN url_map_

(* A handler of the application: a text whose length it states. *)
CallHandler ==
  /\ ~ Unbound /\ url_map_[request.path] = "handler"
  /\ \E n \in Bodies : response' = [NewText EXCEPT !.body = n, !.length = n]
  /\ parsing' = "done"
  /\ UNCHANGED <<request, named>>

defaultPage ==
  /\ ~ Unbound /\ url_map_[request.path] = "defaultPage"
  /\ request' = [request EXCEPT !.path = @ \o <<"index", ".", "html">>]
  /\ named' = <<"index", ".", "html">>
  /\ parsing' = "open"
  /\ UNCHANGED response

Stat ==
  /\ Unbound
  /\ \E name \in NamesIn(request.path) :
       /\ named' = name
       /\ IF Exists(name)
            THEN parsing' = "open" /\ UNCHANGED response
            ELSE parsing' = "done" /\ response' = notFoundHandler
  /\ UNCHANGED request

findHandler ==
  /\ parsing = "find"
  /\ CallHandler \/ defaultPage \/ Stat
  /\ UNCHANGED <<parseVars, raw_request, c_str, next_line, form, files>>

(* From the last dot on, unless the name begins with it. *)
getFileExt(path) ==
  LET dots == {i \in 2..Len(path) : path[i] = "."}
  IN  IF dots = {} THEN <<>> ELSE SubSeq(path, Max(dots), Len(path))

(* A row of the table; the others differ in their values. *)
g_mime_type_map == [ext \in {<<".", "html">>} |-> "text/html"]

MimeType(path) ==
  LET ext == getFileExt(path)
  IN  IF ext \in DOMAIN g_mime_type_map THEN g_mime_type_map[ext] ELSE "none"

(* The file that stat found may be gone. *)
defaultFileFounder ==
  /\ parsing = "open"
  /\ response' =
       IF Exists(named)
         THEN [NewText EXCEPT !.type = "file", !.file = named,
                              !.length = files[named],
                              !.mime = MimeType(request.path)]
         ELSE notFoundHandler
  /\ parsing' = "done"
  /\ UNCHANGED <<parseVars, raw_request, c_str, next_line, request, form, named,
                 files>>

HTTPStep ==
  \/ ParseStep /\ UNCHANGED httpVars
  \/ \E piece \in DOMAIN Following : dispatchHTTP(piece)
  \/ TakeLine \/ TakeHeader \/ Reject
  \/ handleMethod \/ findHandler \/ defaultFileFounder
===============================================================================
