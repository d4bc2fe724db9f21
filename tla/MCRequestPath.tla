---------------------------- MODULE MCRequestPath -----------------------------
(****************************************************************************)
(* RequestPath for TLC: requests of every kind the code treats differently, *)
(* and, for some of them, every text that differs in one token.  Before,    *)
(* parseArgs's loop is compared with HTTPUnit's closed form of it.          *)
(****************************************************************************)
EXTENDS RequestPath

(* The loop: search from an index, take the pair, go on behind it. *)
IteratedArgs(t) ==
  LET pairs[from \in 1..(Len(t) + 2)] ==
        LET equals == {e \in from..Len(t) : t[e] = "="}
        IN  IF equals = {} THEN <<>>
            ELSE LET e == Min(equals)
                     k == Max({from} \cup {q + 1 : q \in {i \in from..(e - 1) :
                                                            t[i] = "?"}})
                     stop == Min({Len(t) + 1} \cup
                               {i \in (e + 1)..Len(t) : t[i] \in Delimiters})
                 IN  << <<SubSeq(t, k, e - 1), SubSeq(t, e + 1, stop - 1)>> >>
                       \o pairs[stop + 1]
  IN  pairs[1]

(* The loop finds the pairs of ArgPairs, in the order of their "=".         *)
ASSUME ArgPairsIterate ==
  \A n \in 0..6 : \A t \in [1..n -> {"?", "=", "&", "k"}] :
    LET pairs == SetToSortSeq(ArgPairs(t), LAMBDA a, b : a.equals < b.equals)
    IN  IteratedArgs(t) =
          [i \in DOMAIN pairs |-> <<ArgKey(t, pairs[i]), ArgVal(t, pairs[i])>>]

Line(words) == words \o <<"\r", "\n">>

Get(path, headers) ==
  Line(<<"GET", " ">> \o path \o <<" ", "HTTP">>) \o headers \o Line(<<>>)

Post(path, type, body) ==
  Line(<<"POST", " ">> \o path \o <<" ", "HTTP">>)
    \o Line(<<"Content-Type", ":", " ">> \o type) \o Line(<<>>) \o body

Root == <<"/">>
Page == <<"/", "a", ".", "html">>
App == <<"/", "app">>

Query == <<"?", "k", "=", "v", "&", "w", "=", "x", "&", "k", "=", "w">>

Part == Line(<<"Content-Disposition: ", "n">>) \o <<"d", "--", "b">>

Plain == Get(Root, Line(<<"k", ":", " ", "v">>))

Whole ==
  {Get(Page, <<>>), Get(App, <<>>), Get(<<>>, <<>>), Get(Page \o Query, <<>>),
   Get(Root, Line(<<"k", ":", ":", " ", "v">>) \o Line(<<"k", ":", " ", "w">>)
               \o Line(<<"k", ":", " ", "x">>)),
   Post(App, <<Form>>, Tail(Query)),
   Post(App, <<FormData, "boundary=", "b">>, <<"--", "b">> \o Part \o Part),
   Post(App, <<FormData, "boundary=">>, Part),
   Post(App, <<"k">>, Part)}

(* One token of t left out, or one more. *)
Without(t) == {RemoveAt(t, i) : i \in DOMAIN t}

With(t, tokens) ==
  {SubSeq(t, 1, i) \o <<x>> \o SubSeq(t, i + 1, Len(t)) : i \in 0..Len(t), x \in tokens}

MCMessages ==
  {<<t, Len(t)>> : t \in Whole \cup {Plain} \cup Without(Plain)
                          \cup With(Plain, {" ", "\n"})}
    \cup {Plain, Get(Page, <<>>)} \X {3, 8}

MCChar ==
  {" ", "\n", "\r", ":", "?", "=", "&", ";", "/", ".", "--", "GET", "POST",
   "HTTP", "Content-Type", Form, FormData, "boundary=", "Content-Disposition: ",
   "index", "html", "app", "a", "b", "d", "k", "n", "v", "w", "x"}

MCSeparators == {<<" ">>, <<"\n">>, <<":", " ">>}

MCNames == {<<"index", ".", "html">>, <<"a", ".", "html">>}

MCBound == {App}
===============================================================================
