------------------------- MODULE IncrementParseProofs -------------------------
(****************************************************************************)
(* incrementParse finds the first match, whatever the string is, for every  *)
(* separator that is not ambiguous.                                         *)
(****************************************************************************)
EXTENDS IncrementParse, TLAPS

(* The arguments, the position in each and the result keep their types. *)
LEMMA ParseTypeInductive ==
  ParseTypeOK /\ [ParseStep \/ CallAny]_parseVars => ParseTypeOK'
<1> SUFFICES ASSUME ParseTypeOK, [ParseStep \/ CallAny]_parseVars
             PROVE  ParseTypeOK'
  OBVIOUS
<1> USE ParseAssumption DEF ParseTypeOK
<1>0. at = "loop" => Len(sep) \in Nat \ {0}
  OBVIOUS
<1>1. CASE Match
  <2>1. /\ start' \in Nat /\ sep_i' = sep_i + 1
        /\ sep_i' \in 0..Len(sep) /\ UNCHANGED <<str, sep>>
    BY <1>0, <1>1 DEF Match, Matches, InLoop, Advance
  <2>2. QED
    BY <1>1, <2>1 DEF Match, Matches, InLoop, Advance, Return
<1>2. CASE Restart
  <2>1. PICK k \in Nat : k = 1 /\ Advance(k, curr)
    BY <1>2 DEF Restart
  <2>2. PICK n \in Nat : n = Len(sep) /\ n # 0
    BY <1>0, <1>2 DEF Restart, InLoop
  <2>3. InLoop /\ curr \in Nat /\ Len(str) \in Nat
    BY <1>2 DEF Restart
  <2>4. sep_i' = k /\ start' = curr /\ UNCHANGED <<str, sep>>
    BY <2>1 DEF Advance
  <2>5. k \in 0..Len(sep)
    BY <2>1, <2>2
  <2>6. CASE k = n
    BY <2>1, <2>2, <2>3, <2>4, <2>5, <2>6 DEF InLoop, Advance, Return
  <2>7. CASE k # n
    <3>1. curr' = curr + 1 /\ UNCHANGED <<ret, at>>
      BY <2>1, <2>2, <2>7 DEF Advance
    <3>2. k < Len(sep)
      BY <2>1, <2>2, <2>7
    <3>3. QED
      BY <2>3, <2>4, <2>5, <3>1, <3>2 DEF InLoop
  <2>8. QED
    BY <2>6, <2>7
<1>3. CASE Mismatch
  BY <1>0, <1>3 DEF Mismatch, InLoop, Advance, Return
<1>4. CASE NotFound
  BY <1>4 DEF NotFound, Return
<1>5. CASE CallAny
  BY <1>5 DEF CallAny, Call
<1>6. CASE UNCHANGED parseVars
  BY <1>6 DEF parseVars
<1>7. QED
  BY <1>1, <1>2, <1>3, <1>4, <1>5, <1>6 DEF ParseStep

(* A string that does not contain sep's j-th character where a copy of sep  *)
(* beginning at p would have it does not contain sep there.                 *)
LEMMA NoOccurrence ==
  ASSUME NEW s, NEW t, NEW p \in Int, NEW j \in 1..Len(t), s[p + j] # t[j]
  PROVE  ~ OccursAt(s, t, p)
BY DEF OccursAt

(* When the k matched characters before position c are not continued by the *)
(* next one, no copy of sep begins among them, except where that character  *)
(* is.                                                                      *)
LEMMA NothingHidden ==
  ASSUME ParseTypeOK, MatchInProgress, InLoop, ~ Matches, Unambiguous(sep),
         NEW p \in 0..(curr - 1)
  PROVE  ~ OccursAt(str, sep, p)
<1> USE DEF ParseTypeOK, InLoop, MatchInProgress
<1>1. CASE p < curr - sep_i
  BY <1>1
<1>2. CASE p = curr - sep_i
  <2>1. str[p + (sep_i + 1)] # sep[sep_i + 1] /\ sep_i + 1 \in 1..Len(sep)
    BY <1>2, ParseAssumption DEF Matches, Char_i
  <2>2. QED
    BY <2>1, NoOccurrence
<1>3. CASE p > curr - sep_i
  <2> DEFINE d == p - (curr - sep_i)
  <2>1. d \in 1..(sep_i - 1) /\ sep_i \in 1..(Len(sep) - 1)
    BY <1>3
  <2>2. SUFFICES ASSUME OccursAt(str, sep, p)
                 PROVE  FALSE
    OBVIOUS
  <2>3. ASSUME NEW j \in 1..(sep_i - d)
        PROVE  sep[d + j] = sep[j]
    <3>1. d + j \in 1..sep_i /\ j \in 1..Len(sep)
      BY <2>1
    <3>2. str[curr - sep_i + (d + j)] = sep[d + j]
      BY <3>1
    <3>3. str[p + j] = sep[j]
      BY <2>2, <3>1 DEF OccursAt
    <3>4. p + j = curr - sep_i + (d + j)
      BY <2>1
    <3>5. QED
      BY <3>2, <3>3, <3>4
  <2>4. sep[sep_i - d + 1] = sep[sep_i + 1]
    <3> DEFINE k == sep_i
    <3>1. k \in 1..(Len(sep) - 1) /\ d \in 1..(Len(sep) - 1) /\ d < k
      BY <2>1
    <3>2. \A j \in 1..(k - d) : sep[d + j] = sep[j]
      BY <2>3
    <3> HIDE DEF d, k
    <3>3. QED
      BY <3>1, <3>2 DEF Unambiguous, k
  <2>5. str[p + (sep_i - d + 1)] = sep[sep_i - d + 1]
    <3>1. sep_i - d + 1 \in 1..Len(sep)
      BY <2>1
    <3>2. QED
      BY <2>2, <3>1 DEF OccursAt
  <2>6. p + (sep_i - d + 1) = curr + 1
    BY <2>1
  <2>7. QED
    BY <2>4, <2>5, <2>6 DEF Matches, Char_i
<1>4. QED
  BY <1>1, <1>2, <1>3

(* The two invariants together are inductive. *)
FindsInv == MatchInProgress /\ FindsFirst

LEMMA FindsInductive ==
  ParseTypeOK /\ FindsInv /\ [ParseStep \/ CallAny]_parseVars => FindsInv'
<1> SUFFICES ASSUME ParseTypeOK, MatchInProgress, FindsFirst,
                    [ParseStep \/ CallAny]_parseVars
             PROVE  FindsInv'
  BY DEF FindsInv
<1>1. CASE Match
  <2> USE <1>1 DEF Match, Matches, InLoop, ParseTypeOK, MatchInProgress, Char_i
  <2>1. SUFFICES ASSUME Unambiguous(sep)
                 PROVE  FindsInv'
    BY DEF FindsInv, FindsFirst, Advance
  <2> DEFINE from == curr - sep_i
  <2>2. from \in 0..curr /\ start' = from /\ sep_i' = sep_i + 1
    BY <2>1 DEF Advance
  <2>3. \A j \in 1..(sep_i + 1) : str[from + j] = sep[j]
    BY <2>1
  <2>4. \A p \in 0..(from - 1) : ~ OccursAt(str, sep, p)
    BY <2>1
  <2>5. CASE sep_i + 1 = Len(sep)
    <3>1. OccursAt(str, sep, from)
      BY <2>2, <2>3, <2>5 DEF OccursAt
    <3>2. IsFirstMatch(from, str, sep)
      BY <2>2, <2>4, <3>1 DEF IsFirstMatch
    <3>3. at' = "returned" /\ ret' = from /\ UNCHANGED <<str, sep>>
      BY <2>2, <2>5 DEF Advance, Return
    <3>4. QED
      BY <3>2, <3>3 DEF FindsInv, FindsFirst
  <2>6. CASE sep_i + 1 # Len(sep)
    <3>1. curr' = curr + 1 /\ at' = "loop" /\ UNCHANGED <<str, sep>>
      BY <2>6 DEF Advance
    <3>2. QED
      BY <2>1, <2>2, <2>3, <2>4, <2>6, <3>1 DEF FindsInv, FindsFirst
  <2>7. QED
    BY <2>5, <2>6
<1>2. CASE Restart
  <2>1. SUFFICES ASSUME Unambiguous(sep)
                 PROVE  FindsInv'
    BY <1>2 DEF Restart, FindsInv, FindsFirst, MatchInProgress, Advance
  <2>2. /\ Advance(1, curr) /\ InLoop /\ ~ Matches
        /\ str[curr + 1] = sep[1]
    BY <1>2 DEF Restart, Restarts, Char_i
  <2>3. \A p \in 0..(curr - 1) : ~ OccursAt(str, sep, p)
    BY <2>1, <2>2, NothingHidden
  <2>4. Len(sep) > 1 /\ Len(sep) \in Nat /\ curr \in Nat
    BY <2>1, <2>2, ParseAssumption
       DEF Matches, Char_i, InLoop, MatchInProgress, ParseTypeOK
  <2>5. /\ curr' = curr + 1 /\ at' = "loop" /\ UNCHANGED <<str, sep>>
        /\ sep_i' = 1 /\ start' = curr
    <3>1. PICK k \in Nat : k = 1 /\ Advance(k, curr)
      BY <2>2
    <3>2. PICK n \in Nat : n = Len(sep) /\ n > 1
      BY <2>4
    <3>3. k # n
      BY <3>1, <3>2
    <3>4. QED
      BY <2>2, <3>1, <3>2, <3>3 DEF Advance, InLoop
  <2>6. QED
    BY <2>2, <2>3, <2>4, <2>5 DEF FindsInv, FindsFirst, MatchInProgress
<1>3. CASE Mismatch
  <2> USE <1>3 DEF Mismatch, InLoop, ParseTypeOK
  <2>1. SUFFICES ASSUME Unambiguous(sep)
                 PROVE  FindsInv'
    BY DEF FindsInv, FindsFirst, MatchInProgress, Advance
  <2>2. Len(sep) \in Nat \ {0}
    BY ParseAssumption
  <2>3. \A p \in 0..curr : ~ OccursAt(str, sep, p)
    <3>1. \A p \in 0..(curr - 1) : ~ OccursAt(str, sep, p)
      BY <2>1, NothingHidden
    <3>2. ~ OccursAt(str, sep, curr)
      BY <2>2, NoOccurrence DEF Restarts, Char_i
    <3>3. QED
      BY <3>1, <3>2
  <2>4. /\ curr' = curr + 1 /\ at' = "loop" /\ UNCHANGED <<str, sep>>
        /\ sep_i' = 0
    BY <2>2 DEF Advance
  <2>5. QED
    BY <2>2, <2>3, <2>4 DEF FindsInv, FindsFirst, MatchInProgress
<1>4. CASE NotFound
  <2> USE <1>4 DEF NotFound, ParseTypeOK
  <2>1. SUFFICES ASSUME Unambiguous(sep)
                 PROVE  FindsInv'
    BY DEF FindsInv, FindsFirst, MatchInProgress, Return
  <2>2. Len(sep) \in Nat \ {0}
    BY ParseAssumption
  <2>3. ASSUME NEW p \in 0..Len(str)
        PROVE  ~ OccursAt(str, sep, p)
    <3>1. CASE p < curr - sep_i
      BY <2>1, <3>1 DEF MatchInProgress
    <3>2. CASE p >= curr - sep_i
      BY <2>1, <2>2, <3>2 DEF MatchInProgress, OccursAt
    <3>3. QED
      BY <3>1, <3>2
  <2>4. IsFirstMatch(-1, str, sep)
    BY <2>3 DEF IsFirstMatch
  <2>5. QED
    BY <2>4 DEF FindsInv, FindsFirst, MatchInProgress, Return
<1>5. CASE CallAny
  <2>1. PICK s \in Seq(Char), q \in Separators : Call(s, q)
    BY <1>5 DEF CallAny
  <2>2. Len(q) \in Nat \ {0}
    BY ParseAssumption
  <2>3. QED
    BY <2>1, <2>2 DEF Call, FindsInv, FindsFirst, MatchInProgress
<1>6. CASE UNCHANGED parseVars
  BY <1>6 DEF parseVars, FindsInv, FindsFirst, MatchInProgress
<1>7. QED
  BY <1>1, <1>2, <1>3, <1>4, <1>5, <1>6 DEF ParseStep

(* incrementParse returns the first match of every unambiguous separator in *)
(* every string, or -1 when there is none.                                  *)
THEOREM ParseFindsFirst == ParseSpec => []FindsFirst
<1>1. Idle => ParseTypeOK /\ FindsInv
  BY DEF Idle, ParseTypeOK, FindsInv, MatchInProgress, FindsFirst
<1>2. ParseTypeOK /\ FindsInv /\ [ParseStep \/ CallAny]_parseVars
        => (ParseTypeOK /\ FindsInv)'
  BY ParseTypeInductive, FindsInductive
<1>3. FindsInv => FindsFirst
  BY DEF FindsInv
<1>4. QED
  BY <1>1, <1>2, <1>3, PTL DEF ParseSpec

(* " ", "\n", "?" and ": ", the separators of HTTPUnit.cpp, are unambiguous:*)
(* so is every separator whose first character does not occur in it again.  *)
THEOREM FirstCharOnce ==
  ASSUME NEW s \in Seq(Char), \A j \in 2..Len(s) : s[j] # s[1]
  PROVE  Unambiguous(s)
<1> SUFFICES ASSUME NEW k \in 1..(Len(s) - 1), NEW d \in 1..(Len(s) - 1), d < k,
                    \A j \in 1..(k - d) : s[d + j] = s[j]
             PROVE  FALSE
  BY DEF Unambiguous
<1>1. Len(s) \in Nat
  OBVIOUS
<1>2. s[d + 1] = s[1] /\ d + 1 \in 2..Len(s)
  BY <1>1
<1>3. QED
  BY <1>2
===============================================================================
