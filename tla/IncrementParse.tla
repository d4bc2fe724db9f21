---------------------------- MODULE IncrementParse ----------------------------
(****************************************************************************)
(* utility::incrementParse of src/src/utilities.cpp: one pass over str,     *)
(* looking for sep.  One action per way through the loop's body.            *)
(****************************************************************************)
EXTENDS CStrings

CONSTANTS
  Char,         \* what strings are made of, their terminator not included
  Separators    \* the strings incrementParse is asked to find

ASSUME ParseAssumption == Separators \subseteq Seq(Char) \ {<<>>}

VARIABLES
  str, sep,     \* the arguments
  curr,         \* the position of i in str
  sep_i,        \* how many characters of sep are behind sep_i
  start,        \* where the match in progress began
  ret,          \* the result
  at            \* "idle", "loop" or "returned"

parseVars == <<str, sep, curr, sep_i, start, ret, at>>

(* Nobody has called yet. *)
Idle ==
  /\ str = <<>> /\ sep = <<>>
  /\ curr = 0 /\ sep_i = 0 /\ start = 0 /\ ret = -1 /\ at = "idle"

(* incrementParse(s, p) is called. *)
Call(s, p) ==
  /\ str' = s /\ sep' = p
  /\ curr' = 0 /\ sep_i' = 0 /\ start' = 0 /\ ret' = -1 /\ at' = "loop"

Return(r) ==
  /\ at' = "returned" /\ ret' = r
  /\ UNCHANGED curr

Char_i == str[curr + 1]

InLoop == at = "loop" /\ curr < Len(str)

(* The end of the loop's body: sep_i and start have been set to k and s. *)
Advance(k, s) ==
  /\ sep_i' = k /\ start' = s
  /\ IF k = Len(sep)
       THEN Return(s)
       ELSE curr' = curr + 1 /\ UNCHANGED <<ret, at>>
  /\ UNCHANGED <<str, sep>>

Matches == InLoop /\ Char_i = sep[sep_i + 1]

Match ==
  /\ Matches
  /\ Advance(sep_i + 1, IF sep_i = 0 THEN curr ELSE start)

(* Mutant: a mismatch never begins a new match. *)
RestartsNever == FALSE

Restarts == Char_i = sep[1]

(* The character does not continue the match but begins a new one. *)
Restart ==
  /\ InLoop /\ ~ Matches /\ Restarts
  /\ Advance(1, curr)

Mismatch ==
  /\ InLoop /\ ~ Matches /\ ~ Restarts
  /\ Advance(0, start)

NotFound ==
  /\ at = "loop" /\ curr = Len(str)
  /\ Return(-1)
  /\ UNCHANGED <<str, sep, sep_i, start>>

ParseStep == Match \/ Restart \/ Mismatch \/ NotFound

CallAny ==
  /\ at # "loop"
  /\ \E s \in Seq(Char), p \in Separators : Call(s, p)

(* The function, called with any string and separator, again and again. *)
ParseSpec == Idle /\ [][ParseStep \/ CallAny]_parseVars

-------------------------------------------------------------------------------

(* The positions stay within the strings. *)
ParseTypeOK ==
  /\ str \in Seq(Char) /\ sep \in Separators \cup {<<>>}
  /\ at = "idle" \/ sep # <<>>
  /\ at = "loop" => sep_i < Len(sep)
  /\ curr \in 0..Len(str) /\ sep_i \in 0..Len(sep)
  /\ start \in Nat /\ ret \in Nat \cup {-1}
  /\ at \in {"idle", "loop", "returned"}

(* "This would find the first match of `sep` in `str`, and return the start *)
(* of the index [...] On not found, return -1" (utilities.hpp:9-16): so it  *)
(* does for every separator that does not hide one copy of itself in        *)
(* another, as all of those the server uses; "aab" in "aaab" it misses.     *)
FindsFirst ==
  at = "returned" /\ Unambiguous(sep) => IsFirstMatch(ret, str, sep)

(* What the loop knows after each character: the match in progress is       *)
(* there, it began at start, no longer one is in progress and none has been *)
(* completed.                                                               *)
MatchInProgress ==
  at = "loop" /\ Unambiguous(sep) =>
    /\ sep_i <= curr
    /\ sep_i > 0 => start = curr - sep_i
    /\ \A j \in 1..sep_i : str[curr - sep_i + j] = sep[j]
    /\ \A p \in 0..(curr - sep_i - 1) : ~ OccursAt(str, sep, p)
===============================================================================
