------------------------------- MODULE CStrings -------------------------------
(****************************************************************************)
(* What it means to find one string in another.  A string is a sequence of  *)
(* characters without its terminator; positions count from 0, as in C.      *)
(****************************************************************************)
EXTENDS Integers, Sequences

(* The terminator. *)
NUL == "NUL"

(* The text of a C string that begins at index i of the array t (counting   *)
(* from 1): up to the first terminator; the one after t's end is implied.   *)
TextEnd(t, i) ==
  CHOOSE e \in i..(Len(t) + 1) :
    /\ e = Len(t) + 1 \/ t[e] = NUL
    /\ \A k \in i..(e - 1) : t[k] # NUL

CString(t, i) == SubSeq(t, i, TextEnd(t, i) - 1)

(* sep occurs in str at position i. *)
OccursAt(str, sep, i) ==
  i + Len(sep) <= Len(str) /\ \A j \in 1..Len(sep) : str[i + j] = sep[j]

(* i is the position of the first match of sep in str, -1 if there is none. *)
IsFirstMatch(i, str, sep) ==
  IF i = -1
    THEN \A p \in 0..Len(str) : ~ OccursAt(str, sep, p)
    ELSE /\ i \in 0..Len(str) /\ OccursAt(str, sep, i)
         /\ \A p \in 0..(i - 1) : ~ OccursAt(str, sep, p)

(* If sep begins again d characters after its beginning, up to its k-th     *)
(* character, then what would continue that copy is the (k+1)-th character: *)
(* a match that fails after k characters cannot have hidden another.        *)
Unambiguous(sep) ==
  \A k \in 1..(Len(sep) - 1), d \in 1..(Len(sep) - 1) :
    d < k /\ (\A j \in 1..(k - d) : sep[d + j] = sep[j])
      => sep[k - d + 1] = sep[k + 1]
===============================================================================
