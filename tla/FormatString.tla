---------------------------- MODULE FormatString ----------------------------
(***************************************************************************)
(* src/src/miscutils.cpp: vformat_string_n, which formats into a string of *)
(* at most maxStrLen characters, and vformat_string_h, which starts with   *)
(* strLenHint of them and formats again if they were too few.  What counts *)
(* are the sizes, all of which are size_t and wrap around.                 *)
(*                                                                         *)
(* vsnprintf is given a va_list.  Where that is an array (x86_64) it is    *)
(* used up when vsnprintf returns, and using it again is undefined.        *)
(***************************************************************************)
EXTENDS Integers

CONSTANTS
    SizeMax,            \* SIZE_MAX, the largest size_t
    IntMax, MaxSize,    \* INT_MAX, std::string::max_size()
    ArgsByReference

Size(n) == n % (SizeMax + 1)
Sizes == 0..SizeMax
Min2(a, b) == IF a < b THEN a ELSE b

ASSUME FormatAssumption ==
    /\ SizeMax \in Nat /\ IntMax \in Nat /\ MaxSize \in Nat
    /\ IntMax < SizeMax /\ MaxSize < SizeMax
    /\ ArgsByReference \in BOOLEAN

Error == -1

VARIABLES
    function, limit,    \* which of the two; its maxStrLen or strLenHint
    formatLen,          \* the length of the output w/o limitation, or Error
    pc,
    size,               \* of str
    bsz, nchars,
    failed              \* an exception has been caught

input == <<function, limit, formatLen>>
vars == <<input, pc, size, bsz, nchars, failed>>

Init ==
    /\ function \in {"n", "h"}
    /\ limit \in Sizes
    /\ formatLen \in 0..IntMax \cup {Error}
    /\ pc = "reserve"
    /\ size = 0
    /\ bsz = Size(limit + 1)
    /\ nchars = 0
    /\ failed = FALSE

Go(from, to) == pc = from /\ pc' = to /\ UNCHANGED <<input, failed>>

\* catch, handle_exception: the string is returned as it is.
Throw ==
    /\ pc' = "return"
    /\ failed' = TRUE
    /\ UNCHANGED <<input, size, bsz, nchars>>

\* reserve(bsz), which may find no memory; resize(bsz - 1) then finds it there.
Enlarge(from, to) ==
    \/ /\ Go(from, to)
       /\ bsz <= MaxSize /\ Size(bsz - 1) <= MaxSize
       /\ size' = Size(bsz - 1)
       /\ UNCHANGED <<bsz, nchars>>
    \/ pc = from /\ Throw

Reserve == Enlarge("reserve", "format")

\* vsnprintf: it reports the length w/o limitation, or an error as -1.
Format ==
    /\ Go("format", "fit")
    /\ nchars' = Size(formatLen)
    /\ UNCHANGED <<size, bsz>>

\* One character too many is taken for the end of the string.
FitOffByOne ==
    \/ /\ Go("fit", "return")
       /\ nchars <= bsz
       /\ size' = nchars
       /\ UNCHANGED <<bsz, nchars>>
    \/ /\ function = "n"
       /\ Go("fit", "return")
       /\ nchars > bsz
       /\ UNCHANGED <<size, bsz, nchars>>

\* The output has found room; or it stays truncated.
Fit ==
    \/ /\ Go("fit", "return")
       /\ nchars < bsz
       /\ size' = nchars
       /\ UNCHANGED <<bsz, nchars>>
    \/ /\ function = "n"
       /\ Go("fit", "return")
       /\ nchars >= bsz
       /\ UNCHANGED <<size, bsz, nchars>>

(* vformat_string_h: a second time, with the room that the first has found  *)
(* out to be needed.                                                        *)

\* The string is not enlarged with the room that vsnprintf is given.
GrowWithoutResize ==
    /\ function = "h"
    /\ Go("fit", "format_again")
    /\ nchars >= bsz
    /\ bsz' = Min2(Size(nchars + 1), MaxSize + 1)
    /\ UNCHANGED <<size, nchars>>

Grow ==
    /\ function = "h"
    /\ Go("fit", "reserve_again")
    /\ nchars >= bsz
    /\ bsz' = Min2(Size(nchars + 1), MaxSize + 1)
    /\ UNCHANGED <<size, nchars>>

ReserveAgain == Enlarge("reserve_again", "format_again")

\* It may find an error that the first did not.
FormatAgain ==
    /\ Go("format_again", "fit_again")
    /\ nchars' \in IF ArgsByReference THEN {Size(n) : n \in 0..IntMax \cup {Error}}
                                      ELSE {Size(formatLen), Size(Error)}
    /\ UNCHANGED <<size, bsz>>

FitAgain ==
    \/ /\ Go("fit_again", "return")
       /\ nchars <= MaxSize
       /\ size' = nchars
       /\ UNCHANGED <<bsz, nchars>>
    \/ pc = "fit_again" /\ nchars > size /\ Throw

Next == Reserve \/ Format \/ Fit \/ Grow \/ ReserveAgain \/ FormatAgain \/ FitAgain

Spec == Init /\ [][Next]_vars

-----------------------------------------------------------------------------
\* The types.
TypeOK ==
    /\ function \in {"n", "h"} /\ limit \in Sizes /\ formatLen \in 0..IntMax \cup {Error}
    /\ pc \in {"reserve", "format", "fit", "reserve_again", "format_again", "fit_again", "return"}
    /\ size \in 0..MaxSize /\ bsz \in Sizes /\ nchars \in Sizes
    /\ failed \in BOOLEAN

\* vsnprintf is never given more room than the string has with its terminator
\* (lines 41, 70 and 80), whatever wraps around.
WritesWithin == pc \in {"format", "format_again"} => bsz <= size + 1

\* "Resulting string is truncated to `min(maxStrLen, formatLen)`", and
\* "Resulting string size matches formated output w/o limitation".
SizeAsPromised ==
    pc = "return" /\ ~failed /\ formatLen # Error =>
        size = IF function = "n" THEN Min2(limit, formatLen) ELSE formatLen

\* Where nothing can be promised, since there is no memory or vsnprintf
\* reports an error, the string is the empty one, or as long as it has been made
\* for the output; the error is not taken for a length.
FailureContained ==
    pc = "return" /\ (failed \/ formatLen = Error) => size \in {0, limit} \cup {formatLen}

Inv == TypeOK /\ WritesWithin /\ FailureContained
=============================================================================
