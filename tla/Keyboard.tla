------------------------------ MODULE Keyboard ------------------------------
(***************************************************************************)
(* The keyboard's driver, drivers/peripherals/keyboard.cpp: what a scan    *)
(* code does to the shift state and to the console.                        *)
(*                                                                         *)
(* A scan code names a key and says whether it went down or up (bit 7).    *)
(* Keys stand for their kind: those whose character depends on the shift   *)
(* state, the return key, those that have no character but print a 0 all   *)
(* the same, and the two shift keys.                                       *)
(***************************************************************************)
EXTENDS Console

ShiftKeys == {"lshift", "rshift"}

Code == [key : {"letter", "return", "control"} \cup ShiftKeys, up : BOOLEAN]

\* The two tables of characters.
en_US == [letter |-> "lower", return |-> NewLine, control |-> "nul"]
en_US_shift == [letter |-> "upper", return |-> NewLine, control |-> "nul"]

\* A slip of on_keyup: only one of the two shift keys is thought of.
on_keyup_left(d, key) == [d EXCEPT !.shift_ = @ /\ key # "lshift"]

\* Releasing either shift key ends the shift, whether the other is held or not.
on_keyup(d, key) == [d EXCEPT !.shift_ = @ /\ key \notin ShiftKeys]

on_keydown(d, key) ==
    IF key \in ShiftKeys THEN [d EXCEPT !.shift_ = TRUE]
    ELSE [d EXCEPT !.con = printc(@, IF d.shift_ THEN en_US_shift[key] ELSE en_US[key])]

\* on_keyboard, once the byte is read; d is the shift state and the console.
Process(d, code) == IF code.up THEN on_keyup(d, code.key) ELSE on_keydown(d, code.key)

-----------------------------------------------------------------------------
\* The text that a sequence of codes stands for: a character is shifted if the
\* last code of a shift key before it was that of pressing it.

ShiftedAt(codes, i) ==
    \E j \in 1 .. (i - 1) :
        /\ codes[j].key \in ShiftKeys /\ ~ codes[j].up
        /\ \A k \in (j + 1) .. (i - 1) : codes[k].key \notin ShiftKeys

Typed(codes) ==
    LET Prints(i) == ~ codes[i].up /\ codes[i].key \notin ShiftKeys
        Char(i) == IF ShiftedAt(codes, i) THEN en_US_shift[codes[i].key]
                   ELSE en_US[codes[i].key]
        text[n \in 0 .. Len(codes)] ==
          IF n = 0 THEN <<>>
          ELSE IF Prints(n) THEN Append(text[n - 1], Char(n)) ELSE text[n - 1]
    IN  text[Len(codes)]

=============================================================================
