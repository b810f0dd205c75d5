------------------------------- MODULE Console -------------------------------
(***************************************************************************)
(* The console: arch/amd64/video/protected_mode.cpp, the text screen of    *)
(* the VGA and the cursor kept for it (col_ and lin_ of iprotected_mode).  *)
(*                                                                         *)
(* A console is a record: col and lin, counted from 0, and cells, the      *)
(* characters of video memory.  Colours are left out.                      *)
(***************************************************************************)
EXTENDS Naturals, Sequences

CONSTANTS
    WIDTH,   \* 80 columns
    HEIGHT   \* 25 lines

ASSUME ConsoleAssumption == WIDTH \in Nat \ {0} /\ HEIGHT \in Nat \ {0}

Blank == "blank"
NewLine == "newline"
Columns == 0 .. (WIDTH - 1)
Lines == 0 .. (HEIGHT - 1)
Screen == Lines \X Columns

\* Everything is blank and the cursor is at the origin.
Cleared == [col |-> 0, lin |-> 0, cells |-> [p \in Screen |-> Blank]]

\* Every line moves up by one, the last one is wiped and has the cursor.
ScrollDown(con) ==
    [con EXCEPT
        !.lin = HEIGHT - 1,
        !.cells = [p \in Screen |-> IF p[1] + 1 \in Lines THEN con.cells[<<p[1] + 1, p[2]>>]
                                    ELSE Blank]]

\* A slip of NextLine: the line after the last one is taken for a line.
NextLineLate(con) ==
    LET moved == [con EXCEPT !.col = 0, !.lin = @ + 1]
    IN  IF moved.lin > HEIGHT THEN ScrollDown(moved) ELSE moved

NextLine(con) ==
    LET moved == [con EXCEPT !.col = 0, !.lin = @ + 1]
    IN  IF moved.lin >= HEIGHT THEN ScrollDown(moved) ELSE moved

\* The first half of printc: the character goes where the cursor is.
Store(con, c) ==
    IF c = NewLine THEN con
    ELSE [con EXCEPT !.cells[<<con.lin, con.col>>] = c]

\* The second half: the cursor moves on.
Advance(con, c) ==
    IF c = NewLine \/ con.col + 1 >= WIDTH THEN NextLine(con)
    ELSE [con EXCEPT !.col = @ + 1]

printc(con, c) == Advance(Store(con, c), c)

-----------------------------------------------------------------------------
\* What a text should look like on a screen, without a cursor that moves: the
\* place of each character on endless paper, of which the screen shows the end.

Placed(text) ==
    LET place[i \in 0 .. Len(text)] ==
          IF i = 0 THEN <<0, 0>>
          ELSE IF text[i] = NewLine \/ place[i - 1][2] + 1 = WIDTH
                 THEN <<place[i - 1][1] + 1, 0>>
               ELSE <<place[i - 1][1], place[i - 1][2] + 1>>
    IN  place

Shown(text) ==
    LET place == Placed(text)
        last  == place[Len(text)]
        first == IF last[1] < HEIGHT THEN 0 ELSE last[1] - HEIGHT + 1
        At(p) == {i \in 1 .. Len(text) :
                     text[i] # NewLine /\ place[i - 1] = <<p[1] + first, p[2]>>}
    IN  [col |-> last[2], lin |-> last[1] - first,
         cells |-> [p \in Screen |-> IF At(p) = {} THEN Blank
                                     ELSE text[CHOOSE i \in At(p) : TRUE]]]

=============================================================================
