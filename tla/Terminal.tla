------------------------------ MODULE Terminal ------------------------------
(***************************************************************************)
(* What vga.cpp promises of text: a roll of paper that only gets longer, and *)
(* a screen that shows its end.  What is written stays where it is.  The one *)
(* exception is a character behind the last line: it gets a line, not ink.   *)
(***************************************************************************)
EXTENDS Integers, Sequences

CONSTANTS
    Sizes,          \* the text modes, as <<width, height>>
    Chars, Colours

VARIABLES
    roll,           \* the paper since it was last cleared, <<>> while a picture is shown
    at,             \* how many cells are before the cursor
    size            \* the mode

Wide == size[1]
Top == Len(roll) - size[1] * size[2]        \* cells above the screen

BlankCell(col) == [char |-> 0, colour |-> col]
Blank(n, col) == [k \in 1 .. n |-> BlankCell(col)]
Behind(p) == p - (p % Wide)                   \* the start of the line

\* The cursor goes to p; behind the end there is a new line, and it starts there.
Move(p, col) ==
    IF p <= Len(roll) THEN at' = p /\ UNCHANGED roll
                      ELSE at' = Behind(p) /\ roll' = roll \o Blank(Wide, col)

Lost == at = Len(roll) /\ \E col \in Colours : Move(at + 1, col)
Ink(c) == /\ at < Len(roll)
          /\ roll' = [roll EXCEPT ![at + 1].char = c] /\ at' = at + 1

Write == /\ roll # <<>> /\ UNCHANGED size
         /\ Lost \/ \E c \in Chars : Ink(c)
Feed == /\ roll # <<>> /\ UNCHANGED size
        /\ \E p \in {at + Wide, Behind(at), Behind(at) + Wide} \cup (Top .. Len(roll)), col \in Colours :
             Move(p, col)
Paint == /\ roll # <<>> /\ UNCHANGED <<at, size>>
         /\ \E s \in SUBSET (Top + 1 .. Len(roll)), col \in Colours :
              roll' = [k \in 1 .. Len(roll) |-> IF k \in s THEN [roll[k] EXCEPT !.colour = col] ELSE roll[k]]
Clear == /\ at' = 0 /\ size' \in Sizes
         /\ \E col \in Colours : roll' = Blank(size'[1] * size'[2], col)
Picture == roll' = <<>> /\ at' = 0 /\ size' \in Sizes \cup {size}

Init == at = 0 /\ size \in Sizes /\ \E col \in Colours : roll = Blank(size[1] * size[2], col)
Next == Write \/ Feed \/ Paint \/ Clear \/ Picture
Spec == Init /\ [][Next]_<<roll, at, size>>
=============================================================================
