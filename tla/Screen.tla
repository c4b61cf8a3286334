------------------------------- MODULE Screen -------------------------------
(***************************************************************************)
(* Text and graphics of vga.cpp and vga_graphics.cpp.  Text goes into the   *)
(* memory of the adapter.  Pictures go into a buffer in low memory, behind  *)
(* which there is a mark for each row and column; write_screen shows what   *)
(* is marked.  No two of these calls overlap (VgaSelect: OneDraws).         *)
(***************************************************************************)
EXTENDS Integers, SequencesExt

CONSTANTS
    Modes,              \* the text modes, as <<width, height>>
    GWide, GHigh,       \* 80 x 30 characters in graphics mode
    FontHeight,         \* 16; a character is one pixel wide
    Planes,             \* 0 .. 3; a colour is the set of its planes
    Chars, Colours,     \* what is printed; the attributes of text
    Inks,               \* the colours of pictures
    MaxGone,            \* bound: lines that scroll away
    Far                 \* bound: the coordinates of the lines in LinesRight

ASSUME ScreenSizes == /\ Modes \subseteq (Nat \ {0}) \X (Nat \ {0}) /\ Modes # {}
                      /\ {GWide, GHigh, FontHeight} \subseteq Nat \ {0}
                      /\ Inks \subseteq SUBSET Planes /\ {0} \cap Chars = {}
                      /\ Colours \subseteq Nat /\ Colours # {}

VARIABLES
    size, pos,          \* <<w, h>>; vga_pos
    cells,              \* text memory: of a screen, and of the cell behind it
    gone,               \* history: the cells of the lines that scrolled away
    picture, g,         \* the adapter shows a picture; `g`, text is drawn
    b,                  \* the background of drawn text
    mem,                \* the bytes from 0x34000: buffer, rows, columns
    shown,              \* what the adapter shows of a picture
    open                \* a caller draws and has not called write_screen yet

text == <<size, pos, cells, gone>>
pictures == <<mem, shown, open>>
vars == <<text, picture, g, b, pictures>>

Wide == size[1]
Cells == size[1] * size[2]
Default == CHOOSE col \in Colours : \A d \in Colours : col <= d     \* BG_BLUE | FG_WHITE
BlankCell == [char |-> 0, colour |-> Default]

\* The buffer and its marks.
Width == GWide
Height == GHigh * FontHeight
Pixels == (0 .. Width - 1) \X (0 .. Height - 1)
Pixel(x, y) == x + y * Width
RowMark(y) == Width * Height + y
ColumnMark(x) == Width * Height + Height + x
Bytes == 0 .. Width * (Height + FontHeight) + Height + Width    \* with a row of characters below
Mark == Planes                                                  \* 4, or what is not 0
Empty == [a \in Bytes |-> {}]

-----------------------------------------------------------------------------
(* Text: vga.cpp.  Between its operations vga_pos is at most w * h.          *)

coord_from_pos(x, y) == y * Wide + x

ColouredOnly(cell) == [cell EXCEPT !.colour = Default]              \* mutant: char stays
clear_down_row(cell) == BlankCell

\* cs is the text memory so far.  One scroll is enough for all callers.
set_cursor_pos(p, cs) ==
    IF p <= Cells
    THEN pos' = p /\ cells' = cs /\ UNCHANGED gone
    ELSE /\ pos' = p - Wide - (p % Wide)
         /\ IF picture THEN cells' = cs /\ UNCHANGED gone       \* 0xb8000 is not text
            ELSE /\ Len(gone) < MaxGone * Wide
                 /\ gone' = gone \o [k \in 1 .. Wide |-> cs[k - 1]]
                 /\ cells' = [k \in DOMAIN cs |->
                        IF k = Cells THEN cs[k]
                        ELSE IF k < Cells - Wide THEN cs[k + Wide] ELSE clear_down_row(cs[k])]

clear(s, col) == /\ pos' = 0 /\ gone' = <<>>
                 /\ cells' = [k \in 0 .. s[1] * s[2] |-> [char |-> 0, colour |-> col]]

\* Texts are printed, and modes set, when no picture is being made.
Printing == ~open /\ (picture => g)
Text(call) == Printing /\ call /\ UNCHANGED <<size, picture, g, b, pictures>>

NextLine == Text(set_cursor_pos(pos + Wide, cells))             \* printc('\n')
LineStart == Text(set_cursor_pos(pos - (pos % Wide), cells))      \* printc('\r')
new_line == Text(set_cursor_pos(coord_from_pos(0, pos \div Wide + 1), cells))
Place == Text(\E p \in 0 .. Cells - 1 : set_cursor_pos(p, cells))

Put(c) == /\ ~picture
          /\ Text(set_cursor_pos(pos + 1, [cells EXCEPT ![pos].char = c]))

set_line_color(line, col, start, end) ==
    ~picture /\ Text(/\ cells' = [k \in DOMAIN cells |->
                            IF k \in line * Wide + start .. line * Wide + end - 1
                            THEN [cells[k] EXCEPT !.colour = col] ELSE cells[k]]
                     /\ UNCHANGED <<pos, gone>>)

Clear == ~picture /\ Text(\E col \in Colours : clear(size, col))

\* Also ends the picture of print_trans, whose buffer nobody looks at again (mem is
\* made equal).  Nobody calls it after enter_graphics, and g stays as it is.
set_mode(m) == /\ ~open /\ ~g /\ size' = m /\ clear(m, Default) /\ picture' = FALSE
               /\ shown' = <<>> /\ mem' = Empty /\ UNCHANGED <<g, b, open>>

-----------------------------------------------------------------------------
(* Graphics: vga_graphics.cpp.                                               *)

NoColumn(m, x, y, c) == [m EXCEPT ![Pixel(x, y)] = c, ![RowMark(y)] = Mark]     \* mutant
write_pixel4p(m, x, y, c) ==
    [m EXCEPT ![Pixel(x, y)] = c, ![RowMark(y)] = Mark, ![ColumnMark(x)] = Mark]

\* The points ps, one after the other.
Points(m, ps, c) ==
    LET w[k \in 0 .. Len(ps)] == IF k = 0 THEN m ELSE write_pixel4p(w[k - 1], ps[k][1], ps[k][2], c)
    IN  w[Len(ps)]

\* Column by column.
fill_rect(m, x0, y0, width, height, c) ==
    Points(m, [k \in 1 .. width * height |-> <<x0 + (k - 1) \div height, y0 + ((k - 1) % height)>>], c)

\* The character lights the first row of its cell.
draw_font(m, x, y, background) ==
    write_pixel4p(fill_rect(m, x, y, 1, FontHeight, background), x, y, Planes)

Marked(m, p) == m[RowMark(p[2])] # {} /\ m[ColumnMark(p[1])] # {}

\* Where plane i is lit once it has been copied: where it was, if not marked.
copy_plane(s, m, i) ==
    {p \in Pixels : IF Marked(m, p) THEN i \in m[Pixel(p[1], p[2])] ELSE i \in s[p]}

Unmarked(m) == [a \in Bytes |-> IF a \in RowMark(0) .. ColumnMark(Width - 1) THEN {} ELSE m[a]]
write_screen(m) == /\ shown' = [p \in Pixels |-> {i \in Planes : p \in copy_plane(shown, m, i)}]
                   /\ mem' = Unmarked(m)

Cleared(c) == [a \in Bytes |-> IF a < RowMark(0) THEN c
                               ELSE IF a <= ColumnMark(Width - 1) THEN Mark ELSE mem[a]]

\* printc when g is set; text that scrolls is not moved.
PutDrawn == /\ picture
            /\ Printing
            /\ write_screen(draw_font(mem, pos % Wide, (pos \div Wide) * FontHeight, b))
            /\ set_cursor_pos(pos + 1, cells)
            /\ UNCHANGED <<size, picture, g, b, open>>

\* load_registers: the adapter's memory is the picture's, and shows anything.
Shows(s) == picture' = TRUE /\ cells' = <<>> /\ gone' = <<>> /\ shown' = s

\* print_trans starts a picture in text mode; enter_graphics changes over.
StartPicture == /\ ~open /\ ~picture
                /\ \E s \in {{}, Planes} : Shows([p \in Pixels |-> s])
                /\ mem' = Cleared({}) /\ pos' = 0 /\ b' = {} /\ open' = TRUE /\ UNCHANGED <<size, g>>

enter_graphics == \E c \in Inks :
    /\ ~open /\ ~picture /\ Shows([p \in Pixels |-> c]) /\ mem' = Unmarked(Cleared(c))
    /\ g' = TRUE /\ size' = <<GWide, GHigh>> /\ pos' = 0 /\ b' = c /\ UNCHANGED open

gclear(c) == /\ picture /\ mem' = Cleared(c) /\ pos' = 0 /\ b' = c /\ open' = TRUE
             /\ UNCHANGED <<size, cells, gone, picture, g, shown>>

\* draw_line, point by point.
FromZero(fast) == 0                                             \* mutant
FirstErr(fast) == fast \div 2
Sign(n) == IF n < 0 THEN -1 ELSE IF n > 0 THEN 1 ELSE 0
Size(n) == IF n < 0 THEN -n ELSE n

Line(x1, y1, x2, y2) ==
    LET dx == Size(x2 - x1)
        dy == Size(y2 - y1)
        fast == IF dx > dy THEN dx ELSE dy
        slow == IF dx > dy THEN dy ELSE dx
        dd == <<Sign(x2 - x1), Sign(y2 - y1)>>
        pd == IF dx > dy THEN <<dd[1], 0>> ELSE <<0, dd[2]>>
        w[t \in 0 .. fast] ==
            IF t = 0 THEN [x |-> x1, y |-> y1, err |-> FirstErr(fast)]
            ELSE LET prev == w[t - 1]
                     d == IF prev.err < slow THEN dd ELSE pd
                 IN  [x |-> prev.x + d[1], y |-> prev.y + d[2],
                      err |-> prev.err - slow + (IF prev.err < slow THEN fast ELSE 0)]
    IN  [k \in 1 .. fast + 1 |-> <<w[k - 1].x, w[k - 1].y>>]

draw_rect(x0, y0, width, height) ==
    Line(x0, y0, x0 + width, y0) \o Line(x0, y0, x0, y0 + height)
        \o Line(x0 + width, y0, x0 + width, y0 + height) \o Line(x0, y0 + height, x0 + width, y0 + height)

\* A call of the callers, which draw inside the screen.
Draw == \E p, q \in Pixels, c \in Inks :
    /\ open
    /\ \/ mem' = Points(mem, Line(p[1], p[2], q[1], q[2]), c)
       \/ p[1] <= q[1] /\ p[2] <= q[2]
            /\ \/ mem' = Points(mem, draw_rect(p[1], p[2], q[1] - p[1], q[2] - p[2]), c)
               \/ mem' = fill_rect(mem, p[1], p[2], q[1] - p[1] + 1, q[2] - p[2] + 1, c)
    /\ UNCHANGED <<text, picture, g, b, shown, open>>

Show == /\ open /\ open' = FALSE /\ write_screen(mem)
        /\ UNCHANGED <<text, picture, g, b>>

-----------------------------------------------------------------------------

Next == \/ NextLine \/ LineStart \/ new_line \/ Place \/ Clear \/ PutDrawn
        \/ \E c \in Chars : Put(c)
        \/ \E line \in 0 .. size[2] - 1, col \in Colours : set_line_color(line, col, 0, Wide)
        \/ \E m \in Modes : set_mode(m)
        \/ StartPicture \/ enter_graphics \/ \E c \in Inks : gclear(c)
        \/ Draw \/ Show

\* init_vga sets a mode.
Init == /\ size \in Modes /\ pos = 0 /\ gone = <<>> /\ cells = [k \in 0 .. Cells |-> BlankCell]
        /\ picture = FALSE /\ g = FALSE /\ b = {} /\ open = FALSE
        /\ mem = Empty /\ shown = <<>>

Spec == Init /\ [][Next]_vars

\* The paper that text moves over, and the place of the cursor on it.
Paper == INSTANCE Terminal WITH
    roll <- IF picture THEN <<>> ELSE gone \o [k \in 1 .. Cells |-> cells[k - 1]],
    at <- IF picture THEN 0 ELSE Len(gone) + pos,
    Sizes <- Modes \cup {<<GWide, GHigh>>}

-----------------------------------------------------------------------------
(* Properties.                                                               *)

\* Text: scrolling copies the screen line by line, but seen from the reader it
\* moves a roll of paper.  Nothing printed is changed, moved or lost, whatever is
\* printed in which order and at which end of the screen, but for the one
\* character that Terminal names.
ImplementsTerminal == Paper!Spec

\* Graphics: a pixel that is not shown as it is in the buffer has both its marks,
\* so the next write_screen shows it: also when a character was drawn below the
\* last row, where the marks are.  Between pictures everything is shown.
BufferShown == picture => \A p \in Pixels :
    shown[p] = mem[Pixel(p[1], p[2])] \/ (Marked(mem, p) /\ open)

\* draw_line in integers: from one end to the other, in steps to a neighbour, and
\* nowhere more than half a pixel from the line, wherever a picture's lines begin
\* and end.
RightLines == \A x1, y1, x2, y2 \in 0 .. Far :
    LET line == Line(x1, y1, x2, y2)
        dx == x2 - x1
        dy == y2 - y1
        fast == Len(line) - 1
    IN  /\ line[1] = <<x1, y1>> /\ Last(line) = <<x2, y2>>
        /\ \A t \in 0 .. fast :
             /\ 2 * Size((line[t + 1][1] - x1) * fast - t * dx) <= fast
             /\ 2 * Size((line[t + 1][2] - y1) * fast - t * dy) <= fast
LinesRight == open => RightLines
=============================================================================
