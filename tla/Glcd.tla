-------------------------------- MODULE Glcd --------------------------------
(***************************************************************************)
(* Experiment 5: the graphic display, two controllers side by side, and    *)
(* the programs that draw on it: lab5_1_glcd.c (one image),                *)
(* lab5_2_SqaurePos.c (a square that follows the joystick) and             *)
(* lab5_3_Motion.c (images in turn, inverted).  A byte is the set of the   *)
(* pixels, counted from the top of its page, that it lights.               *)
(***************************************************************************)
EXTENDS Integers

CONSTANTS Half,        \* columns of a controller (64)
          Pages,       \* pages of the display (8)
          Cell,        \* pixels in a column of a page; side of the square (8)
          FullScale,   \* largest average of the converter (4095)
          Images       \* number of images that take turns (8)

ASSUME GlcdAssumption ==
    /\ {Half, Pages, Cell, FullScale, Images} \subseteq Nat \ {0}
    /\ Cell < 2 * Half

VARIABLES glcd,        \* the display
          turn,        \* images sent
          previous,    \* Hpos_prev, Vpos_prev
          drawn        \* what was drawn last: no picture, or one

display == <<glcd, turn, previous, drawn>>

Width == 2 * Half
Height == Pages * Cell
Columns == 0..Width - 1
Bits == 0..Cell - 1
Screen == Columns \X (0..Height - 1)
PageNumbers == 0..Pages - 1

-----------------------------------------------------------------------------
(* The controllers: a command or a data byte goes to the one that is       *)
(* selected, and a data byte moves its column on.                          *)
SetPage(d, chip, page) == [d EXCEPT !.select = chip, !.page[chip] = page]
SetColumn(d, chip, column) == [d EXCEPT !.select = chip, !.column[chip] = column]

glcd_init(ram) == [select |-> 1, page |-> [c \in 0..1 |-> 0],
                   column |-> [c \in 0..1 |-> 0], ram |-> ram]

glcd_data(d, byte) ==
    LET c == d.select
    IN [d EXCEPT !.ram[c][d.page[c]][d.column[c]] = byte,
                 !.column[c] = (@ + 1) % Half]

glcd_setpage(d, page) == SetPage(SetPage(d, 0, page), 1, page)

\* The plausible slip: the boundary column goes to the wrong controller.
BugSetColumn(d, column) ==
    IF column <= Half THEN SetColumn(d, 0, column % Half)
                      ELSE SetColumn(d, 1, column - Half)

glcd_setcolumn(d, column) ==
    IF column < Half THEN SetColumn(d, 0, column)
                     ELSE SetColumn(d, 1, column - Half)

\* n bytes from column h on.
Row(d, page, h, n, bytes) ==
    LET row[i \in 0..n] ==
          IF i = 0 THEN glcd_setpage(d, page)
          ELSE glcd_data(glcd_setcolumn(row[i - 1], h + i - 1), bytes[i - 1])
    IN row[n]

\* The whole display, page by page; a picture has the bytes of each page.
Fill(d, picture) ==
    LET fill[p \in 0..Pages] ==
          IF p = 0 THEN d ELSE Row(fill[p - 1], p - 1, 0, Width, picture[p - 1])
    IN fill[Pages]

glcd_cleardisplay(d) == Fill(d, [p \in PageNumbers |-> [j \in Columns |-> {}]])

-----------------------------------------------------------------------------
(* lab5_1_glcd.c, lab5_3_Motion.c *)
\* Stand-ins for the arrays: images that differ in every page.
Image(k) ==
    [p \in PageNumbers |-> [j \in Columns |-> {b \in Bits : (b + j + p + k) % 3 = 0}]]

sendImage(d, k) == Fill(d, Image(k))

glcd_logodisplay(d, k) ==
    Fill(d, [p \in PageNumbers |-> [j \in Columns |-> Bits \ Image(k)[p][j]]])

-----------------------------------------------------------------------------
(* lab5_2_SqaurePos.c *)
Position(range, average) == ((range * FullScale) - (average * range)) \div FullScale

Square(d, h, v) ==
    LET upper == v % Cell
        lower == Cell - upper
        top == Bits \ {b \in Bits : b < upper}
        bottom == Bits \ {Cell - 1 - b : b \in 0..lower - 1}
        Part(s, page, byte) == Row(s, page, h, Cell, [i \in 0..Cell - 1 |-> byte])
    IN IF upper = 0 THEN Part(d, v \div Cell, Bits)
       ELSE Part(Part(d, v \div Cell, top), (v \div Cell) + 1, bottom)

-----------------------------------------------------------------------------
(* The programs.  What the memory holds at power-on is anything; here all  *)
(* dark or all lit.                                                        *)
GlcdInit ==
    /\ \E byte \in {{}, Bits} :
         glcd = glcd_init([c \in 0..1 |->
                  [p \in PageNumbers |-> [j \in 0..Half - 1 |-> byte]]])
    /\ turn = 0 /\ previous = <<0, 0>> /\ drawn = {}

\* What a picture lights.
Pixels(picture) == {q \in Screen : (q[2] % Cell) \in picture[q[2] \div Cell][q[1]]}

\* main of lab5_1_glcd.c sends its image once.
ShowImage == /\ turn = 0 /\ turn' = 1
             /\ glcd' = sendImage(glcd, 0)
             /\ drawn' = {Pixels(Image(0))}
             /\ UNCHANGED previous

\* The images of lab5_3_Motion.c, one after the other; the joystick sets the
\* pause between them.
ShowNext == /\ turn' = (turn + 1) % Images
            /\ glcd' = glcd_logodisplay(glcd, turn)
            /\ drawn' = {Screen \ Pixels(Image(turn))}
            /\ UNCHANGED previous

\* printSqure, with the averages of the converters.
printSqure ==
    \E a0, a1 \in 0..FullScale :
      LET h == Position(Width - Cell, a0)
          v == Position(Height - Cell, a1)
      IN /\ IF <<h, v>> = previous THEN UNCHANGED <<glcd, drawn>>
            ELSE /\ glcd' = Square(glcd_cleardisplay(glcd), h, v)
                 /\ drawn' = {(h..h + Cell - 1) \X (v..v + Cell - 1)}
         /\ previous' = <<h, v>>
         /\ UNCHANGED turn

-----------------------------------------------------------------------------
GlcdTypeOK ==
    /\ glcd \in [select : 0..1, page : [0..1 -> PageNumbers], column : [0..1 -> 0..Half - 1],
                ram : [0..1 -> [PageNumbers -> [0..Half - 1 -> SUBSET Bits]]]]
    /\ turn \in 0..Images
    /\ previous \in Columns \X (0..Height - 1)

Memory == [p \in PageNumbers |->
            [x \in Columns |-> glcd.ram[x \div Half][p][x % Half]]]

\* What the display's memory shows is the picture that was meant, pixel by
\* pixel, wherever the square lies: across the two controllers, across two
\* pages, and with nothing left of the picture before.  Nothing is said before
\* the first picture: a square that begins in the corner <<0, 0>>, where
\* lab5_2_SqaurePos.c takes it to be already, is not drawn before it moves.
ShowsPicture == \A picture \in drawn : picture = Pixels(Memory)

=============================================================================
