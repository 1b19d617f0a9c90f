------------------------------- MODULE Video -------------------------------
(***************************************************************************)
(* What drivers/vbe.c writes into the frame buffer, and how utils/bmp.c    *)
(* finds the pixels of a picture.  A write is a pair: the byte of the      *)
(* frame it begins at, and its length.                                     *)
(***************************************************************************)
EXTENDS Integers, Sequences

CONSTANTS
    Mode,           \* of each mode of the card: width, height, bpp and pitch
    Bitmaps,        \* what the headers of a file for read_bmp may say
    Word            \* the number of values of an uint32_t

Modes == DOMAIN Mode

(* The modes that the driver knows how to draw in, vbe.c's "supported bpp  *)
(* (16, 24, 32)"; the pixels of a row are within the bytes of a row.       *)
ASSUME VideoAssumption ==
    \A m \in Modes :
      LET i == Mode[m]
      IN  /\ i.bpp \in {16, 24, 32} /\ {i.width, i.height, i.pitch} \subseteq Nat
          /\ i.width * (i.bpp \div 8) =< i.pitch

(* Files are shorter than the address space; a header may say anything. *)
ASSUME PictureAssumption ==
    /\ Word \in Nat \ {0}
    /\ \A f \in Bitmaps :
         /\ {f.size, f.data_offset, f.image_size, f.header_size} \subseteq 0 .. Word - 1
         /\ {f.width, f.height, f.bpp} \subseteq Int /\ {f.signature, f.compressed} \subseteq BOOLEAN

(* Nothing of a frame is seen, and its memory is another's, in text mode.  *)
FrameSize(m) == IF m \in Modes THEN Mode[m].pitch * Mode[m].height ELSE 0
Inside(writes, m) == \A w \in writes : w[1] >= 0 /\ w[2] >= 0 /\ w[1] + w[2] =< FrameSize(m)

PixelAt(i, x, y) ==
    CASE i.bpp = 32 -> <<4 * (y * (i.pitch \div 4) + x), 4>>
      [] i.bpp = 24 -> <<y * i.pitch + x * 3, 3>>
      [] OTHER      -> <<2 * (y * (i.pitch \div 2) + x), 2>>

(* Mutant: the column behind the last one is let through. *)
vbe_draw_pixel_Wide(i, x, y) ==
    IF x > i.width \/ y >= i.height \/ i.bpp \notin {24, 32} THEN {} ELSE {PixelAt(i, x, y)}
vbe_draw_pixel(i, x, y) ==
    IF x >= i.width \/ y >= i.height \/ i.bpp \notin {24, 32} THEN {} ELSE {PixelAt(i, x, y)}

vbe_clear_screen(i) == {PixelAt(i, x, y) : x \in 0 .. i.width - 1, y \in 0 .. i.height - 1}

display_image(i, width, height) ==
    UNION {vbe_draw_pixel(i, x, y) : x \in 0 .. width - 1, y \in 0 .. height - 1}

(* Characters are drawn, and scrolled, as if a pixel had three bytes. *)
draw_char_at(i, font, x, y) ==
    {<<(y + r) * i.pitch + x * 3, font.width * 3>> : r \in 0 .. font.height - 1}

scroll_up(i, font) ==
    {<<0, i.pitch * (i.height - font.height)>>} \union
    {<<row * i.pitch + j * 3, 3>> : row \in i.height - font.height .. i.height - 1,
                                    j \in 0 .. i.width - 1}

-----------------------------------------------------------------------------
(* The text cursor t: a column and a row, and how many of them the screen  *)
(* had when the font was loaded.                                           *)
vbe_load_font(t, i, font) ==
    [t EXCEPT !.font = font, !.max_col = i.width \div font.width,
                             !.max_row = i.height \div font.height]

NextRow(t, i) ==
    IF t.row < t.max_row - 1 THEN [at |-> [t EXCEPT !.row = @ + 1, !.col = 0], writes |-> {}]
    ELSE [at |-> [t EXCEPT !.row = t.max_row - 1, !.col = 0], writes |-> scroll_up(i, t.font)]

vbe_putchar(t, i, c) ==
    CASE c = "newline" -> NextRow(t, i)
      [] c = "return"  -> [at |-> [t EXCEPT !.col = 0], writes |-> {}]
      [] OTHER ->
           LET drawn == IF c = "missing" THEN {}        \* no glyph, nor one for "?"
                        ELSE draw_char_at(i, t.font, t.col * t.font.width, t.row * t.font.height)
               next  == [t EXCEPT !.col = @ + 1]
           IN  IF next.col < t.max_col THEN [at |-> next, writes |-> drawn]
               ELSE [NextRow(next, i) EXCEPT !.writes = @ \union drawn]

-----------------------------------------------------------------------------
(* Mutant: a row that needs no padding gets four bytes. *)
Padding_Four(row_size) == 4 - (row_size % 4)
Padding(row_size) == (4 - (row_size % 4)) % 4

(* read_bmp's checks, in their order. *)
BmpError(f) ==
    IF f.size < 54 THEN 4
    ELSE IF ~f.signature THEN 1
    ELSE IF f.header_size < 40 \/ f.width =< 0 \/ f.height = 0 THEN 2
    ELSE IF f.bpp \notin {24, 32} THEN 3
    ELSE IF f.compressed THEN 2
    ELSE IF f.size < (f.data_offset + f.image_size) % Word THEN 4 ELSE 0

AbsHeight(f) == IF f.height > 0 THEN f.height ELSE - f.height

(* The size of the picture, and for each of its pixels, from the top, the  *)
(* byte of the file where it begins.                                       *)
read_bmp(f) ==
    LET bytes   == f.bpp \div 8
        row     == (f.width * bytes + Padding((f.width * bytes) % Word)) % Word
        height  == AbsHeight(f)
        SrcY(y) == IF f.height > 0 THEN height - 1 - y ELSE y
    IN  [width |-> f.width, height |-> height,
         pixel |-> [p \in (0 .. f.width - 1) \X (0 .. height - 1) |->
                       (f.data_offset + SrcY(p[2]) * row + p[1] * bytes) % Word]]

-----------------------------------------------------------------------------
(* The format: a row takes whole words, and the first is the lowest one    *)
(* unless the height is negative.                                          *)
Stride(f) == 4 * ((f.width * f.bpp + 31) \div 32)
Row(f, y) == IF f.height > 0 THEN f.height - 1 - y ELSE y

(* The header of 40 bytes, or a later one that begins with it. *)
Uncompressed(f) ==
    f.signature /\ f.header_size >= 40 /\ ~f.compressed
    /\ f.width > 0 /\ f.height # 0 /\ f.bpp \in {24, 32}

(* A picture ends, by its sizes, below the end of the address space. *)
FitsWord(f) == /\ f.data_offset + f.image_size < Word
               /\ Uncompressed(f) => f.data_offset + AbsHeight(f) * Stride(f) < Word

IsPictureOf(got, f) ==
    /\ got.width = f.width /\ got.height \in {f.height, - f.height} \intersect Nat
    /\ \A x \in 0 .. got.width - 1, y \in 0 .. got.height - 1 :
         /\ got.pixel[<<x, y>>] = f.data_offset + Row(f, y) * Stride(f) + x * (f.bpp \div 8)
         /\ f.image_size = got.height * Stride(f) => got.pixel[<<x, y>>] + f.bpp \div 8 =< f.size
=============================================================================
