------------------------------- MODULE MCBoot -------------------------------
(***************************************************************************)
(* Three modes: one of three bytes a pixel without room at the end of a    *)
(* row, one of four bytes with it, and one of two bytes; two fonts, so     *)
(* that a screen of the first may have fewer rows than the cursor's; a     *)
(* background that fits and one that is larger than every screen.  Bitmaps *)
(* for read_bmp, the largest of which do not fit into a word of 100 values.*)
(***************************************************************************)
EXTENDS Boot

Geometry(w, h, b, p) == [width |-> w, height |-> h, bpp |-> b, pitch |-> p]
CardModes == [m24 |-> Geometry(4, 4, 24, 12), m32 |-> Geometry(3, 2, 32, 16), m16 |-> Geometry(4, 2, 16, 8)]
SmallFonts == {[width |-> 2, height |-> 1], [width |-> 1, height |-> 2]}
Backgrounds == {<<2, 1>>, <<5, 5>>}

SmallBitmaps ==
    {[size |-> 54 + n, signature |-> s, header_size |-> g, width |-> w, height |-> h, bpp |-> b, compressed |-> c,
      data_offset |-> 54, image_size |-> z] :
        n \in {-1, 0, 8, 16, 24, 36}, s \in BOOLEAN, g \in {39, 40}, w \in 0 .. 4, h \in -2 .. 3, b \in {8, 24, 32},
        c \in BOOLEAN, z \in {0, 8, 16, 24, 36, 48}}
=============================================================================
