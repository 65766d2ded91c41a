------------------------------- MODULE Images -------------------------------
(***************************************************************************)
(* The native module `image` (rust/image/src/lib.rs): a table of images    *)
(* that is the process's (IMAGES), operations that store a new image, and  *)
(* operations that draw on one.  A drawing operation works on a copy and   *)
(* stores it back; none gives the interpreter lock away.                   *)
(*                                                                         *)
(* A picture is a function from points to colours.  What a filter makes of *)
(* the pixels is left open, and the mode and the format of an image are    *)
(* left out; flood_fill is followed step by step.                          *)
(***************************************************************************)
EXTENDS Integers, Sequences, FiniteSets

CONSTANTS Sizes,      \* [width, height]: the sizes of images
          Colours,
          Offsets,    \* where images are pasted: a set of points
          Shapes,     \* the points that a line, a shape or a text paints
          Bands,      \* the channels splitChannels answers with, four
          MaxImages,  \* bound on the table
          Closed      \* an empty slot

Grid(size) == {[x |-> x, y |-> y] : x \in 0..size.width - 1, y \in 0..size.height - 1}
Pictures == UNION {[Grid(size) -> Colours] : size \in Sizes}
Points == UNION {Grid(size) : size \in Sizes}

\* What the constants are.
ImagesAssumption ==
    /\ Sizes \subseteq [width : Nat \ {0}, height : Nat \ {0}]
    /\ MaxImages \in Nat /\ Bands \in Nat
    /\ Offsets \subseteq [x : Int, y : Int]
    /\ Closed \notin Pictures

VARIABLE table    \* IMAGES, indices from 1

vars == table

TypeOK == table \in Seq(Pictures \cup {Closed})

Init == table = <<>>

Open(i) == i \in DOMAIN table /\ table[i] # Closed

-----------------------------------------------------------------------------
(* The table.                                                              *)

\* A slot is never used again.
store(pictures) ==
    /\ Len(table) + Len(pictures) <= MaxImages
    /\ table' = table \o pictures

update(i, picture) == table' = [table EXCEPT ![i] = picture]

\* open, openSvg and fromBase64, of a file that can be decoded
open == \E picture \in Pictures : store(<<picture>>)

create == \E size \in Sizes, colour \in Colours : store(<<[p \in Grid(size) |-> colour]>>)

copy(i) == Open(i) /\ store(<<table[i]>>)

\* A slot that is closed already answers 0 too.
close(i) == i \in DOMAIN table /\ update(i, Closed)

\* The operations that keep the size, blend and composite among them.
filter(i) == Open(i) /\ \E picture \in [DOMAIN table[i] -> Colours] : store(<<picture>>)

\* The operations that change it.
resize(i) == Open(i) /\ open

split_channels(i) ==
    /\ Open(i)
    /\ \E bands \in [1..Bands -> [DOMAIN table[i] -> Colours]] : store(bands)

-----------------------------------------------------------------------------
(* Drawing.                                                                *)

Painted(picture, points, colour) ==
    [p \in DOMAIN picture |-> IF p \in points THEN colour ELSE picture[p]]

\* setPixel and setPixelA, of a point of the image
set_pixel(i, p, colour) ==
    /\ Open(i) /\ p \in DOMAIN table[i]
    /\ update(i, Painted(table[i], {p}, colour))

fill_image(i, colour) == Open(i) /\ update(i, [p \in DOMAIN table[i] |-> colour])

\* paste; with alpha, the points of the source that are not transparent
paste(i, source, at, transparent) ==
    /\ Open(i) /\ Open(source)
    /\ LET from(p) == [x |-> p.x - at.x, y |-> p.y - at.y]
       IN  update(i, [p \in DOMAIN table[i] |->
                         IF from(p) \in DOMAIN table[source] \ transparent
                         THEN table[source][from(p)] ELSE table[i][p]])

\* draw_op with a line, a shape or a text: it paints points of the image.
draw_op(i, points, colour) == Open(i) /\ update(i, Painted(table[i], points, colour))

-----------------------------------------------------------------------------
(* flood_fill                                                              *)

Moved(p, dx, dy) == [x |-> p.x + dx, y |-> p.y + dy]

\* A mistake: a point above the seed is never reached.
Step_downwards(fill, seed, colour) ==
    LET p == fill.stack[Len(fill.stack)]
        rest == SubSeq(fill.stack, 1, Len(fill.stack) - 1)
    IN  IF p \in DOMAIN fill.buffer /\ fill.buffer[p] = seed
        THEN [buffer |-> [fill.buffer EXCEPT ![p] = colour],
              stack |-> rest \o <<Moved(p, 1, 0), Moved(p, -1, 0), Moved(p, 0, 1)>>]
        ELSE [fill EXCEPT !.stack = rest]

\* One turn of the loop: a point of the stack, which may be one outside of the
\* image or one that is painted already.
Step(fill, seed, colour) ==
    LET p == fill.stack[Len(fill.stack)]
        rest == SubSeq(fill.stack, 1, Len(fill.stack) - 1)
    IN  IF p \in DOMAIN fill.buffer /\ fill.buffer[p] = seed
        THEN [buffer |-> [fill.buffer EXCEPT ![p] = colour],
              stack |-> rest \o <<Moved(p, 1, 0), Moved(p, -1, 0),
                                  Moved(p, 0, 1), Moved(p, 0, -1)>>]
        ELSE [fill EXCEPT !.stack = rest]

\* A point is painted at most once and pushes four, so this many turns suffice.
Turns(picture) == 4 * Cardinality(DOMAIN picture) + 1

Flooded(picture, at, colour) ==
    LET after[n \in Nat] ==
          IF n = 0 THEN [buffer |-> picture, stack |-> <<at>>]
          ELSE LET fill == after[n - 1]
               IN  IF fill.stack = <<>> THEN fill ELSE Step(fill, picture[at], colour)
    IN  IF at \in DOMAIN picture /\ picture[at] # colour
        THEN after[Turns(picture)].buffer ELSE picture

flood_fill(i, at, colour) == Open(i) /\ update(i, Flooded(table[i], at, colour))

-----------------------------------------------------------------------------
Next ==
    \/ open \/ create
    \/ \E i \in 1..MaxImages :
         \/ copy(i) \/ close(i) \/ filter(i) \/ resize(i) \/ split_channels(i)
         \/ \E colour \in Colours :
              \/ fill_image(i, colour)
              \/ \E p \in Points : set_pixel(i, p, colour) \/ flood_fill(i, p, colour)
              \/ \E points \in Shapes : draw_op(i, points, colour)
         \/ \E source \in 1..MaxImages, at \in Offsets, transparent \in {{}, Points} :
               paste(i, source, at, transparent)

Spec == Init /\ [][Next]_vars

-----------------------------------------------------------------------------
Adjacent(p, q) == (p.x - q.x) * (p.x - q.x) + (p.y - q.y) * (p.y - q.y) = 1

\* The points of the picture that are joined to a point of it by points of its
\* colour.
Region(picture, at) ==
    LET grown[n \in Nat] ==
          IF n = 0 THEN {at}
          ELSE LET before == grown[n - 1]
               IN  before \cup {p \in DOMAIN picture :
                       picture[p] = picture[at] /\ \E q \in before : Adjacent(p, q)}
    IN  grown[Cardinality(DOMAIN picture)]

\* A flood fill ends, and has painted the region of its point and nothing else,
\* whatever holes and corners earlier drawing has left in the picture
\* (docs/stdlib/image.md: "the contiguous region under the seed point").
FillsPaintTheRegion ==
    \A i \in DOMAIN table : table[i] # Closed =>
        \A at \in DOMAIN table[i], colour \in Colours :
            Flooded(table[i], at, colour) =
                Painted(table[i], Region(table[i], at), colour)
=============================================================================
