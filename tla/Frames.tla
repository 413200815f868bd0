-------------------------------- MODULE Frames ------------------------------
(***************************************************************************)
(* Pictures: decoding a PNG (harness/shots/pngio.py), comparing two        *)
(* pictures and painting their difference (diff.py), and the frame test of *)
(* the settle loop (frames_match in runner.py), which looks at the still   *)
(* filtered scanlines first and decodes only when they leave it in doubt.  *)
(*                                                                         *)
(* A pixel is one number; with several channels it is their largest        *)
(* difference that counts.  Rows and columns are counted from 0.           *)
(***************************************************************************)
EXTENDS Integers, Sequences, FiniteSets, FiniteSetsExt

CONSTANTS
  Columns, Rows, \* size of the pictures
  Levels         \* number of values of a byte, 256 in a PNG

ASSUME SizeAssumption == Columns \in Nat \ {0} /\ Rows \in Nat \ {0} /\ Levels \in Nat \ {0}

Xs == 0 .. Columns - 1
Ys == 0 .. Rows - 1
Bytes == 0 .. Levels - 1
Line == [Xs -> Bytes]
Pictures == [Ys -> Line]

Distance(a, b) == IF a > b THEN a - b ELSE b - a

\* Rect, and Rect.contains: x1 and y1 are outside.
Rects == [x0 : Int, y0 : Int, x1 : Int, y1 : Int]
Inside(mask, x, y) == mask.x0 <= x /\ x < mask.x1 /\ mask.y0 <= y /\ y < mask.y1
Masked(masks, x, y) == \E mask \in masks : Inside(mask, x, y)

-----------------------------------------------------------------------------
(* PNG.                                                                    *)

\* What _unfilter sees left of the row and above the picture is 0.
Left(line, x) == IF x = 0 THEN 0 ELSE line[x - 1]
Above(picture, y) == IF y = 0 THEN [x \in Xs |-> 0] ELSE picture[y - 1]

Paeth(a, b, c) ==
  LET p == a + b - c IN
  IF Distance(p, a) <= Distance(p, b) /\ Distance(p, a) <= Distance(p, c) THEN a
  ELSE IF Distance(p, b) <= Distance(p, c) THEN b ELSE c

Filters == {"none", "sub", "up", "average", "paeth"}

\* The byte a filter predicts from the bytes a to the left, b above and c above left.
Prediction(filter, a, b, c) ==
  CASE filter = "none" -> 0
    [] filter = "sub" -> a
    [] filter = "up" -> b
    [] filter = "average" -> (a + b) \div 2
    [] filter = "paeth" -> Paeth(a, b, c)

\* _unfilter: each byte is added to its prediction from the bytes decoded before it.
UnfilteredLine(filter, line, above) ==
  LET decoded[x \in Xs] ==
        (line[x] + Prediction(filter, IF x = 0 THEN 0 ELSE decoded[x - 1],
                                      above[x], Left(above, x))) % Levels
  IN  decoded

Unfilter(raw) ==
  LET picture[y \in Ys] ==
        UnfilteredLine(raw[y].filter, raw[y].line,
                       IF y = 0 THEN [x \in Xs |-> 0] ELSE picture[y - 1])
  IN  picture

\* The PNG standard: an encoder subtracts the prediction.  The standard breaks the tie
\* of the Paeth predictor in the order left, above, above left.
StandardPaeth(a, b, c) ==
  CHOOSE v \in {a, b, c} :
    /\ \A w \in {a, b, c} : Distance(a + b - c, v) <= Distance(a + b - c, w)
    /\ v # a => Distance(a + b - c, a) > Distance(a + b - c, v)
    /\ v \notin {a, b} => Distance(a + b - c, b) > Distance(a + b - c, v)

StandardPrediction(filter, a, b, c) ==
  IF filter = "paeth" THEN StandardPaeth(a, b, c) ELSE Prediction(filter, a, b, c)

Filtered(filter, line, above) ==
  [filter |-> filter,
   line |-> [x \in Xs |-> (line[x] - StandardPrediction(filter, Left(line, x), above[x],
                                                        Left(above, x))) % Levels]]

Encode(picture, filters) ==
  [y \in Ys |-> Filtered(filters[y], picture[y], Above(picture, y))]

-----------------------------------------------------------------------------
(* compare_images and write_diff_image.                                    *)

Differs(actual, golden, tolerance, masks, x, y) ==
  /\ Distance(actual[y][x], golden[y][x]) > tolerance
  /\ ~Masked(masks, x, y)

DifferingPixels(actual, golden, tolerance, masks) ==
  {p \in Xs \X Ys :
     actual[p[2]] # golden[p[2]] /\ Differs(actual, golden, tolerance, masks, p[1], p[2])}

\* The ratio is limit / 10000.
Passed(actual, golden, tolerance, limit, masks) ==
  Cardinality(DifferingPixels(actual, golden, tolerance, masks)) * 10000
    <= limit * Columns * Rows

\* The box, or <<>> when no pixel differs.
BoundingBox(pixels) ==
  IF pixels = {} THEN <<>>
  ELSE LET xs == {p[1] : p \in pixels}
           ys == {p[2] : p \in pixels}
       IN  <<Min(xs), Min(ys), Max(xs), Max(ys)>>

Paint(actual, golden, tolerance, masks, x, y) ==
  IF Masked(masks, x, y) THEN "blue"
  ELSE IF Distance(actual[y][x], golden[y][x]) > tolerance THEN "red" ELSE "dim"

-----------------------------------------------------------------------------
(* frames_match.                                                           *)

\* QEMU's encoder (libpng) picks the filter of a row by the row and the one above:
\* here the one with the smaller sum of bytes.
PickedFilter(line, above) ==
  LET Sum(f) == SumFunction(Filtered(f, line, above).line)
  IN  IF Sum("up") < Sum("sub") THEN "up" ELSE "sub"

Scanlines(picture) ==
  [y \in Ys |-> LET above == Above(picture, y)
                IN  Filtered(PickedFilter(picture[y], above), picture[y], above)]

\* (Slip: a mask explains its own rows only.)
ExplainedByOwnRows(masks, y) == \E mask \in masks : mask.y0 <= y /\ y < mask.y1

\* A scanline may differ because its pixels do or because those above it do.
Explained(masks, y) == \E mask \in masks : mask.y0 <= y /\ y <= mask.y1

DiffersOutsideMaskRows(a, b, masks) ==
  \E y \in Ys : Scanlines(a)[y] # Scanlines(b)[y] /\ ~Explained(masks, y)

FramesMatch(a, b, masks) ==
  \/ a = b
  \/ /\ masks # {}
     /\ ~DiffersOutsideMaskRows(a, b, masks)
     /\ Passed(a, b, 0, 0, masks)

-----------------------------------------------------------------------------
(* Properties, of two pictures.                                            *)

\* Every pixel outside the masks is the same.
AgreeOutside(a, b, masks) ==
  \A x \in Xs, y \in Ys : Masked(masks, x, y) \/ a[y][x] = b[y][x]

\* The scanlines decide nothing the pixels do not: two frames match exactly when every
\* pixel outside the masks is the same.
MatchIsExact(a, b, masks) == FramesMatch(a, b, masks) <=> AgreeOutside(a, b, masks)

\* The picture of a difference shows what the verdict counted: its red pixels are the
\* differing ones, inside the reported box, and none is painted when the images are
\* equal up to tolerance.
DiffShowsVerdict(a, b, tolerance, limit, masks) ==
  LET pixels == DifferingPixels(a, b, tolerance, masks)
      red == {p \in Xs \X Ys : Paint(a, b, tolerance, masks, p[1], p[2]) = "red"}
      box == BoundingBox(pixels)
  IN  /\ red = pixels
      /\ ~Passed(a, b, tolerance, limit, masks) => red # {}
      /\ \A p \in red : box[1] <= p[1] /\ p[1] <= box[3] /\ box[2] <= p[2] /\ p[2] <= box[4]

\* Whatever filter an encoder picks for each row, decoding gives the picture back.
DecodeIsInverse(picture, filters) == Unfilter(Encode(picture, filters)) = picture
=============================================================================
