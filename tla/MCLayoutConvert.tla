--------------------------- MODULE MCLayoutConvert ---------------------------
(* Model-checking instances of LayoutConvert with the code's tile of 16.  *)
EXTENDS LayoutConvert

(* Ranks 1 to 3 where the crop is right: no padding, padding of both    *)
(* axes, a tile-aligned axis beside a padded one, and a rank-1 input.    *)
MCShapesOK == {<<3>>, <<1, 1>>, <<2, 3>>, <<16, 16>>, <<17, 16>>, <<2, 16, 16>>}

(* Rank 3 with padding: the crop indexes the row axis with the batch.    *)
MCShapes3 == {<<2, 1, 1>>}

(* Rank 5 with padding: the input is never copied into the pad buffer.   *)
MCShapes5 == {<<1, 1, 1, 1, 1>>}

MCFormats == {"DefaultFormat", "NCHW", "FRACTAL_NZ", "FRACTAL_ZZ"}
=============================================================================
