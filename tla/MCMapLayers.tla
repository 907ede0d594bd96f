---------------------------- MODULE MCMapLayers -----------------------------
EXTENDS MapLayers, TLC

(* Two shapefiles with two shapes and one, and an image.                   *)
CONSTANTS roads, towns, photo, r1, r2, t1

MCFirstShapes == (roads :> <<r1, r2>>) @@ (towns :> <<t1>>) @@ (photo :> <<>>)
=============================================================================
