--------------------------- MODULE MCShapefileEdit ---------------------------
EXTENDS ShapefileEdit

(* One shapefile with at most two shapes, or none; the other name is free. *)
CONSTANTS n1, n2, b1, b2

MCFirstDisk ==
  {[n \in Name |-> IF n = n1 /\ k > 0
                     THEN [shp |-> [i \in 1..k |-> [fid |-> i, box |-> b1]], shx |-> k,
                           dbf |-> [i \in 1..k |-> i]]
                     ELSE NoFiles] : k \in {0, 2}}
=============================================================================
