----------------------------- MODULE LayerStack -----------------------------
(***************************************************************************)
(* What the list of layers of a map promises: a stack, drawn from the      *)
(* first layer to the last.  A layer is added on top, taken out, or moved, *)
(* and the others keep their order.                                        *)
(***************************************************************************)
EXTENDS Naturals, Sequences, SequencesExt

CONSTANT Source   \* what layers show: shapefiles and images

VARIABLE layers   \* from the bottom to the top

Init == layers = <<>>

(* CMapView::AddLayer.                                                     *)
Put == \E s \in Source : layers' = Append(layers, s)

(* CMapView::RemoveLayer, and each step of RemoveAllLayers.                *)
Take == \E i \in DOMAIN layers : layers' = RemoveAt(layers, i)

(* CMapView::MoveLayer, MoveLayerUp, MoveLayerDown, MoveLayerTop,          *)
(* MoveLayerBottom.                                                        *)
Move == \E i, j \in DOMAIN layers :
  layers' = InsertAt(RemoveAt(layers, i), j, layers[i])

Next == Put \/ Take \/ Move

Spec == Init /\ [][Next]_layers
=============================================================================
