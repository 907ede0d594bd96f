----------------------------- MODULE MapLayers ------------------------------
(***************************************************************************)
(* The layers of a map (CMapView, src/Control/Map_Layer.cpp), the lock     *)
(* that keeps it from being redrawn (LockWindow, Map_Core.cpp), and the    *)
(* shape editor, which knows its shape by the handle of a layer and an     *)
(* index (Map_Events.cpp, CEditShape).  All of it runs on the UI thread,   *)
(* but the handlers of the event LayersChanged may call the map again.     *)
(*                                                                         *)
(* A handle is a position in allLayers and is used again once its layer    *)
(* has been removed.  Positions and indices start with 1, so that 0 stands *)
(* for the -1 of the code.                                                 *)
(***************************************************************************)
EXTENDS Naturals, Sequences, FiniteSets, SequencesExt

CONSTANTS
  Source,    \* objects that are added as layers
  FirstShapes, \* [Source -> the shapes of a shapefile, in order]
  Image,     \* those of them that are images
  New,       \* a shape that the user draws
  NULL,
  MaxDepth,  \* bound on the calls of handlers within calls
  MaxCalls   \* bound on the calls of the client and of the user

ASSUME MapLayersAssumption ==
  /\ Image \subseteq Source
  /\ FirstShapes \in [Source -> Seq(UNION {ToSet(FirstShapes[s]) : s \in Source})]
  /\ \A s \in Image : FirstShapes[s] = <<>>
  /\ NULL \notin Source
  /\ MaxDepth \in Nat /\ MaxCalls \in Nat

VARIABLES
  allLayers,     \* m_allLayers: by handle, NULL where there is none
  activeLayers,  \* m_activeLayers: handles in the order of drawing
  lockCount,     \* _lockCount
  running,       \* calls whose handler is running, the outermost first:
                 \* 0 for AddLayer, the layer its loop has just removed
                 \* for RemoveAllLayers
  shapes,        \* the shapes of each shapefile, by index
  open,          \* sources that have not been closed
  editing,       \* shapefiles with _isEditingShapes
  editor,        \* CEditShape: its shape, _layerHandle and _shapeIndex
  calls,
  (* for the properties *)
  locks,         \* locks the client has and has not given back
  fault,         \* a layer that is not there was used
  lapses         \* what has happened after which less can be expected

layerVars == <<allLayers, activeLayers>>
editVars  == <<shapes, open, editing, editor>>
vars == <<layerVars, lockCount, running, editVars, calls, locks, fault, lapses>>

Handles == DOMAIN allLayers

Init ==
  /\ allLayers = <<>> /\ activeLayers = <<>>
  /\ lockCount = 0 /\ running = <<>>
  /\ shapes = FirstShapes /\ open = Source /\ editing = {}
  /\ editor = [shape |-> NULL, handle |-> 0, index |-> 0]
  /\ calls = 0 /\ locks = 0 /\ fault = "none" /\ lapses = {}

(* A call comes from the client, from a handler, or from the user.         *)
Call == fault = "none" /\ calls < MaxCalls /\ calls' = calls + 1

(* The user can use the mouse when no handler is running.                  *)
UserCall == Call /\ running = <<>>

-----------------------------------------------------------------------------
(* The lock, and what is done when it is opened: ReloadImageBuffers looks  *)
(* at each active layer.                                                   *)

IsValidLayer(all, h) == h \in DOMAIN all /\ all[h] # NULL

Drawable(all, active) == \A i \in DOMAIN active : IsValidLayer(all, active[i])

LockWindow == lockCount' = lockCount + 1

(* Of the lists as they are when it is called.                             *)
ReloadImageBuffers(all, active) ==
  fault' = IF Drawable(all, active) THEN fault ELSE "layer"

UnlockWindow(all, active) ==
  /\ lockCount' = IF lockCount <= 1 THEN 0 ELSE lockCount - 1
  /\ IF lockCount <= 1 THEN ReloadImageBuffers(all, active) ELSE UNCHANGED fault

(* A call that locks and unlocks the window with nothing in between.       *)
LockAndUnlock(all, active) ==
  /\ UNCHANGED lockCount
  /\ IF lockCount = 0 THEN ReloadImageBuffers(all, active) ELSE UNCHANGED fault

(* Calls of LockWindow by the client, which gives back what it takes.      *)
ClientLocks ==
  /\ Call /\ LockWindow /\ locks' = locks + 1
  /\ UNCHANGED <<layerVars, running, editVars, fault, lapses>>

ClientUnlocks ==
  /\ Call /\ locks > 0 /\ locks' = locks - 1
  /\ UnlockWindow(allLayers, activeLayers)
  /\ UNCHANGED <<layerVars, running, editVars, lapses>>

(* Panning with the mouse unlocks the window, which it has not locked, and *)
(* reloads the buffers in any case.                                        *)
DoPanning ==
  /\ UserCall
  /\ lockCount' = IF lockCount = 0 THEN 0 ELSE lockCount - 1
  /\ ReloadImageBuffers(allLayers, activeLayers)
  /\ lapses' = lapses \cup (IF lockCount > 0 THEN {"panned"} ELSE {})
  /\ UNCHANGED <<layerVars, running, editVars, locks>>

-----------------------------------------------------------------------------
(* Adding and removing layers.                                             *)

(* The first handle that is free, or the next one.                         *)
FreeHandle ==
  CHOOSE h \in 1..Len(allLayers) + 1 :
    /\ h \in Handles => allLayers[h] = NULL
    /\ \A k \in 1..h - 1 : allLayers[k] # NULL

WithLayer(h, s) ==
  IF h \in Handles THEN [allLayers EXCEPT ![h] = s] ELSE Append(allLayers, s)

(* Mutant of WithoutHandle: the handle is taken for a position.            *)
WithoutPosition(active, h) ==
  IF h \in DOMAIN active THEN RemoveAt(active, h) ELSE active

(* RemoveLayerCore takes out the first entry with the handle.              *)
WithoutHandle(active, h) == RemoveFirst(active, h)

(* The editor has the shape of a layer that is removed.                    *)
EditedIn(h) == editor.shape # NULL /\ editor.handle = h

(* A layer is added while all layers are being removed.                    *)
Sweeping == \E k \in DOMAIN running : running[k] > 0

(* AddLayer up to LayersChanged; the handler's calls come next.            *)
AddLayer(s) ==
  /\ Call /\ Len(running) < MaxDepth
  /\ s \in open /\ LockWindow
  /\ LET h == FreeHandle IN
       /\ allLayers' = WithLayer(h, s)
       /\ activeLayers' = Append(activeLayers, h)
  /\ running' = Append(running, 0)
  /\ lapses' = lapses \cup (IF Sweeping THEN {"swept"} ELSE {})
  /\ UNCHANGED <<editVars, locks, fault>>

(* CheckLayerProjection says no: the layer is removed again, which fires   *)
(* LayersChanged, but its slot stays.                                      *)
RefuseLayer(s) ==
  /\ Call /\ Len(running) < MaxDepth
  /\ s \in open /\ LockWindow
  /\ LET h == FreeHandle IN
       /\ allLayers' = WithLayer(h, NULL)
       /\ activeLayers' = WithoutHandle(Append(activeLayers, h), h)
  /\ running' = Append(running, 0)
  /\ UNCHANGED <<editVars, locks, fault, lapses>>

(* Mutant of AddClosed: it returns without opening the lock.               *)
AddClosedStaysLocked ==
  /\ Call /\ open # Source /\ LockWindow
  /\ UNCHANGED <<layerVars, running, editVars, locks, fault, lapses>>

(* AddLayer with an object that has not been opened: locks and unlocks.    *)
AddClosed ==
  /\ Call /\ open # Source
  /\ LockAndUnlock(allLayers, activeLayers)
  /\ UNCHANGED <<layerVars, running, editVars, locks, lapses>>

(* The handler returns to AddLayer.                                        *)
LayerAdded ==
  /\ fault = "none" /\ running # <<>> /\ Last(running) = 0
  /\ running' = Front(running)
  /\ UnlockWindow(allLayers, activeLayers)
  /\ UNCHANGED <<layerVars, editVars, calls, locks, lapses>>

(* RemoveLayerCore up to LayersChanged, after which nothing follows that   *)
(* matters here.                                                           *)
RemoveLayerCore(h, close) ==
  LET s == allLayers[h] IN
  /\ allLayers' = [allLayers EXCEPT ![h] = NULL]
  /\ activeLayers' = WithoutHandle(activeLayers, h)
  /\ IF close
     THEN /\ open' = open \ {s} /\ editing' = editing \ {s}
          /\ shapes' = [shapes EXCEPT ![s] = <<>>]
     ELSE UNCHANGED <<open, editing, shapes>>
  /\ lapses' = lapses \cup (IF EditedIn(h) THEN {"astray"} ELSE {})
  /\ UNCHANGED editor

RemoveLayer(h, close) ==
  /\ Call /\ IsValidLayer(allLayers, h)
  /\ RemoveLayerCore(h, close)
  /\ UNCHANGED <<lockCount, running, locks, fault>>

(* The next layer that the loop of RemoveAllLayers finds from h on, or 0.  *)
(* The number of slots is read anew in each round.                         *)
NextValid(h) ==
  LET rest == {k \in Handles : k >= h /\ allLayers[k] # NULL}
  IN  IF rest = {} THEN 0 ELSE CHOOSE k \in rest : \A m \in rest : k <= m

(* Its end: the slots are dropped, the list of handles stays as it is.     *)
DropSlots ==
  /\ allLayers' = <<>>
  /\ UNCHANGED <<activeLayers, editVars, locks, lapses>>

(* Up to the first LayersChanged.                                          *)
RemoveAllLayers ==
  /\ Call /\ Len(running) < MaxDepth /\ NextValid(1) # 0
  /\ LockWindow
  /\ RemoveLayerCore(NextValid(1), TRUE)
  /\ running' = Append(running, NextValid(1))
  /\ UNCHANGED <<locks, fault>>

RemoveNone ==
  /\ Call /\ NextValid(1) = 0
  /\ DropSlots /\ LockAndUnlock(<<>>, activeLayers)
  /\ UNCHANGED running

(* A handler returns to the loop, which comes to the next layer ...        *)
InSweep == fault = "none" /\ running # <<>> /\ Last(running) > 0

Sweep ==
  /\ InSweep
  /\ LET h == NextValid(Last(running) + 1) IN
       /\ h # 0 /\ RemoveLayerCore(h, TRUE)
       /\ running' = Append(Front(running), h)
  /\ UNCHANGED <<lockCount, calls, locks, fault>>

(* ... or ends.                                                            *)
Swept ==
  /\ InSweep /\ NextValid(Last(running) + 1) = 0
  /\ DropSlots /\ UnlockWindow(<<>>, activeLayers)
  /\ running' = Front(running)
  /\ UNCHANGED calls

-----------------------------------------------------------------------------
(* Moving layers.                                                          *)

(* Mutant of Moved: inserted first, then removed from where it was.        *)
MovedInsertingFirst(i, j) == RemoveAt(InsertAt(activeLayers, j, activeLayers[i]), i)

Moved(i, j) == InsertAt(RemoveAt(activeLayers, i), j, activeLayers[i])

MoveLayerUp(i)     == Moved(i, IF i = Len(activeLayers) THEN i ELSE i + 1)
MoveLayerDown(i)   == Moved(i, IF i = 1 THEN 1 ELSE i - 1)
MoveLayerTop(i)    == Append(RemoveAt(activeLayers, i), activeLayers[i])
MoveLayerBottom(i) == <<activeLayers[i]>> \o RemoveAt(activeLayers, i)
MoveLayer(i, j)    == Moved(i, j)

Move ==
  /\ Call
  /\ \E i, j \in DOMAIN activeLayers :
       activeLayers' \in {MoveLayerUp(i), MoveLayerDown(i), MoveLayerTop(i),
                          MoveLayerBottom(i), MoveLayer(i, j)}
  /\ UNCHANGED <<allLayers, lockCount, running, editVars, locks, fault, lapses>>

-----------------------------------------------------------------------------
(* Shapefiles and the shape editor.                                        *)

IsShapefile(s) == s \in Source \ Image

StartEditingShapes(s) ==
  /\ Call /\ IsShapefile(s) /\ s \in open \ editing
  /\ editing' = editing \cup {s}
  /\ UNCHANGED <<layerVars, lockCount, running, shapes, open, editor, locks, fault, lapses>>

StopEditingShapes(s) ==
  /\ Call /\ s \in editing
  /\ editing' = editing \ {s}
  /\ UNCHANGED <<layerVars, lockCount, running, shapes, open, editor, locks, fault, lapses>>

(* The index of the shape that is being edited is too large now, or that   *)
(* of another.                                                             *)
Shifted(s, i) ==
  /\ editor.shape # NULL /\ i <= editor.index
  /\ IsValidLayer(allLayers, editor.handle) /\ allLayers[editor.handle] = s

EditDeleteShape(s, i) ==
  /\ Call /\ s \in editing /\ i \in DOMAIN shapes[s]
  /\ shapes' = [shapes EXCEPT ![s] = RemoveAt(@, i)]
  /\ lapses' = lapses \cup (IF Shifted(s, i) THEN {"astray"} ELSE {})
  /\ UNCHANGED <<layerVars, lockCount, running, open, editing, editor, locks, fault>>

(* GetShapefile looks into the slot without a test for NULL.               *)
Crashes == editor.handle \in Handles /\ allLayers[editor.handle] = NULL

(* Mutant of SaveEditShape: the handle is taken for a position.            *)
SaveEditShapeByPosition ==
  LET s == allLayers[activeLayers[editor.handle]] IN
  IF /\ editor.handle \in DOMAIN activeLayers /\ s \in editing
     /\ editor.index \in DOMAIN shapes[s]
  THEN [shapes EXCEPT ![s][editor.index] = editor.shape]
  ELSE shapes

(* SaveEditShape: GetShapefile, then EditUpdateShape.                      *)
SaveEditShape ==
  LET s == allLayers[editor.handle] IN
  IF /\ editor.handle \in Handles /\ s \in editing
     /\ editor.index \in DOMAIN shapes[s]
  THEN [shapes EXCEPT ![s][editor.index] = editor.shape]
  ELSE shapes

Cleared == [editor EXCEPT !.shape = NULL]

(* SetEditShape takes the shape with index i of the layer h.               *)
SetEditShape(h, i) ==
  /\ editor' = [shape |-> shapes'[allLayers[h]][i], handle |-> h, index |-> i]
  /\ lapses' = lapses \ {"astray"}

(* FindShapeAtScreenPoint goes on if some layer is being edited; the shape *)
(* it finds may be of any layer, and is taken to be edited.  If nothing is *)
(* being edited it says it has found a shape, without a handle.            *)
SelectSingleShape ==
  LET anyEdited == \E i \in DOMAIN activeLayers :
                     allLayers[activeLayers[i]] \in editing
  IN
  IF ~Drawable(allLayers, activeLayers)
  THEN fault' = "layer" /\ UNCHANGED <<editor, lapses>>
  ELSE /\ UNCHANGED fault
       /\ \/ ~anyEdited /\ UNCHANGED <<editor, lapses>>
          \/ /\ anyEdited
             /\ \E h \in ToSet(activeLayers) :
                  \E i \in DOMAIN shapes'[allLayers[h]] : SetEditShape(h, i)
          \/ anyEdited /\ editor' = Cleared /\ UNCHANGED lapses

(* The client has handled SelectShape itself: as if nothing were there.    *)
ClientSelects == editor' = Cleared /\ UNCHANGED <<fault, lapses>>

(* OnLButtonDown with cmEditShape or cmMoveShape, not on the shape that is *)
(* being edited: that one is saved, another one is taken.                  *)
ClickShape ==
  /\ UserCall /\ (editor.shape # NULL => ~Crashes)
  /\ shapes' = IF editor.shape = NULL THEN shapes ELSE SaveEditShape
  /\ SelectSingleShape \/ ClientSelects
  /\ UNCHANGED <<layerVars, lockCount, running, open, editing, locks>>

ClickCrashes ==
  /\ UserCall /\ editor.shape # NULL /\ Crashes
  /\ fault' = "handle"
  /\ UNCHANGED <<layerVars, lockCount, running, editVars, locks, lapses>>

(* With cmAddShape: the first point of a new shape.  The editor still has  *)
(* the handle and the index of the last one.                               *)
DrawShape ==
  /\ UserCall /\ editor.shape = NULL
  /\ editor' = [editor EXCEPT !.shape = New]
  /\ lapses' = lapses \cup (IF editor.handle # 0 THEN {"astray"} ELSE {})
  /\ UNCHANGED <<layerVars, lockCount, running, shapes, open, editing, locks, fault>>

(* FinishShape, whose event the client has not cancelled, or Clear.        *)
ClearEditor ==
  /\ Call /\ editor' = Cleared /\ editor' # editor
  /\ UNCHANGED <<layerVars, lockCount, running, shapes, open, editing, locks, fault, lapses>>

-----------------------------------------------------------------------------
Next ==
  \/ \E s \in Source : AddLayer(s) \/ RefuseLayer(s)
                       \/ StartEditingShapes(s) \/ StopEditingShapes(s)
                       \/ \E i \in DOMAIN shapes[s] : EditDeleteShape(s, i)
  \/ \E h \in Handles, close \in BOOLEAN : RemoveLayer(h, close)
  \/ AddClosed \/ LayerAdded
  \/ RemoveAllLayers \/ RemoveNone \/ Sweep \/ Swept
  \/ Move
  \/ ClientLocks \/ ClientUnlocks \/ DoPanning
  \/ ClickShape \/ ClickCrashes \/ DrawShape \/ ClearEditor

Spec == Init /\ [][Next]_vars

-----------------------------------------------------------------------------
(* Properties.                                                             *)

TypeOK ==
  /\ allLayers \in Seq(Source \cup {NULL})
  /\ activeLayers \in Seq(Nat \ {0})
  /\ lockCount \in Nat /\ locks \in Nat
  /\ running \in Seq(Nat) /\ Len(running) <= MaxDepth
  /\ open \subseteq Source /\ editing \subseteq open
  /\ editor.handle \in Nat /\ editor.index \in Nat
  /\ fault \in {"none", "layer", "handle"}
  /\ lapses \subseteq {"panned", "swept", "astray"}
  /\ calls \in 0..MaxCalls

(* The two lists of CMapView agree: every layer is drawn once, and what is *)
(* drawn is a layer, at each time a handler or a redraw may look at them;  *)
(* unless a handler has added a layer while RemoveAllLayers was on its way,*)
(* as the slot it got may be behind the loop, and Map_Layer.cpp:758 drops  *)
(* the slots but not the handles.  Then only does drawing read past them.  *)
ListsAgree ==
  "swept" \notin lapses =>
    /\ IsInjective(activeLayers)
    /\ ToSet(activeLayers) = {h \in Handles : allLayers[h] # NULL}
    /\ fault # "layer"

(* Layers are drawn in the order of a stack, through all reuse of handles, *)
(* nested calls and layers refused in between (up to the same exception).  *)
Shown == [i \in DOMAIN activeLayers |->
            IF activeLayers[i] \in Handles THEN allLayers[activeLayers[i]] ELSE NULL]

Stack == INSTANCE LayerStack WITH layers <- Shown

ImplementsStack == Stack!Init /\ [][Stack!Next \/ "swept" \in lapses']_Shown

(* LockWindow is balanced: the window is locked as often as the client     *)
(* holds a lock, or is in the handler of a call that holds one, so that    *)
(* nothing redraws the lists in the middle of a call; unless panning with  *)
(* the mouse has opened a lock it did not take (Map_Events.cpp:1172).      *)
LockBalanced ==
  "panned" \notin lapses => lockCount = locks + Len(running)

(* An edited shape goes back to where it came from: saving never puts it   *)
(* in the place of another shape, nor looks for it in a layer that is gone *)
(* (Map_Events.cpp:743), unless since it was taken its layer has been      *)
(* removed, a shape before it deleted, or it never had a place of its own. *)
EditsGoHome ==
  [][ "astray" \notin lapses =>
        /\ \A s \in Source : Len(shapes'[s]) = Len(shapes[s]) => shapes'[s] = shapes[s]
        /\ fault' # "handle" ]_vars

=============================================================================
