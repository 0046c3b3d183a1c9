---------------------------- MODULE CanvasLayout ----------------------------
(***************************************************************************)
(* Where the nodes of a canvas stand (components/Creator/WorkflowBuilder   *)
(* .tsx, WorkflowCanvas.tsx).  The grid is the even coordinates; a node    *)
(* dropped from the toolbox stands where it fell.                          *)
(***************************************************************************)
EXTENDS Integers, FiniteSets

CONSTANTS
  Nodes,
  Width, Height   \* bound: coordinates run from 0 to these

VARIABLES
  place,      \* where each node that is on the canvas stands
  selected,   \* nodes of the open panel: at most one
  dragged     \* the node under the pointer: at most one

vars == <<place, selected, dragged>>

Cell == [x : -Width .. 2 * Width, y : 0 .. Height]
Spacing == 2
Snap(v) == Spacing * ((v + 1) \div Spacing)
Home == [x |-> Spacing, y |-> 0]

Init == place = <<>> /\ selected = {} /\ dragged = {}

Placed == DOMAIN place
With(n, cell) == [m \in Placed \cup {n} |-> IF m = n THEN cell ELSE place[m]]

\* From the menu: to the right of a rightmost node.
NewPosition ==
  IF Placed = {} THEN {Home}
  ELSE {[x |-> place[n].x + Spacing, y |-> place[n].y] :
          n \in {m \in Placed : \A k \in Placed : place[k].x <= place[m].x}}

AddNode(n) ==
  /\ n \notin Placed /\ dragged = {}
  /\ \E cell \in NewPosition : cell.x <= Width /\ place' = With(n, cell)
  /\ selected' = {n} /\ UNCHANGED dragged

NodeDrop(n, cell) ==
  /\ n \notin Placed /\ dragged = {}
  /\ place' = With(n, cell) /\ selected' = {n} /\ UNCHANGED dragged

NodeMouseDown(n) ==
  /\ n \in Placed /\ dragged = {}
  /\ dragged' = {n} /\ UNCHANGED <<place, selected>>

\* Between the place that is left and the target, the target included.
Passed(x, from, to) == IF from < to THEN from < x /\ x <= to ELSE to <= x /\ x < from

\* The dragged node goes to the cell; if one stands there, those it passed on that row
\* make room by one cell, towards where it came from.
NodeMove(n, to) ==
  LET from == place[n].x
      taken == \E m \in Placed \ {n} : place[m] = to
      shift == IF from < to.x THEN -Spacing ELSE Spacing
  IN [m \in Placed |->
       IF m = n THEN to
       ELSE IF taken /\ place[m].y = to.y /\ Passed(place[m].x, from, to.x)
            THEN [place[m] EXCEPT !.x = @ + shift] ELSE place[m]]

MouseMove(n, cell) ==
  /\ n \in dragged
  /\ LET to == [x |-> Snap(cell.x), y |-> Snap(cell.y)]
     IN to.x <= Width /\ to.y <= Height /\ place' = NodeMove(n, to)
  /\ UNCHANGED <<selected, dragged>>

\* Barely moved, it was a click: the panel of the node opens or closes.
NodeSelect(n) ==
  /\ n \in dragged /\ dragged' = {}
  /\ selected' = IF n \in selected THEN {} ELSE {n}
  /\ UNCHANGED place

\* The second click in a short while deletes the node.
NodeDelete(n) ==
  /\ n \in dragged /\ dragged' = {}
  /\ place' = [m \in Placed \ {n} |-> place[m]] /\ selected' = selected \ {n}

MouseUp ==
  /\ dragged # {} /\ dragged' = {} /\ UNCHANGED <<place, selected>>

\* Bound: the pointer is on a row of the grid, and anywhere along it.
Pointed == [x : 0 .. Width, y : {y \in 0 .. Height : y % Spacing = 0}]

Next ==
  \/ MouseUp
  \/ \E n \in Nodes :
       \/ AddNode(n) \/ NodeMouseDown(n) \/ NodeSelect(n) \/ NodeDelete(n)
       \/ \E cell \in Pointed : NodeDrop(n, cell) \/ MouseMove(n, cell)

Spec == Init /\ [][Next]_vars

\* The types of the layout; the panel and the drag are about a node of the canvas.
TypeOK ==
  /\ Placed \subseteq Nodes /\ \A n \in Placed : place[n] \in Cell
  /\ selected \cup dragged \subseteq Placed /\ Cardinality(selected) <= 1 /\ Cardinality(dragged) <= 1

Row(y) == {n \in Placed : place[n].y = y}
Orderly(y) == /\ \A n \in Row(y) : place[n].x % Spacing = 0
              /\ \A n, m \in Row(y) : place[n] = place[m] => n = m

\* Of every step. "Insertion logic": a drag along a row of the grid never stacks two of its nodes,
\* however far it goes and whatever gaps it crosses.
RowsStayOrderly ==
  \A y \in 0 .. Height : Orderly(y) /\ Row(y)' = Row(y) => Orderly(y)'
=============================================================================
