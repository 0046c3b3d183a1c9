---------------------------- MODULE CanvasEditor ----------------------------
(***************************************************************************)
(* The canvas editor of components/Creator/WorkflowBuilder.tsx over the    *)
(* canvases table: tabs, one shared node list that belongs to the active   *)
(* tab, a copy per tab in memory, and saves to the database that nobody    *)
(* waits for: two seconds after the last change, and on leaving a tab.     *)
(* A node list is known by the tabs its nodes were placed on (of) and the  *)
(* number of its last change (at).                                         *)
(***************************************************************************)
EXTENDS Naturals, FiniteSets

CONSTANTS
  Canvases,   \* ids the database may give
  MaxEdits,   \* bound: changes of the node list
  MaxSaves,   \* bound: saves under way
  None

VARIABLES
  rows,      \* the table: a node list, or None
  gone,      \* ids of deleted rows
  kept,      \* tabDataRef: the lists kept in memory, by tab
  tabs,      \* the tabs shown
  active,    \* the active tab
  nodes,     \* the node list of the editor
  timer,     \* the autosave that is due, or None
  saves,     \* saves sent and not yet answered
  closing,   \* the tab whose closing was confirmed, or None
  adding,    \* a new tab asked for: the tab that was active and its nodes, or None
  asked,     \* a list of the canvases is to be read
  answer,    \* the rows of that list on their way, or None
  signed,    \* signed in
  orphaned   \* the active tab once went away under the editor

vars == <<rows, gone, kept, tabs, active, nodes, timer, saves, closing, adding, asked, answer, signed, orphaned>>

Local == "tab"    \* a tab the database does not know: the first one, or a fallback
Empty == [of |-> {}, at |-> 0]

Stored(table) == {c \in Canvases : table[c] # None}
Unused(c) == rows[c] = None /\ c \notin gone
Kept(t) == IF t \in DOMAIN kept THEN kept[t] ELSE Empty
Save(t, content) == [tab |-> t, content |-> content]
\* Every change of the list or of the active tab starts the two seconds again.
Due(t, content) == IF signed /\ t # Local THEN Save(t, content) ELSE None

Init ==
  /\ rows \in [Canvases -> {None, Empty}] /\ gone = {}
  /\ kept = <<>> /\ tabs = {Local} /\ active = Local /\ nodes = Empty
  /\ timer = None /\ saves = {} /\ closing = None /\ adding = None
  /\ asked = FALSE /\ answer = None /\ signed = FALSE /\ orphaned = FALSE

(***************************************************************************)
(* The session                                                             *)
(***************************************************************************)
SignIn ==
  /\ ~signed /\ signed' = TRUE /\ asked' = TRUE
  /\ UNCHANGED <<rows, gone, kept, tabs, active, nodes, timer, saves, closing, adding, answer, orphaned>>

SignOut ==
  /\ signed /\ closing = None /\ adding = None /\ signed' = FALSE /\ asked' = FALSE /\ answer' = None
  /\ kept' = <<>> /\ tabs' = {Local} /\ active' = Local /\ nodes' = Empty /\ timer' = None
  /\ UNCHANGED <<rows, gone, saves, closing, adding, orphaned>>

ReadList ==
  /\ asked /\ answer = None /\ asked' = FALSE /\ answer' = rows
  /\ UNCHANGED <<rows, gone, kept, tabs, active, nodes, timer, saves, closing, adding, signed, orphaned>>

\* The memory with the copy of one tab replaced.
Keep(t, content) == [u \in {t} \cup DOMAIN kept |-> IF u = t THEN content ELSE kept[u]]

\* The first canvas of an owner who has none.
CreateFirst(c) ==
  /\ answer # None /\ Stored(answer) = {} /\ Unused(c)
  /\ rows' = [rows EXCEPT ![c] = Empty] /\ asked' = TRUE /\ answer' = None
  /\ kept' = Keep(c, Empty)
  /\ tabs' = {c} /\ active' = c /\ nodes' = Empty /\ timer' = Due(c, Empty)
  /\ UNCHANGED <<gone, saves, closing, adding, signed, orphaned>>

\* The list replaces the tabs.  A canvas without nodes in memory takes the nodes of the
\* list, and the editor with it when it is the active one; when the active tab is gone,
\* another becomes active, and the editor keeps its nodes unless that one takes new ones.
ShowList ==
  /\ answer # None /\ Stored(answer) # {}
  /\ LET stored == Stored(answer)
         shown == stored \cup (tabs \cap DOMAIN kept \cap {Local})
         load == {c \in stored : Kept(c).of = {}}
     IN \E t \in shown :
          /\ active \in shown => t = active
          /\ active \notin shown => t # Local
          /\ tabs' = shown /\ active' = t
          /\ kept' = [u \in (DOMAIN kept \cap shown) \cup load |-> IF u \in load THEN answer[u] ELSE kept[u]]
          /\ nodes' = IF t \in load THEN answer[t] ELSE nodes
          /\ timer' = IF t = active /\ t \notin load THEN timer ELSE Due(t, nodes')
          /\ orphaned' = (orphaned \/ (t # active /\ t \notin load))
  /\ answer' = None
  /\ UNCHANGED <<rows, gone, saves, closing, adding, asked, signed>>

(***************************************************************************)
(* Changes and saves                                                       *)
(***************************************************************************)
Change(content) ==
  /\ closing = None /\ nodes' = content /\ timer' = Due(active, content)
  /\ UNCHANGED <<rows, gone, kept, tabs, active, saves, closing, adding, asked, answer, signed, orphaned>>

\* A node is placed, moved or configured; the last one is deleted.
Edit == nodes.at < MaxEdits /\ Change([of |-> nodes.of \cup {active}, at |-> nodes.at + 1])
Clear == nodes.of # {} /\ Change(Empty)

AutoSave ==
  /\ timer # None /\ Cardinality(saves) < MaxSaves
  /\ saves' = saves \cup {timer} /\ timer' = None
  /\ UNCHANGED <<rows, gone, kept, tabs, active, nodes, closing, adding, asked, answer, signed, orphaned>>

\* Saves land in any order, or are lost; a row that is gone is not brought back.
Land(s, lost) ==
  /\ s \in saves /\ saves' = saves \ {s}
  /\ rows' = IF s.tab \in Stored(rows) /\ ~lost THEN [rows EXCEPT ![s.tab] = s.content] ELSE rows
  /\ UNCHANGED <<gone, kept, tabs, active, nodes, timer, closing, adding, asked, answer, signed, orphaned>>

\* What is saved for the tab that is left: the nodes of the editor.
Leaving(t) == nodes

Select(t) ==
  /\ closing = None /\ t \in tabs \ {active} /\ Cardinality(saves) < MaxSaves
  /\ kept' = Keep(active, nodes)
  /\ saves' = IF signed /\ active # Local THEN saves \cup {Save(active, Leaving(t))} ELSE saves
  /\ active' = t /\ nodes' = Kept(t) /\ timer' = Due(t, Kept(t))
  /\ UNCHANGED <<rows, gone, tabs, closing, adding, asked, answer, signed, orphaned>>

\* The tab that is left is kept in memory and not saved.
AddTab ==
  /\ closing = None /\ adding = None /\ signed
  /\ adding' = Save(active, nodes) /\ kept' = Keep(active, nodes)
  /\ UNCHANGED <<rows, gone, tabs, active, nodes, timer, saves, closing, asked, answer, signed, orphaned>>

\* The new canvas becomes active whatever the editor did meanwhile; a local tab was
\* stored first, under an id of its own.
TabAdded(c, d) ==
  /\ adding # None /\ Unused(c) /\ Unused(d) /\ (c = d <=> adding.tab # Local)
  /\ LET local == adding.tab = Local
         left == IF local THEN DOMAIN kept \ {Local} ELSE DOMAIN kept
     IN /\ rows' = [rows EXCEPT ![c] = Empty, ![d] = IF local THEN adding.content ELSE @]
        /\ kept' = [t \in left \cup {c} \cup (IF local THEN {d} ELSE {}) |->
                      CASE t = c -> Empty [] local /\ t = d -> adding.content [] OTHER -> kept[t]]
  /\ active' = c /\ nodes' = Empty /\ timer' = Due(c, Empty) /\ asked' = TRUE /\ adding' = None
  /\ UNCHANGED <<gone, tabs, saves, closing, answer, signed, orphaned>>

\* Signed out, or the database refuses: the new tab lives in the browser only.
AddLocalTab ==
  /\ closing = None /\ Local \notin tabs /\ (signed => adding # None)
  /\ kept' = [t \in {Local, active} \cup DOMAIN kept |-> IF t = Local THEN Empty ELSE Keep(active, nodes)[t]]
  /\ tabs' = tabs \cup {Local} /\ active' = Local /\ nodes' = Empty /\ timer' = None /\ adding' = None
  /\ UNCHANGED <<rows, gone, saves, closing, asked, answer, signed, orphaned>>

\* The owner typed the tab's name: the active tab's due save is dropped and its nodes are
\* saved at once, and that save is waited for.
CloseTab(t) ==
  /\ closing = None /\ t \in tabs \ {Local} /\ Cardinality(tabs) > 1 /\ signed
  /\ Cardinality(saves) < MaxSaves
  /\ closing' = t
  /\ kept' = IF t = active THEN Keep(t, nodes) ELSE kept
  /\ timer' = IF t = active THEN None ELSE timer
  /\ saves' = IF t = active THEN saves \cup {Save(t, nodes)} ELSE saves
  /\ UNCHANGED <<rows, gone, tabs, active, nodes, adding, asked, answer, signed, orphaned>>

DeleteCanvas(deleted) ==
  /\ closing # None /\ (closing = active => Save(closing, nodes) \notin saves)
  /\ closing' = None
  /\ rows' = IF deleted THEN [rows EXCEPT ![closing] = None] ELSE rows
  /\ gone' = IF deleted THEN gone \cup {closing} ELSE gone
  /\ asked' = (asked \/ deleted)
  /\ UNCHANGED <<kept, tabs, active, nodes, timer, saves, adding, answer, signed, orphaned>>

CloseLocalTab ==
  /\ closing = None /\ Local \in tabs /\ Cardinality(tabs) > 1
  /\ kept' = [t \in DOMAIN kept \ {Local} |-> kept[t]] /\ tabs' = tabs \ {Local}
  /\ IF active = Local
     THEN \E t \in tabs \ {Local} : active' = t /\ nodes' = Kept(t) /\ timer' = Due(t, Kept(t))
     ELSE UNCHANGED <<active, nodes, timer>>
  /\ UNCHANGED <<rows, gone, saves, closing, adding, asked, answer, signed, orphaned>>

\* Bound: once the editor holds the nodes of a canvas that is gone, nothing more is followed.
Next ==
  /\ ~orphaned
  /\ \/ SignIn \/ SignOut \/ ReadList \/ ShowList \/ Edit \/ Clear \/ AutoSave
     \/ AddTab \/ AddLocalTab \/ CloseLocalTab
     \/ \E s \in saves, lost \in BOOLEAN : Land(s, lost)
     \/ \E c \in Canvases : CreateFirst(c)
     \/ \E c, d \in Canvases : TabAdded(c, d)
     \/ \E t \in tabs : Select(t) \/ CloseTab(t)
     \/ \E deleted \in BOOLEAN : DeleteCanvas(deleted)

Spec == Init /\ [][Next]_vars

(***************************************************************************)
(* Properties                                                              *)
(***************************************************************************)
Content == [of : SUBSET (Canvases \cup {Local}), at : 0 .. MaxEdits]

\* The types of the table and of the page.
TypeOK ==
  /\ \A c \in Canvases : rows[c] \in Content \cup {None}
  /\ \A t \in DOMAIN kept : t \in Canvases \cup {Local} /\ kept[t] \in Content
  /\ tabs \subseteq Canvases \cup {Local} /\ active \in Canvases \cup {Local} /\ nodes \in Content
  /\ \A s \in saves \cup ({timer} \ {None}) : s.tab \in Canvases /\ s.content \in Content
  /\ gone \subseteq Canvases \ Stored(rows) /\ closing \in Canvases \cup {None}

\* One shared node list, many rows: a canvas stores only nodes placed on it (or on the
\* local tab it was made from), whatever the order of switches, saves and lists, unless
\* the active tab once disappeared from the list, when the editor keeps the old nodes.
RowIsItsOwn ==
  orphaned \/ \A c \in Stored(rows) : rows[c].of \subseteq {c, Local}
=============================================================================
