---- MODULE StrategyNodes ----
(***************************************************************************)
(* The nodes of a Solana strategy on the creator canvas: adding them,      *)
(* configuring one in the panel, deleting them, and the workflow the       *)
(* transformer makes of them when the strategy is deployed.                *)
(*                                                                         *)
(* Every kind of node is reduced to one choice (a token, pool, condition   *)
(* or operator), one number (a threshold, an amount) and, aside, what the  *)
(* panel takes and no workflow carries (a vault's asset, a swap's          *)
(* priority).  A value is what the user entered, Empty when the input was  *)
(* cleared, a default of one of the three tables of the code (added,       *)
(* shown, sent), or None: not in the configuration.                        *)
(***************************************************************************)
EXTENDS Naturals, FiniteSets

CONSTANTS Nodes,    \* node identifiers, "node-<time>"
          Picked,   \* what a user may pick in a choice
          Typed,    \* what a user may type as a number below a thousand
          Large,    \* and of a thousand or more, all of them beginning with a 1
          Empty, None

VARIABLES nodes,    \* the nodes on the canvas: kind and configuration
          links,    \* the connections between them
          panel,    \* the node selected, whether its panel is open, and its draft
          entered,  \* what the user entered in the panel since it turned to this node
          meant,    \* per node, what the user has entered and saved
          deployed, \* the workflow sent: parameters and connections, None before
          misread   \* the nodes saved with a threshold that was cut at its comma

vars == <<nodes, links, panel, entered, meant, deployed, misread>>

Kinds == {"feed", "swap", "vault", "logic"}
Fields == {"choice", "number", "aside"}
Carried == {"choice", "number"}  \* into the workflow
NoConfig == [f \in Fields |-> None]
Nothing == [f \in Carried |-> None]
Present == DOMAIN nodes

\* The configuration a node is added with, the default its panel shows for a
\* field that is not set, and the default the transformer sends for it.
Added == [feed  |-> [choice |-> "below", number |-> "1000", aside |-> None],
          swap  |-> [choice |-> "SOL", number |-> "100", aside |-> "High"],
          vault |-> [choice |-> "pool-a", number |-> "10", aside |-> "USDC"],
          logic |-> NoConfig]
ShownDefault == [feed  |-> [choice |-> "below", number |-> "1000", aside |-> None],
                 swap  |-> [choice |-> "SOL", number |-> Empty, aside |-> "High"],
                 vault |-> [choice |-> "USDC", number |-> "10", aside |-> "USDC"],
                 logic |-> [choice |-> "<", number |-> "150", aside |-> None]]
SentDefault == [feed  |-> [choice |-> "above", number |-> "0"],
                swap  |-> [choice |-> "SOL", number |-> "0"],
                vault |-> [choice |-> "pool-a", number |-> "auto"],
                logic |-> [choice |-> ">", number |-> "0"]]

Shown(kind, config) ==
  [f \in Fields |-> IF config[f] = None THEN ShownDefault[kind][f] ELSE config[f]]

\* transformNodeParameters: the parameters of one node of the workflow; a vault's
\* asset and a swap's priority are not among them.
Parameters(kind, config) ==
  [f \in Carried |-> IF config[f] \in {None, Empty} THEN SentDefault[kind][f] ELSE config[f]]

Closed == [node |-> None, open |-> FALSE, draft |-> NoConfig, cut |-> FALSE]
\* Selecting another node replaces the draft by that node's configuration.
Facing(n, open, config) == [node |-> n, open |-> open, draft |-> config, cut |-> FALSE]
Turned(n, open, config) ==
  IF n = panel.node THEN [panel EXCEPT !.open = open] ELSE Facing(n, open, config)

Init ==
  /\ nodes = << >> /\ links = {}
  /\ panel = Closed /\ entered = Nothing
  /\ meant = [n \in Nodes |-> Nothing]
  /\ deployed = None /\ misread = {}

Node(kind, config) == [kind |-> kind, config |-> config]
With(more) == [n \in Present \cup DOMAIN more |-> IF n \in DOMAIN more THEN more[n] ELSE nodes[n]]

\* handleAddNode selects the new node; a panel that is open turns to it.
Add(n, kind) ==
  /\ n \notin Present /\ meant[n] = Nothing
  /\ nodes' = With([m \in {n} |-> Node(kind, Added[kind])])
  /\ panel' = Turned(n, panel.open, Added[kind])
  /\ entered' = Nothing
  /\ UNCHANGED <<links, meant, deployed, misread>>

\* The chat adds a price feed and a swap already connected, and selects none.
AddFromChat(n, m) ==
  /\ n # m /\ {n, m} \cap Present = {} /\ meant[n] = Nothing /\ meant[m] = Nothing
  /\ nodes' = With([k \in {n, m} |->
                      IF k = n THEN Node("feed", [choice |-> "above", number |-> "200", aside |-> None])
                      ELSE Node("swap", Added.swap)])
  /\ links' = links \cup {<<n, m>>}
  /\ UNCHANGED <<panel, entered, meant, deployed, misread>>

\* Clicking the node whose panel is open closes it.
Select(n) ==
  /\ n \in Present
  /\ panel' = IF panel.node = n /\ panel.open THEN Closed ELSE Turned(n, TRUE, nodes[n].config)
  /\ entered' = IF panel.node = n /\ ~panel.open THEN entered ELSE Nothing
  /\ UNCHANGED <<nodes, links, meant, deployed, misread>>

\* Deleting a node keeps the connections that lead to it.
Delete(n) ==
  /\ n \in Present
  /\ nodes' = [m \in Present \ {n} |-> nodes[m]]
  /\ IF panel.node = n THEN panel' = Closed /\ entered' = Nothing
                       ELSE UNCHANGED <<panel, entered>>
  /\ UNCHANGED <<links, meant, deployed, misread>>

\* What can be entered in a field of a node: only the logic's operator can be picked
\* away, and only a swap and a vault have something aside.  A number of a thousand or
\* more is nothing special to the other nodes: it is typed as a threshold only.
Open(n, f) == panel.open /\ panel.node = n /\ (f = "aside" => nodes[n].kind \in {"swap", "vault"})
Inputs(kind, f) ==
  CASE f = "number" -> Typed \cup {Empty} \cup (IF kind = "feed" THEN Large ELSE {})
    [] f # "number" /\ kind = "logic" -> Picked \cup {Empty}
    [] OTHER -> Picked

\* A threshold left empty becomes 1, and a comparison value 0.
Blurred(kind, f, value) ==
  IF f # "number" \/ value # Empty THEN value
  ELSE CASE kind = "feed" -> "1" [] kind = "logic" -> "0" [] OTHER -> Empty

Enter(n, f) ==
  /\ n \in Present /\ Open(n, f)
  /\ \E value \in Inputs(nodes[n].kind, f) :
       LET v == Blurred(nodes[n].kind, f, value)
       IN /\ panel' = [panel EXCEPT !.draft[f] = v, !.cut = @ /\ f # "number"]
          /\ entered' = IF f \in Carried THEN [entered EXCEPT ![f] = v] ELSE entered
  /\ UNCHANGED <<nodes, links, meant, deployed, misread>>

\* The threshold is shown with a comma behind its thousands; a click into the field and
\* out of it, with nothing typed, reads the text again and stops at the comma.
Grouped == Large \cup {"1000"}
Reread(value) == IF value \in Grouped THEN "1" ELSE value

PassThreshold ==
  /\ panel.open /\ panel.node \in Present /\ nodes[panel.node].kind = "feed"
  /\ LET shown == Shown("feed", panel.draft).number
     IN panel' = [panel EXCEPT !.draft.number = Reread(shown), !.cut = @ \/ shown \in Grouped]
  /\ UNCHANGED <<nodes, links, entered, meant, deployed, misread>>

\* handleSave drops what is empty and closes the panel.
Kept(draft) == [f \in Fields |-> IF draft[f] = Empty THEN None ELSE draft[f]]
Save ==
  /\ panel.open /\ panel.node \in Present
  /\ nodes' = [nodes EXCEPT ![panel.node].config = Kept(panel.draft)]
  /\ meant' = [meant EXCEPT ![panel.node] =
                 [f \in Carried |-> IF entered[f] = None THEN @[f] ELSE entered[f]]]
  /\ misread' = IF panel.cut THEN misread \cup {panel.node}
                ELSE IF entered.number # None THEN misread \ {panel.node} ELSE misread
  /\ panel' = Closed /\ entered' = Nothing
  /\ UNCHANGED <<links, deployed>>

Cancel ==
  /\ panel.open
  /\ panel' = Closed /\ entered' = Nothing
  /\ UNCHANGED <<nodes, links, meant, deployed, misread>>

\* transformToBackendFormat, after the deployment has chained nodes that have no
\* connection at all from left to right; any order stands for the positions.
Chains == {c \in SUBSET (Present \X Present) :
             /\ Cardinality(c) = Cardinality(Present) - 1
             /\ \A n \in Present : /\ <<n, n>> \notin c
                                   /\ Cardinality({e \in c : e[1] = n}) <= 1
                                   /\ Cardinality({e \in c : e[2] = n}) <= 1}
Deploy ==
  /\ Present # {}
  /\ \E chain \in IF links = {} THEN Chains ELSE {links} :
       deployed' = [nodes |-> [n \in Present |-> Parameters(nodes[n].kind, nodes[n].config)],
                    links |-> chain]
  /\ UNCHANGED <<nodes, links, panel, entered, meant, misread>>

Edit ==
  \/ \E n \in Nodes, kind \in Kinds : Add(n, kind)
  \/ \E n, m \in Nodes : AddFromChat(n, m)
  \/ \E n \in Nodes : Select(n)
  \/ \E n \in Nodes : Delete(n)
  \/ \E n \in Nodes, f \in Fields : Enter(n, f)
  \/ PassThreshold \/ Save \/ Cancel

\* Bound: the canvas is deployed once, and that ends the sitting.
Next == deployed = None /\ (Edit \/ Deploy)

Spec == Init /\ [][Next]_vars

--------------------------------------------------------------------------------
Defaults == UNION {{t[k][f] : k \in Kinds, f \in Carried} : t \in {Added, ShownDefault, SentDefault}}
Values == Picked \cup Typed \cup Large \cup {Empty, None, "200", "1", "0", "High", "USDC"} \cup Defaults
Configs == [Fields -> Values]

\* Only known nodes carry configurations, and the panel faces one of them or none.
TypeOK ==
  /\ Present \subseteq Nodes
  /\ \A n \in Present : nodes[n].kind \in Kinds /\ nodes[n].config \in Configs
  /\ links \subseteq Nodes \X Nodes
  /\ panel.node \in Present \cup {None} /\ panel.draft \in Configs /\ panel.cut \in BOOLEAN
  /\ {entered} \cup {meant[n] : n \in Nodes} \subseteq [Carried -> Values] /\ misread \subseteq Nodes

\* The workflow that is deployed carries, for every node, the choice and the number its
\* user entered and saved for that node, whichever other nodes were opened, edited and
\* abandoned in the same panel; and a price feed's parameters are what its panel shows
\* when it is opened, also after its threshold was cleared.  Excepted is what is aside,
\* which no workflow carries, and the threshold of a feed that was saved after a click
\* through its field had cut a number of a thousand or more at the comma.
\* (ConfigPanel.tsx 252-332, NumberInputWithOperators.tsx 36-73, workflowTransformer.ts 46-188)
DeployedIsSeen ==
  deployed # None => \A n \in Present :
    LET sent == deployed.nodes[n]
    IN /\ \A f \in Carried : meant[n][f] \notin {None, Empty} =>
            sent[f] = meant[n][f] \/ (f = "number" /\ n \in misread /\ sent[f] = "1")
       /\ nodes[n].kind = "feed" => \A f \in Carried : sent[f] = Shown("feed", nodes[n].config)[f]

================================================================================
