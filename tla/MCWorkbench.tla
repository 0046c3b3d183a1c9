----------------------------- MODULE MCWorkbench ------------------------------
(***************************************************************************)
(* Small instances of the parts of the browser: the canvas editor, the     *)
(* configuration of its nodes, deployment, the design workspace with its   *)
(* dialogs, the shipment of liquidity and the swap form.  They are         *)
(* explored side by side: a behaviour picks a part and takes its steps     *)
(* alone.  The variables v1 .. v16 hold the state of the part picked,      *)
(* under the names its WITH gives them.                                    *)
(***************************************************************************)
EXTENDS Integers, Sequences, FiniteSets, TLC

CONSTANTS X1, X2, Y1, Y2, z1, z2, z3, None

\* Values every part treats alike: TLC may swap them.
X == {X1, X2}
Y == {Y1, Y2}
Alike == Permutations(X) \cup Permutations(Y)

VARIABLES part, v1, v2, v3, v4, v5, v6, v7, v8, v9, v10, v11, v12, v13, v14, v15, v16

DP == INSTANCE StrategyDeploy WITH
     Windows <- X, Names <- Y, MaxAccounts <- 2, MaxDeposit <- 1,
     workflows <- v1, accounts <- v2, flying <- v3, window <- v4
ED == INSTANCE CanvasEditor WITH
     Canvases <- X, MaxEdits <- 1, MaxSaves <- 1,
     rows <- v1, gone <- v2, kept <- v3, tabs <- v4, active <- v5, nodes <- v6, timer <- v7,
     saves <- v8, closing <- v9, adding <- v10, asked <- v11, answer <- v12, signed <- v13,
     orphaned <- v14
LY == INSTANCE CanvasLayout WITH
     Nodes <- X \cup {z1}, Width <- 6, Height <- 2,
     place <- v1, selected <- v2, dragged <- v3
NO == INSTANCE StrategyNodes WITH
     Nodes <- X, Picked <- {"7"}, Typed <- {"7"}, Large <- {"1200"}, Empty <- z1,
     nodes <- v1, links <- v2, panel <- v3, entered <- v4, meant <- v5, deployed <- v6, misread <- v7
WK == INSTANCE Workspace WITH
     Conversations <- {z1, z2}, Mine <- {z1}, Messages <- {z3}, MaxRevision <- 2, MaxKeys <- 2,
     MaxVisits <- 2,
     revision <- v1, turn <- v2, accepted <- v3, flying <- v4, wallet <- v5, connected <- v6,
     selected <- v7, visit <- v8, shown <- v9, listed <- v10, polled <- v11, input <- v12,
     typed <- v13, pending <- v14, keys <- v15, waits <- v16
TR == INSTANCE Trade WITH
     Wallets <- X, Strategies <- {z1}, Hashes <- Y,
     form <- v1, trade <- v2, check <- v3, kept <- v4, sent <- v5, active <- v6, recorded <- v7,
     lost <- v8
MA == INSTANCE MakerActivation WITH
     Windows <- {z1, z2}, Plans <- X, Amounts <- {z3}, Hashes <- Y,
     service <- v1, chain <- v2, saved <- v3, current <- v4, shown <- v5, step <- v6, lost <- v7
DD == INSTANCE DeployDialog WITH
     MaxAccounts <- 2, Clicks <- X, Amounts <- {1, 3}, Rent <- 2, Buffer <- 1,
     screen <- v1, timer <- v2, account <- v3, deploy <- v4, adding <- v5, flags <- v6,
     activating <- v7, stored <- v8, balance <- v9, flying <- v10, stray <- v11
PP == INSTANCE Preparation WITH
     Evidence <- {z1}, MaxRuns <- 1, MaxConsents <- 2, MaxLost <- 1,
     changed <- v1, compiled <- v2, runs <- v3, consents <- v4, subscribed <- v5, bound <- v6,
     shown <- v7, stale <- v8, intent <- v9, retry <- v10, act <- v11, loads <- v12, left <- v13,
     lost <- v14
TD == INSTANCE TemplateDialogs WITH
     Contents <- X, MaxKeys <- 3, MaxLost <- 2,
     dialog <- v1, content <- v2, review <- v3, key <- v4, prepareKey <- v5, withdrawal <- v6,
     busy <- v7, flying <- v8, intents <- v9, made <- v10, withdrawn <- v11, told <- v12,
     forgot <- v13, keys <- v14, lost <- v15

\* What a part of n variables leaves alone: the slots it does not use.
slots == <<v1, v2, v3, v4, v5, v6, v7, v8, v9, v10, v11, v12, v13, v14, v15, v16>>
Rest16 == <<part>>
Rest15 == <<v16, Rest16>>
Rest14 == <<v15, Rest15>>
Rest11 == <<v12, v13, v14, Rest14>>
Rest8 == <<v9, v10, v11, Rest11>>
Rest7 == <<v8, Rest8>>
Rest4 == <<v5, v6, v7, Rest7>>
Rest3 == <<v4, Rest4>>

Unused16 == TRUE
Unused15 == v16 = None /\ Unused16
Unused14 == v15 = None /\ Unused15
Unused11 == v12 = None /\ v13 = None /\ v14 = None /\ Unused14
Unused8 == v9 = None /\ v10 = None /\ v11 = None /\ Unused11
Unused7 == v8 = None /\ Unused8
Unused4 == v5 = None /\ v6 = None /\ v7 = None /\ Unused7
Unused3 == v4 = None /\ Unused4

AllInit ==
  \/ part = "deployment" /\ DP!Init /\ Unused4
  \/ part = "editor" /\ ED!Init /\ Unused14
  \/ part = "layout" /\ LY!Init /\ Unused3
  \/ part = "nodes" /\ NO!Init /\ Unused7
  \/ part = "workspace" /\ WK!Init /\ Unused16
  \/ part = "trade" /\ TR!Init /\ Unused8
  \/ part = "shipment" /\ MA!Init /\ Unused7
  \/ part = "overlay" /\ DD!Init /\ Unused11
  \/ part = "preparation" /\ PP!Init /\ Unused14
  \/ part = "versions" /\ TD!Init /\ Unused15

AllNext ==
  \/ part = "deployment" /\ DP!Next /\ UNCHANGED Rest4
  \/ part = "editor" /\ ED!Next /\ UNCHANGED Rest14
  \/ part = "layout" /\ LY!Next /\ UNCHANGED Rest3
  \/ part = "nodes" /\ NO!Next /\ UNCHANGED Rest7
  \/ part = "workspace" /\ WK!Next /\ UNCHANGED Rest16
  \/ part = "trade" /\ TR!Next /\ UNCHANGED Rest8
  \/ part = "shipment" /\ MA!Next /\ UNCHANGED Rest7
  \/ part = "overlay" /\ DD!Next /\ UNCHANGED Rest11
  \/ part = "preparation" /\ PP!Next /\ UNCHANGED Rest14
  \/ part = "versions" /\ TD!Next /\ UNCHANGED Rest15

all == <<part, slots>>
AllSpec == AllInit /\ [][AllNext]_all

(***************************************************************************)
(* The properties of the parts, each with the types of the parts it is     *)
(* about.                                                                  *)
(***************************************************************************)
\* Money is sent to accounts of a stored strategy only, whatever step of a deployment
\* fails or is closed.
FundedIsStored ==
  /\ part = "deployment" => DP!TypeOK /\ DP!FundedIsStored
  /\ part = "overlay" => DD!TypeOK /\ DD!MoneyIsSafe

\* A closed account is started again only where it was last seen open; the overlay of a
\* deployment leaves by itself only when it was paid; a drag along a row of the canvas
\* leaves the row orderly; the records of a strategy under preparation never go back.
StepsAreSeen ==
  [][/\ part = "deployment" => DP!ReopenedUnseen
     /\ part = "overlay" => DD!LeavesFunded
     /\ part = "preparation" => PP!ShownAdvances
     /\ part = "layout" => LY!TypeOK /\ LY!RowsStayOrderly]_all


\* The page shows the draft of the conversation chosen, and a message is one turn.  A maker
\* signs one consent, and nothing is published or drafted that the dialog has lost sight of.
ShownIsSelected ==
  /\ part = "workspace" => WK!TypeOK /\ WK!ShownIsSelected /\ WK!OneTurnPerMessage
  /\ part = "preparation" => PP!TypeOK /\ PP!OneConsentUnlessLost /\ PP!SubscribedStands
  /\ part = "versions" => TD!TypeOK /\ TD!NothingMadeUnseen /\ TD!ReviewIsOfEntries

\* One transaction of the swap form is under way at a time, and what it reports was mined;
\* a shipment of liquidity is of the plan shown, and is not lost sight of.
TradeIsAccounted ==
  /\ part = "trade" => TR!TypeOK /\ TR!OneOut /\ TR!ReportedIsMined
  /\ part = "shipment" => MA!TypeOK /\ MA!PlanIsItsOwn /\ MA!ShipmentsAreAccounted
=============================================================================
