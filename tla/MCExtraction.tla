---------------------------- MODULE MCExtraction ----------------------------
(* Extraction on small instances.  A retry can be answered with fewer, other *)
(* or refused candidates, with the same text as a guess from another turn,   *)
(* and with what another event stated.                                       *)
(* The dashboard that starts such extractions keeps its previews and keys in *)
(* memory, and shares nothing else with them: it is explored by itself.      *)
EXTENDS Extraction, Workbench, TLC

CONSTANTS t1, t2, x1, x2

User == [turn |-> t1, text |-> x1, provisional |-> FALSE]
Guess == [turn |-> t2, text |-> x1, provisional |-> TRUE]
Other == [turn |-> t1, text |-> x2, provisional |-> FALSE]

AnswerSet == {<<User>>, <<Guess, Other>>, <<Invalid>>}
Symmetry == Permutations(Proc) \cup Permutations(Event)

-----------------------------------------------------------------------------
CONSTANTS a, b, i1, i2

\* The address of a changes, alone or with the route.
SettingsSet == {[route |-> route, identity |-> (a :> i @@ b :> i1)] :
                   route \in {<<a>>, <<b, a>>}, i \in {i1, i2}}

\* One of the states the dashboard may be opened in; the others are reached.
Opened == WorkbenchInit /\ settings.route = <<a>> /\ settings.identity[a] = i1 /\ ~enabled

MCInit == Init /\ Opened

ExtractionSteps == Opened /\ Next /\ UNCHANGED workbenchVars
WorkbenchSteps  == Init /\ WorkbenchNext /\ UNCHANGED vars

MCSpec == MCInit /\ [][ExtractionSteps \/ WorkbenchSteps]_<<vars, workbenchVars>>
=============================================================================
