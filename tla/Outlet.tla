------------------------------- MODULE Outlet -------------------------------
(***************************************************************************)
(* The room and the outlet: sahl-core's Floor, and the settings an outlet  *)
(* trades under.                                                           *)
(***************************************************************************)
EXTENDS Integers, FiniteSets, FiniteSetsExt, TLC

FloorKind == {"TableAdded", "TableUpdated", "TableRemoved", "TableRestored"}

MaxSeats == 30
Tables(floor) == DOMAIN floor
InService(floor) == {t \in Tables(floor) : floor[t].active}

ValidTable(details) == details.seats \in 1 .. MaxSeats

\* No other table in service answers to the label in that section.
LabelFree(floor, id, details) ==
    \A other \in InService(floor) \ {id} :
        floor[other].section # details.section \/ floor[other].label # details.label

FloorAccepts(floor, e) ==
    IF e.kind \in {"TableAdded", "TableUpdated"}
    THEN /\ (e.kind = "TableAdded") # (e.id \in Tables(floor))
         /\ ValidTable(e.data)
         /\ LabelFree(floor, e.id, e.data)
    ELSE e.id \in Tables(floor)

TableOf(details, active) ==
    [label |-> details.label, section |-> details.section, seats |-> details.seats,
     active |-> active]

\* A table comes back under its old label, free or not.
FloorApply(floor, e) ==
    CASE e.kind = "TableAdded" ->
           [id \in Tables(floor) \cup {e.id} |->
              IF id = e.id THEN TableOf(e.data, TRUE) ELSE floor[id]]
      [] e.kind = "TableUpdated" -> [floor EXCEPT ![e.id] = TableOf(e.data, floor[e.id].active)]
      [] e.kind = "TableRemoved" -> [floor EXCEPT ![e.id].active = FALSE]
      [] e.kind = "TableRestored" -> [floor EXCEPT ![e.id].active = TRUE]


-----------------------------------------------------------------------------
(***************************************************************************)
(* Settings.                                                               *)
(***************************************************************************)

OutletKind == {"Configured"}
FiscalRegime == {"none", "bd_mushak", "zatca"}
NeedsRegistration(regime) == regime \in {"bd_mushak", "zatca"}


Unconfigured == [regime |-> "unset", registered |-> FALSE]

\* No till trades without the number its regime prints on every invoice.
ValidSettings(settings) == NeedsRegistration(settings.regime) => settings.registered

\* Settings replace the ones before; bad ones are passed over.
OutletApply(outlet, e) == IF ValidSettings(e.data) THEN e.data ELSE outlet
=============================================================================
