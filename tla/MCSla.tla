-------------------------------- MODULE MCSla --------------------------------
EXTENDS Sla, TLC

\* Days of four minutes: a calendar is given by its weekdays' windows.
Window(start, end) == [start |-> start, end |-> end]
Weekly(days, holidays) == [weekly |-> days, holidays |-> holidays]

Office == Weekly([d \in 0..1 |-> {Window(1, 3)}], {})

\* Plain ones, one that runs past midnight, and a full day.
Spans == {Window(0, 1), Window(1, 3), Window(2, 3), Window(3, 1), Window(0, 4)}

MCCalendars ==
  {Weekly([d \in 0..2 |-> CASE d = 0 -> first [] d = 1 -> second [] OTHER -> {Window(1, 2)}], holidays) :
     first, second \in {s \in SUBSET Spans : Cardinality(s) <= 2}, holidays \in {{}, {1}, {2, 3}}}

Targets(first, next, resolution) ==
  "first_response" :> first @@ "next_response" :> next @@ "resolution" :> resolution

MCPolicies == {Targets(None, 2, 2)}
===============================================================================
