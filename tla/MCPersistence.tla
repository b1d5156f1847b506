---------------------------- MODULE MCPersistence ----------------------------
(* An instance of Persistence: one setting and the motor hours, with two     *)
(* values each.                                                              *)
EXTENDS Persistence

\* A new controller; one whose older firmware left entries under positions;
\* one whose migration was cut short before the erasure.
MCFlashes ==
  { [nvs |-> <<Absent, Absent>>, legacy |-> <<Absent, Absent>>],
    [nvs |-> <<Absent, Absent>>, legacy |-> <<1, 1>>],
    [nvs |-> <<0, Absent>>, legacy |-> <<1, Absent>>] }
=============================================================================
