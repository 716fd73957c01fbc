-------------------------------- MODULE Table --------------------------------
(***************************************************************************)
(* What the components that only read the heroes have in common: the       *)
(* table, row i with id i.                                                 *)
(***************************************************************************)
CONSTANTS
    Null,
    Levels,     \* power levels
    MaxRows     \* bound on the rows inserted

VARIABLE rows

=============================================================================
