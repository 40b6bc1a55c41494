------------------------------ MODULE BackendNames ------------------------------
(***************************************************************************)
(* The names every other module speaks of.                                 *)
(***************************************************************************)
CONSTANTS
    Backends,   \* names of backends
    NoName      \* an absent name: Option::None, or the empty string

ASSUME NoNameAssumption == NoName \notin Backends

Option(S) == S \cup {NoName}
=============================================================================
