------------------------------ MODULE MCTtyReader ------------------------------
(***************************************************************************)
(* TtyReader with one unit of every form the parser tells apart.  The read *)
(* buffer is smaller than a paste and not a divisor of any unit.           *)
(***************************************************************************)
EXTENDS TtyReader

Unit(raw, kinds) == [raw |-> raw, kinds |-> kinds]

\* Keys without a sequence, sequences of each introducer, and characters.
MCKeys ==
    { Unit(<<"x">>, <<Kind("x")>>),
      Unit(<<"esc">>, <<Kind("Escape")>>),
      Unit(<<"esc", "[">>, <<Unknown>>),
      Unit(<<"esc", "del">>, <<Alt(Kind("Backspace"))>>),
      Unit(<<"esc", "cr">>, <<Alt(Kind("Control"))>>),
      Unit(<<"esc", "[", "A">>, <<Kind("Arrow")>>),
      Unit(<<"esc", "O", "P">>, <<Kind("Function")>>),
      Unit(<<"esc", "[", "1", ";", "3", "A">>, <<Alt(Kind("Arrow"))>>),
      Unit(<<"lead3", "cont", "cont">>, <<Kind("Char")>>) }

\* Mouse reports and pastes that contain an escape, a broken character
\* before a key, and a report without enough numbers.
MCReports ==
    { Unit(<<"esc", "[", "M", "x", "esc", "A">>, <<Kind("Mouse")>>),
      Unit(<<"esc", "[", "<", "1", ";", "3", ";", "3", "m">>, <<Kind("Mouse")>>),
      Unit(<<"esc", "[", "<", "1", "M">>, <<Unknown>>),
      Unit(<<"esc", "[", "200", "~", "esc", "[", "A", "esc", "[", "201", "~">>,
           <<Kind("Paste")>>),
      Unit(<<"esc", "[", "15", "~">>, <<Kind("Function")>>),
      Unit(<<"lead2", "esc", "[", "A">>, <<Unknown, Kind("Arrow")>>) }

MCUnits == MCKeys \cup MCReports
=============================================================================
