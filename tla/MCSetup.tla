------------------------------ MODULE MCSetup -------------------------------
(***************************************************************************)
(* Setup for TLC: all files of at most five characters, and files of two   *)
(* lines of three characters, so that keys repeat.  The widths are those of*)
(* a machine with 7-bit long, 5-bit int and 3-bit ports.                   *)
(***************************************************************************)
EXTENDS Setup, TLC

Letters == {"a", "b", "=", " "}
ThreeLetters == [1..3 -> Letters]
MCTexts ==
  UNION {[1..k -> Letters \cup {"\n"}] : k \in 0..5}
    \cup {l \o <<"\n">> \o m : l \in ThreeLetters, m \in ThreeLetters}
MCPrinted == {-1, 0, 1, 3, 4, 9, 10, 11}
MCValues == {-65, -64, -17, -16, -1, 0, 1, 7, 8, 15, 16, 31, 32, 33, 63, 64}
=============================================================================
