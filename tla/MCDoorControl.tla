--------------------------- MODULE MCDoorControl ----------------------------
(***************************************************************************)
(* Instances of DoorControl: a day with "always open" hours, then "always  *)
(* closed" ones, and an hour without schedule after either.                *)
(***************************************************************************)
EXTENDS DoorControl

MCOpenHours == {1, 2, 3}
MCClosedHours == {5, 6}

\* A denied access closes the door, a granted one opens it.
MCActions ==
    <<[on |-> "DENIED", target |-> "door", cmd |-> Cmd("OFF", None)],
      [on |-> "GRANTED", target |-> "door", cmd |-> Cmd("ON", 2)]>>
=============================================================================
