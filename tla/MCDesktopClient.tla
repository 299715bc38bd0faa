-------------------------- MODULE MCDesktopClient --------------------------
(* Instances of DesktopClient for TLC: two or three callers, of which one   *)
(* may be the window's poll while the user clicks, and two ports.           *)
EXTENDS DesktopClient

CONSTANTS u1, u2, u3
TwoCallers == {u1, u2}
ThreeCallers == {u1, u2, u3}
=============================================================================
