------------------------------ MODULE MCConv2D ------------------------------
(* Model-checking instances of Conv2D.                                     *)
EXTENDS Conv2D

(* Input extents 2 and 3, filters 1 and 2: windows that do and do not    *)
(* cover the whole input, and a 1-wide filter that broadcasts.           *)
MCSizes == {2, 3}
MCKSizes == {1, 2}
MCStrides == {1, 2}
(* Pads 0 and 1: asymmetric frames tell the four pads apart. *)
MCPads == {0, 1}
MCDilOne == {1}
MCDilTwo == {1, 2}
=============================================================================
