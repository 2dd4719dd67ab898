------------------------ MODULE MCActiveObject ------------------------
(* A TLC instance of ActiveObject.  The objects are model values.          *)
EXTENDS ActiveObject
=============================================================================
