-------------------------------- MODULE MCPipe --------------------------------
(* The constants are numbers, given in the .cfg files: segments of two     *)
(* bytes, of three when the hint asks for more, so that four bytes fill,   *)
(* split, replace and reuse segments.                                      *)
EXTENDS Pipe
=============================================================================
