------------------------------- MODULE MCSVMX -------------------------------
(* Images around the size of their header, with up to two exports.          *)
EXTENDS SVMX

MCImages == [valid : BOOLEAN, size : 48 .. 64, offset : 40 .. 66, exports : {0, 8, 12, 16}]
=============================================================================
