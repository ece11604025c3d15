------------------------------ MODULE MCV3Echo ------------------------------
(* An instance of V3Echo.  64 KB are 2 units here and 100 KB are 3: as in the *)
(* code, the length of the buffer does not fit in a uint16_t.               *)
EXTENDS V3Echo
=============================================================================
