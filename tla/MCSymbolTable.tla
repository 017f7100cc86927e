------------------------------ MODULE MCSymbolTable ------------------------------
(* Instance of SymbolTable for TLC: three names, at most three open scopes, and
   counters of six values, so that they overflow within the explored depth. *)
EXTENDS SymbolTable

MCNames == {"x", "y", "f"}
MCArities == {1}
MCUninit == {0}
=============================================================================
