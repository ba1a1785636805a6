----------------------------- MODULE MCPrinters -----------------------------
(* Three threads and a string of two characters: what a thread does depends *)
(* on where the index is relative to the end, which all reach.              *)
EXTENDS StringPrinters
=============================================================================
