---------------------------- MODULE MCDataTable ----------------------------
(* Instances of DataTable for TLC. *)
EXTENDS DataTable

Mixed == <<"uint8", "double", "string">>
=============================================================================
