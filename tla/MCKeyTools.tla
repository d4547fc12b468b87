----------------------------- MODULE MCKeyTools -----------------------------
(* The lines that KeyTools' wizard is given. *)
EXTENDS KeyTools

\* The system's record, which may be given for an area or a service as well, one
\* of another system and one whose key does not parse.
MCRecord ==
  {[system_code |-> 3, node |-> "FFFF", valid |-> TRUE],
   [system_code |-> 254, node |-> "0000", valid |-> TRUE],
   [system_code |-> 3, node |-> "0000", valid |-> FALSE]}
=============================================================================
