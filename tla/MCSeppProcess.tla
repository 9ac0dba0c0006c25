---------------------------- MODULE MCSeppProcess -----------------------------
(* The instances of SeppProcess for TLC. *)
EXTENDS SeppProcess

\* Two signals: the least that make two handlers meet.
===============================================================================
