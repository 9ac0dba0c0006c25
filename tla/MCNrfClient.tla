----------------------------- MODULE MCNrfClient ------------------------------
(* The instances of NrfClient for TLC. *)
EXTENDS NrfClient

\* The instance is in the .cfg files: interval, supervision and delays in the
\* proportion of the code's 10 s, 50 s and short calls.
===============================================================================
