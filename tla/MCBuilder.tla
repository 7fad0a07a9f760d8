------------------------------ MODULE MCBuilder -------------------------------
(* A small instance of Builder for TLC.                                    *)
EXTENDS Builder
=============================================================================
