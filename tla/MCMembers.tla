------------------------------ MODULE MCMembers -------------------------------
(* A small instance of Members for TLC.                                    *)
EXTENDS Members
=============================================================================
