----------------------------- MODULE MCElection -----------------------------
(* An instance of Election for TLC.                                        *)
EXTENDS Election

CONSTANTS s1, s2, s3
=============================================================================
