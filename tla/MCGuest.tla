------------------------------- MODULE MCGuest -------------------------------
(* Guest for TLC: bounds are given in the configurations.                    *)
EXTENDS Guest
=============================================================================
