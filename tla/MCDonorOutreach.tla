-------------------------- MODULE MCDonorOutreach --------------------------
(* DonorOutreach for TLC; the constants are given in the configurations.    *)
EXTENDS DonorOutreach
=============================================================================
