---------------------------- MODULE MCEmailOtp ----------------------------
(* EmailOtp for TLC: requests, emails and residents are interchangeable. *)
EXTENDS EmailOtp, TLC

Symmetry ==
  Permutations(Request) \cup Permutations(Email) \cup Permutations(Resident)
=============================================================================
