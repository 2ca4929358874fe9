------------------------------- MODULE MCUpdate -------------------------------
(* Update for TLC: 1.9, then 1.10 and 2, whose order plain text or a first     *)
(* larger component gets wrong, with an unusable release between them.         *)
EXTENDS Update

MCReleases == <<<<1, 9>>, <<1, 10>>, <<1, 11>>, <<2>>>>
=============================================================================
