----------------------------- MODULE MCLifespan -----------------------------
(* Instances of Lifespan small enough for TLC.                             *)
EXTENDS Lifespan

=============================================================================
