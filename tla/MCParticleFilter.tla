-------------------------- MODULE MCParticleFilter --------------------------
(* ParticleFilter with a few particles and two iterations.                 *)
EXTENDS ParticleFilter
=============================================================================
