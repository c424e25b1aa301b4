------------------------------ MODULE MCLights ------------------------------
(* An instance of Lights.  Its model values are in the configuration.      *)
EXTENDS Lights
=============================================================================
