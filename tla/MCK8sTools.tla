----------------------------- MODULE MCK8sTools -----------------------------
(* Instances of K8sTools for TLC; the .cfg files give the constants. *)
EXTENDS K8sTools
=============================================================================
