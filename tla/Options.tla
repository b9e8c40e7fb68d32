------------------------------ MODULE Options -------------------------------
(***************************************************************************)
(* The value of an option that isn't set: a limit the config leaves null,  *)
(* a wait no server asked for.                                             *)
(***************************************************************************)
LOCAL INSTANCE Naturals

CONSTANT None

ASSUME NoneAssumption == None \notin Nat
=============================================================================
