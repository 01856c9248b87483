------------------------- MODULE MC_ColorTemperature -------------------------
(***************************************************************************)
(* Instantiates ColorTemperature for TLC.  BACNET_MAX_INSTANCE is scaled   *)
(* from 4194303 down to 3, so that instances 1 and 2 fill the valid range  *)
(* and a wildcard create reaches the reserved number within a few steps.   *)
(***************************************************************************)
EXTENDS ColorTemperature, TLC

CONSTANTS N1, N2, NDev, B1, B2, B3

(* A Device object and an object of type OBJECT_COLOR with instance 1    *)
(* share the device's name space with the Color Temperature objects.     *)
MC_Other_Objects ==
    { [type |-> "OBJECT_DEVICE", instance |-> 0, name |-> NDev],
      [type |-> OBJECT_COLOR, instance |-> 1, name |-> N2] }

(* Caller buffers, holding at first: a fresh name, the name the Color     *)
(* object holds, and the default name of instance 2; and NULL.           *)
MC_Name_Args == {B1, B2, B3, NULL}

MC_Initial_Text == (B1 :> N1) @@ (B2 :> N2) @@ (B3 :> Default_Name(2))

(* What the application may later write into a buffer. *)
MC_Buffer_Texts == {N1, N2}

(* 4 is above the range, 3 is the wildcard. *)
MC_Instance_Args == {1, 2, 3, 4}

=============================================================================
