---------------------- MODULE MC_ColorTemperatureDevice ----------------------
(***************************************************************************)
(* Instantiates ColorTemperatureDevice for TLC.  The table is scaled as in *)
(* MC_ColorTemperature (BACNET_MAX_INSTANCE = 3); the tracked object is    *)
(* instance 1, which Create(1) or a wildcard Create(3) can add.  Requests  *)
(* read the object's name, identifier and present value, and write the    *)
(* present value with an unsigned (accepted type) or an enumerated value. *)
(***************************************************************************)
EXTENDS ColorTemperatureDevice, BACnetCodec, TLC

CONSTANTS N1, N2, NDev, B1, B2, CB1, G1

(* A Device object and an object of type OBJECT_COLOR with instance 1    *)
(* share the device's name space.                                        *)
MC_Other_Objects ==
    { [type |-> "OBJECT_DEVICE", instance |-> 0, name |-> NDev],
      [type |-> "OBJECT_COLOR", instance |-> 1, name |-> N2] }

MC_Name_Args == {B1, B2, NULL}
MC_Initial_Text == (B1 :> N1) @@ (B2 :> N2)
MC_Buffer_Texts == {N1, N2}

(* 1 is the tracked object, 2 another, 3 the wildcard, 4 out of range. *)
MC_Instance_Args == {1, 2, 3, 4}

MC_Unsigned_Args == {4000}
MC_Callback_Args == {CB1, NULL}
MC_Garbage == {G1}
MC_Property_Args ==
    {"PROP_OBJECT_NAME", "PROP_OBJECT_IDENTIFIER", "PROP_PRESENT_VALUE"}
MC_Write_Property_Args == {"PROP_PRESENT_VALUE", "PROP_OBJECT_NAME"}
MC_Array_Index_Args == {BACNET_ARRAY_ALL}
MC_Write_Apdu_Args ==
    { encode_application_unsigned(70000),
      encode_application_enumerated(1) }

(* Requests bring a value buffer of 1464 octets (a 1476-octet APDU less *)
(* the ReadProperty-ACK header); the texts are names of ordinary length. *)
MC_Application_Data_Len_Args == {1464}
MC_Text_Octets == [t \in {N1, N2, NDev, G1} |-> 8]

(* The setters these would feed are not called in this composition. *)
MC_Unused_Args == {0}
MC_Unused_Pointers == {NULL}

=============================================================================
