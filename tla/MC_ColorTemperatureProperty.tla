--------------------- MODULE MC_ColorTemperatureProperty ---------------------
(***************************************************************************)
(* Instantiates ColorTemperatureProperty for TLC.  The values are chosen  *)
(* at the edges the code and the codec distinguish: encodings of one,     *)
(* two and three octets, fade times just outside and at the range limits, *)
(* enumerations at and past their _MAX, a truncated and a wrong-type      *)
(* WriteProperty value, and array indices ALL and 1.                      *)
(***************************************************************************)
EXTENDS ColorTemperatureProperty

CONSTANTS CMD1, DESC1, CB1, G1

MC_Unsigned_Args == {70000}
MC_Fade_Time_Args == {99, 100}
MC_In_Progress_Args == {2, 5}
MC_Transition_Args == {1, 3}
MC_Command_Args == {CMD1, NULL}
MC_Description_Args == {DESC1, NULL}
MC_Callback_Args == {CB1, NULL}
MC_Garbage == {G1}

(* A ReadProperty-ACK in an APDU of MAX_APDU = 1476 octets leaves 1464   *)
(* for the value after its 12 octets of header (service header 3, object *)
(* identifier 5, property identifier 2, opening and closing tag); 0 is a *)
(* request without a buffer.                                              *)
MC_Application_Data_Len_Args == {0, 1464}

(* A description and an uninitialized name of ordinary length. *)
MC_Text_Octets == (DESC1 :> 20) @@ (G1 :> 25)

(* The same with the longest description characterstring_init_ansi      *)
(* copies, MAX_CHARACTER_STRING_BYTES = MAX_APDU - 6 = 1470 characters.   *)
MC_Text_Octets_Long == (DESC1 :> 1470) @@ (G1 :> 25)

(* All read switch cases (the lists), one unlisted property and one      *)
(* array property.                                                        *)
MC_Property_Args ==
    Properties_Required \cup Properties_Optional \cup
    {"PROP_STATUS_FLAGS", "PROP_PRIORITY_ARRAY"}

(* One property of each case of the write switch: the present value,   *)
(* a read-only identity property, a listed property the switch does not *)
(* name, an unlisted property and an array property.                    *)
MC_Write_Property_Args ==
    {"PROP_PRESENT_VALUE", "PROP_OBJECT_NAME", "PROP_TRACKING_VALUE",
     "PROP_STATUS_FLAGS", "PROP_PRIORITY_ARRAY"}

MC_Array_Index_Args == {BACNET_ARRAY_ALL, 1}

(* Unsigned 70000 (three octets), enumerated 1, and an unsigned whose    *)
(* header claims two octets of which one is present.                     *)
MC_Write_Apdu_Args ==
    { encode_application_unsigned(70000),
      encode_application_enumerated(1),
      <<34, 15>> }

(* The same, and unsigned 70000 followed by a second value the handler   *)
(* does not look at.                                                      *)
MC_Write_Apdu_Args_Trailing ==
    MC_Write_Apdu_Args \cup
    { encode_application_unsigned(70000) \o encode_application_unsigned(5) }

=============================================================================
