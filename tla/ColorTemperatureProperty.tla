----------------------- MODULE ColorTemperatureProperty -----------------------
(***************************************************************************)
(* The property data of one Color Temperature object and the calls that   *)
(* read and change it (src/src/bacnet/basic/object/color_temperature.c):  *)
(* the local setters, the write-enable flag, the present-value write       *)
(* callback, and the ReadProperty and WriteProperty handlers, which reach  *)
(* the tag codec (BACnetCodec) to encode replies and decode written data.  *)
(*                                                                         *)
(* The object is the node data of instance Object_Instance: either absent  *)
(* or as Color_Temperature_Create left it.  Creation, deletion and names   *)
(* are modelled in ColorTemperature, which supplies the text the object-  *)
(* name call loads when the two are composed (ColorTemperatureDevice);    *)
(* alone, the object reads its default name.  The Changed bit is never    *)
(* written after Create and is left out.                                   *)
(***************************************************************************)
EXTENDS Integers, Sequences, FiniteSets, TLC, BACnetCodec

CONSTANTS
    Object_Instance,           (* the object's instance number             *)
    BACNET_ARRAY_ALL,          (* the "whole property" index, ~0U          *)
    NULL,                      (* a NULL pointer                           *)
    BACNET_COLOR_OPERATION_IN_PROGRESS_MAX,
    BACNET_COLOR_TRANSITION_MAX,
    BACNET_COLOR_FADE_TIME_MIN,
    BACNET_COLOR_FADE_TIME_MAX,
    Unsigned_Args,             (* uint32 values passed to the setters      *)
    Fade_Time_Args,            (* values passed to Default_Fade_Time_Set    *)
    In_Progress_Args,          (* values passed to In_Progress_Set          *)
    Transition_Args,           (* values passed to Transition_Set           *)
    Command_Args,              (* BACnetColorCommand values, and NULL       *)
    Description_Args,          (* description strings, and NULL             *)
    Callback_Args,             (* callbacks an application registers, NULL *)
    Property_Args,             (* property identifiers read                 *)
    Write_Property_Args,       (* property identifiers written              *)
    Array_Index_Args,          (* array indices requested                   *)
    Write_Apdu_Args,           (* encoded values a WriteProperty carries    *)
    Application_Data_Len_Args, (* rpdata->application_data_len of reads    *)
    Text_Octets,               (* the length in characters of each text     *)
    Garbage                    (* contents of an uninitialized string       *)

OBJECT_COLOR_TEMPERATURE == 64
COLOR_OPERATION_NONE == "BACNET_COLOR_OPERATION_NONE"

(* The property lists Color_Temperature_Property_Lists returns. *)
Properties_Required ==
    {"PROP_OBJECT_IDENTIFIER", "PROP_OBJECT_NAME", "PROP_OBJECT_TYPE",
     "PROP_PRESENT_VALUE", "PROP_TRACKING_VALUE", "PROP_COLOR_COMMAND",
     "PROP_IN_PROGRESS", "PROP_DEFAULT_COLOR_TEMPERATURE",
     "PROP_DEFAULT_FADE_TIME", "PROP_DEFAULT_RAMP_RATE",
     "PROP_DEFAULT_STEP_INCREMENT"}
Properties_Optional ==
    {"PROP_DESCRIPTION", "PROP_TRANSITION", "PROP_MIN_PRES_VALUE",
     "PROP_MAX_PRES_VALUE"}
Properties_Proprietary == {}

(* Color_Temperature_Property_Lists: required, optional, proprietary. *)
Color_Temperature_Property_Lists ==
    <<Properties_Required, Properties_Optional, Properties_Proprietary>>

(* The only properties that may carry an array index. *)
Array_Properties == {"PROP_PRIORITY_ARRAY", "PROP_EVENT_TIME_STAMPS"}

VARIABLES
    obj,        (* the object's data, or NULL when the instance is absent *)
    callback,   (* Color_Temperature_Write_Present_Value_Callback         *)
    notified,   (* the last <<instance, old, new>> the callback was given *)
    reply       (* the call just made and what it returned                *)

vars == <<obj, callback, notified, reply>>

(* The state the next call depends on: reply only records the last one. *)
state_view == <<obj, callback, notified>>

(* The data Color_Temperature_Create gives a new object. *)
Created ==
    [Write_Enabled |-> FALSE, Present_Value |-> 0, Tracking_Value |-> 0,
     Color_Command |-> COLOR_OPERATION_NONE, In_Progress |-> 0,
     Default_Color_Temperature |-> 5000, Default_Fade_Time |-> 0,
     Default_Ramp_Rate |-> 0, Default_Step_Increment |-> 0,
     Transition |-> 0, Present_Value_Minimum |-> 0,
     Present_Value_Maximum |-> 0, Description |-> NULL]

Init ==
    /\ obj \in {NULL, Created}
    /\ callback = NULL
    /\ notified = NULL
    /\ reply = [call |-> "none"]

-----------------------------------------------------------------------------
(* Local API: the getters return 0 (or a fixed default) when the object  *)
(* is absent; every setter returns FALSE when it is absent.              *)

Get(field, absent) == IF obj = NULL THEN absent ELSE obj[field]

Color_Temperature_Present_Value == Get("Present_Value", 0)
Color_Temperature_Tracking_Value == Get("Tracking_Value", 0)
Color_Temperature_Min_Pres_Value == Get("Present_Value_Minimum", 0)
Color_Temperature_Max_Pres_Value == Get("Present_Value_Maximum", 0)
Color_Temperature_In_Progress ==
    Get("In_Progress", BACNET_COLOR_OPERATION_IN_PROGRESS_MAX)
Color_Temperature_Default_Color_Temperature ==
    Get("Default_Color_Temperature", 0)
Color_Temperature_Default_Fade_Time == Get("Default_Fade_Time", 0)
Color_Temperature_Default_Ramp_Rate == Get("Default_Ramp_Rate", 0)
Color_Temperature_Default_Step_Increment == Get("Default_Step_Increment", 0)
Color_Temperature_Transition == Get("Transition", 0)
Color_Temperature_Write_Enabled == Get("Write_Enabled", FALSE)

(* Color_Temperature_Command: NULL stands for the call returning false. *)
Color_Temperature_Command == Get("Color_Command", NULL)

(* Color_Temperature_Description: NULL when the object is absent, the    *)
(* empty string when it has no description.                              *)
Color_Temperature_Description ==
    IF obj = NULL THEN NULL
    ELSE IF obj.Description = NULL THEN "" ELSE obj.Description

(* A setter of field with no range check. *)
Field_Set(call, field, value) ==
    /\ obj' = IF obj = NULL THEN NULL ELSE [obj EXCEPT ![field] = value]
    /\ reply' = [call |-> call, arg |-> value, value |-> obj # NULL]
    /\ UNCHANGED <<callback, notified>>

Color_Temperature_Present_Value_Set(v) ==
    Field_Set("Present_Value_Set", "Present_Value", v)
Color_Temperature_Tracking_Value_Set(v) ==
    Field_Set("Tracking_Value_Set", "Tracking_Value", v)
Color_Temperature_Min_Pres_Value_Set(v) ==
    Field_Set("Min_Pres_Value_Set", "Present_Value_Minimum", v)
Color_Temperature_Max_Pres_Value_Set(v) ==
    Field_Set("Max_Pres_Value_Set", "Present_Value_Maximum", v)
Color_Temperature_Default_Color_Temperature_Set(v) ==
    Field_Set("Default_Color_Temperature_Set", "Default_Color_Temperature", v)
Color_Temperature_Default_Ramp_Rate_Set(v) ==
    Field_Set("Default_Ramp_Rate_Set", "Default_Ramp_Rate", v)
Color_Temperature_Default_Step_Increment_Set(v) ==
    Field_Set("Default_Step_Increment_Set", "Default_Step_Increment", v)

(* Command_Set and Description_Set also refuse a NULL argument. *)
Color_Temperature_Command_Set(value) ==
    IF value = NULL
    THEN /\ reply' = [call |-> "Command_Set", arg |-> value, value |-> FALSE]
         /\ UNCHANGED <<obj, callback, notified>>
    ELSE Field_Set("Command_Set", "Color_Command", value)

Color_Temperature_Description_Set(new_name) ==
    IF new_name = NULL
    THEN /\ reply' = [call |-> "Description_Set", arg |-> new_name,
                      value |-> FALSE]
         /\ UNCHANGED <<obj, callback, notified>>
    ELSE Field_Set("Description_Set", "Description", new_name)

(* A setter that stores, and returns TRUE, only when ok holds. *)
Checked_Set(call, field, value, ok) ==
    /\ obj' = IF obj # NULL /\ ok THEN [obj EXCEPT ![field] = value] ELSE obj
    /\ reply' = [call |-> call, arg |-> value, value |-> obj # NULL /\ ok]
    /\ UNCHANGED <<callback, notified>>

Color_Temperature_In_Progress_Set_Off_By_One(value) ==
    Checked_Set("In_Progress_Set", "In_Progress", value,
                value <= BACNET_COLOR_OPERATION_IN_PROGRESS_MAX)

Color_Temperature_In_Progress_Set(value) ==
    Checked_Set("In_Progress_Set", "In_Progress", value,
                value < BACNET_COLOR_OPERATION_IN_PROGRESS_MAX)

Color_Temperature_Transition_Set(value) ==
    Checked_Set("Transition_Set", "Transition", value,
                value < BACNET_COLOR_TRANSITION_MAX)

(* Default_Fade_Time_Set stores 0 or an in-range value, but returns TRUE *)
(* for any value once the object exists.                                 *)
Color_Temperature_Default_Fade_Time_Set(value) ==
    LET in_range == value = 0 \/ (value >= BACNET_COLOR_FADE_TIME_MIN /\
                                  value <= BACNET_COLOR_FADE_TIME_MAX)
    IN  /\ obj' = IF obj # NULL /\ in_range
                  THEN [obj EXCEPT !.Default_Fade_Time = value] ELSE obj
        /\ reply' = [call |-> "Default_Fade_Time_Set", arg |-> value,
                     value |-> obj # NULL]
        /\ UNCHANGED <<callback, notified>>

Write_Flag(call, flag) ==
    /\ obj' = IF obj = NULL THEN NULL ELSE [obj EXCEPT !.Write_Enabled = flag]
    /\ reply' = [call |-> call]
    /\ UNCHANGED <<callback, notified>>

Color_Temperature_Write_Enable == Write_Flag("Write_Enable", TRUE)
Color_Temperature_Write_Disable == Write_Flag("Write_Disable", FALSE)

Color_Temperature_Write_Present_Value_Callback_Set(cb) ==
    /\ callback' = cb
    /\ reply' = [call |-> "Callback_Set"]
    /\ UNCHANGED <<obj, notified>>

-----------------------------------------------------------------------------
(* ReadProperty and WriteProperty handlers. *)

ERROR_PROPERTY == "ERROR_CLASS_PROPERTY"
ERROR_OBJECT == "ERROR_CLASS_OBJECT"
BACNET_STATUS_ERROR == -1

(* The text Color_Temperature_Object_Name loads while Object_Name is NULL. *)
Default_Name == <<"COLOR-TEMPERATURE-", Object_Instance>>

(* The texts the object-name call may load here: the default name, or   *)
(* for an absent instance whatever the uninitialized buffer held.       *)
Object_Name_Texts == IF obj = NULL THEN Garbage ELSE {Default_Name}

(* "only array properties can have array options": the index is legal   *)
(* for an array property or when it asks for the whole property.         *)
Property_Array_Ok_Dropped(prop, array_index) == TRUE

Property_Array_Ok(prop, array_index) ==
    prop \in Array_Properties \/ array_index = BACNET_ARRAY_ALL

(* The properties Color_Temperature_Read_Property's switch encodes, and  *)
(* the encoding of each; name_text is what the object-name call loaded.  *)
Read_Cases == Properties_Required \cup Properties_Optional

Read_Encoding(prop, name_text) ==
    CASE prop = "PROP_OBJECT_IDENTIFIER" ->
            encode_application_object_id(OBJECT_COLOR_TEMPERATURE,
                                         Object_Instance)
      [] prop = "PROP_OBJECT_NAME" ->
            encode_application_character_string(name_text)
      [] prop = "PROP_OBJECT_TYPE" ->
            encode_application_enumerated(OBJECT_COLOR_TEMPERATURE)
      [] prop = "PROP_PRESENT_VALUE" ->
            encode_application_unsigned(Color_Temperature_Present_Value)
      [] prop = "PROP_MIN_PRES_VALUE" ->
            encode_application_unsigned(Color_Temperature_Min_Pres_Value)
      [] prop = "PROP_MAX_PRES_VALUE" ->
            encode_application_unsigned(Color_Temperature_Max_Pres_Value)
      [] prop = "PROP_TRACKING_VALUE" ->
            encode_application_unsigned(Color_Temperature_Tracking_Value)
      [] prop = "PROP_COLOR_COMMAND" ->
            (* nothing is encoded when Color_Temperature_Command fails *)
            IF Color_Temperature_Command = NULL THEN <<>>
            ELSE <<"BACnetColorCommand", Color_Temperature_Command>>
      [] prop = "PROP_IN_PROGRESS" ->
            encode_application_enumerated(Color_Temperature_In_Progress)
      [] prop = "PROP_DEFAULT_COLOR_TEMPERATURE" ->
            encode_application_unsigned(
                Color_Temperature_Default_Color_Temperature)
      [] prop = "PROP_DEFAULT_FADE_TIME" ->
            encode_application_unsigned(Color_Temperature_Default_Fade_Time)
      [] prop = "PROP_DEFAULT_RAMP_RATE" ->
            encode_application_unsigned(Color_Temperature_Default_Ramp_Rate)
      [] prop = "PROP_DEFAULT_STEP_INCREMENT" ->
            encode_application_unsigned(
                Color_Temperature_Default_Step_Increment)
      [] prop = "PROP_TRANSITION" ->
            encode_application_enumerated(Color_Temperature_Transition)
      [] prop = "PROP_DESCRIPTION" ->
            (* characterstring_init_ansi of NULL gives the empty string *)
            encode_application_character_string(
                IF Color_Temperature_Description = NULL THEN ""
                ELSE Color_Temperature_Description)

(* The number of decimal digits of an instance number (at most 7 below  *)
(* BACNET_MAX_INSTANCE, so name_text[26] holds the default name).       *)
Decimal_Digits(n) == CHOOSE d \in 1 .. 7 : n < 10 ^ d /\ (d = 1 \/ n >= 10 ^ (d - 1))

(* The characters characterstring_init_ansi copies from a text: the    *)
(* snprintf'd default name, or a text of the application or the table.  *)
Text_Length(text) ==
    IF text \in DOMAIN Text_Octets THEN Text_Octets[text]
    ELSE 18 + Decimal_Digits(text[2])    (* strlen("COLOR-TEMPERATURE-") *)

(* The octets encode_application_character_string writes for n          *)
(* characters: the tag (length n + 1, extended above 4), the character-  *)
(* set octet and the characters.                                          *)
Character_String_Octets(n) ==
    Len(Encode_Tag(TAG_CHARACTER_STRING, FALSE, n + 1)) + 1 + n

(* apdu_len, the octets Read_Property's switch writes into the buffer.   *)
(* Other encodings are measured as the codec writes them (the colour     *)
(* command's is abstract and short).                                      *)
Read_Length(prop, name_text) ==
    CASE prop = "PROP_OBJECT_NAME" ->
            Character_String_Octets(Text_Length(name_text))
      [] prop = "PROP_DESCRIPTION" ->
            Character_String_Octets(
                IF Color_Temperature_Description \in {NULL, ""} THEN 0
                ELSE Text_Length(Color_Temperature_Description))
      [] OTHER -> Len(Read_Encoding(prop, name_text))

(* Color_Temperature_Read_Property.  application_data_len is 0 when the *)
(* request comes without an application buffer (the call returns 0);   *)
(* otherwise it is never compared with what the switch encodes.         *)
(* name_choices are the texts Color_Temperature_Object_Name may leave in *)
(* char_string for this instance.                                        *)
Color_Temperature_Read_Property(prop, array_index, application_data_len, name_choices) ==
    LET Reply(ok, apdu, len, error) ==
            reply' = [call |-> "Read_Property", prop |-> prop,
                      index |-> array_index, ok |-> ok, apdu |-> apdu,
                      size |-> application_data_len, len |-> len,
                      error |-> error]
        buffer_ok == application_data_len # 0
    IN
    /\ \/ /\ ~buffer_ok
          /\ Reply(FALSE, <<>>, 0, NULL)
       \/ /\ buffer_ok /\ prop \notin Read_Cases
          /\ Reply(FALSE, <<>>, BACNET_STATUS_ERROR,
                   <<ERROR_PROPERTY, "ERROR_CODE_UNKNOWN_PROPERTY">>)
       \/ /\ buffer_ok /\ prop \in Read_Cases
          /\ ~Property_Array_Ok(prop, array_index)
          /\ Reply(FALSE, <<>>, BACNET_STATUS_ERROR,
                   <<ERROR_PROPERTY, "ERROR_CODE_PROPERTY_IS_NOT_AN_ARRAY">>)
       \/ /\ buffer_ok /\ prop \in Read_Cases
          /\ Property_Array_Ok(prop, array_index)
          /\ \E name_text \in name_choices :
                Reply(TRUE, Read_Encoding(prop, name_text),
                      Read_Length(prop, name_text), NULL)
    /\ UNCHANGED <<obj, callback, notified>>

(* The outcome of a WriteProperty request: TRUE, or FALSE with the      *)
(* error class and code the handler loaded.                              *)
Write_Reply(wp, ok, error) ==
    reply' = [call |-> "Write_Property", prop |-> wp.prop,
              index |-> wp.index, arg |-> wp.apdu, value |-> ok,
              error |-> error]

(* Color_Temperature_Present_Value_Write: the priority is ignored; the   *)
(* callback, when one is registered, sees the old and the new value.     *)
(* wp is the [prop, index, apdu] of the WriteProperty request it serves. *)
Color_Temperature_Present_Value_Write_Unchecked(value, wp) ==
    (* a variant that stores the value before checking Write_Enabled *)
    \/ /\ obj = NULL
       /\ Write_Reply(wp, FALSE, <<ERROR_OBJECT, "ERROR_CODE_UNKNOWN_OBJECT">>)
       /\ UNCHANGED <<obj, callback, notified>>
    \/ /\ obj # NULL
       /\ obj' = [obj EXCEPT !.Present_Value = value]
       /\ Write_Reply(wp, obj.Write_Enabled,
                IF obj.Write_Enabled THEN NULL
                ELSE <<ERROR_PROPERTY, "ERROR_CODE_WRITE_ACCESS_DENIED">>)
       /\ UNCHANGED <<callback, notified>>

Color_Temperature_Present_Value_Write(value, wp) ==
    \/ /\ obj = NULL
       /\ Write_Reply(wp, FALSE, <<ERROR_OBJECT, "ERROR_CODE_UNKNOWN_OBJECT">>)
       /\ UNCHANGED <<obj, callback, notified>>
    \/ /\ obj # NULL /\ ~Color_Temperature_Write_Enabled
       /\ Write_Reply(wp, FALSE, <<ERROR_PROPERTY, "ERROR_CODE_WRITE_ACCESS_DENIED">>)
       /\ UNCHANGED <<obj, callback, notified>>
    \/ /\ obj # NULL /\ Color_Temperature_Write_Enabled
       /\ obj' = [obj EXCEPT !.Present_Value = value]
       /\ notified' = IF callback # NULL
                      THEN <<Object_Instance, obj.Present_Value, value>>
                      ELSE notified
       /\ Write_Reply(wp, TRUE, NULL)
       /\ UNCHANGED callback

(* write_property_type_valid (wp.c): the decoded tag must be the one the *)
(* property expects, else INVALID_DATA_TYPE.                             *)
write_property_type_valid(value, expected_tag) == value.tag = expected_tag

(* Color_Temperature_Write_Property. *)
Color_Temperature_Write_Property(prop, array_index, apdu) ==
    LET value == bacapp_decode_application_data(apdu)
        wp == [prop |-> prop, index |-> array_index, apdu |-> apdu]
        Fail(class, code) ==
            /\ Write_Reply(wp, FALSE, <<class, code>>)
            /\ UNCHANGED <<obj, callback, notified>>
        array_ok == Property_Array_Ok(prop, array_index)
    IN
    \/ /\ value.len < 0
       /\ Fail(ERROR_PROPERTY, "ERROR_CODE_VALUE_OUT_OF_RANGE")
    \/ /\ value.len >= 0 /\ ~array_ok
       /\ Fail(ERROR_PROPERTY, "ERROR_CODE_PROPERTY_IS_NOT_AN_ARRAY")
    \/ /\ value.len >= 0 /\ array_ok /\ prop = "PROP_PRESENT_VALUE"
       /\ \/ /\ ~write_property_type_valid(value, TAG_UNSIGNED_INT)
             /\ Fail(ERROR_PROPERTY, "ERROR_CODE_INVALID_DATA_TYPE")
          \/ /\ write_property_type_valid(value, TAG_UNSIGNED_INT)
             /\ Color_Temperature_Present_Value_Write(value.value, wp)
    \/ /\ value.len >= 0 /\ array_ok
       /\ prop \in {"PROP_OBJECT_IDENTIFIER", "PROP_OBJECT_TYPE",
                    "PROP_OBJECT_NAME", "PROP_DESCRIPTION"}
       /\ Fail(ERROR_PROPERTY, "ERROR_CODE_WRITE_ACCESS_DENIED")
    \/ /\ value.len >= 0 /\ array_ok
       /\ prop \notin {"PROP_PRESENT_VALUE", "PROP_OBJECT_IDENTIFIER",
                       "PROP_OBJECT_TYPE", "PROP_OBJECT_NAME",
                       "PROP_DESCRIPTION"}
       /\ Fail(ERROR_PROPERTY, "ERROR_CODE_UNKNOWN_PROPERTY")

-----------------------------------------------------------------------------

Next ==
    \/ \E v \in Unsigned_Args :
          \/ Color_Temperature_Present_Value_Set(v)
          \/ Color_Temperature_Tracking_Value_Set(v)
          \/ Color_Temperature_Min_Pres_Value_Set(v)
          \/ Color_Temperature_Max_Pres_Value_Set(v)
          \/ Color_Temperature_Default_Color_Temperature_Set(v)
          \/ Color_Temperature_Default_Ramp_Rate_Set(v)
          \/ Color_Temperature_Default_Step_Increment_Set(v)
    \/ \E v \in Fade_Time_Args : Color_Temperature_Default_Fade_Time_Set(v)
    \/ \E v \in In_Progress_Args : Color_Temperature_In_Progress_Set(v)
    \/ \E v \in Transition_Args : Color_Temperature_Transition_Set(v)
    \/ \E c \in Command_Args : Color_Temperature_Command_Set(c)
    \/ \E d \in Description_Args : Color_Temperature_Description_Set(d)
    \/ Color_Temperature_Write_Enable
    \/ Color_Temperature_Write_Disable
    \/ \E cb \in Callback_Args :
          Color_Temperature_Write_Present_Value_Callback_Set(cb)
    \/ \E p \in Property_Args, i \in Array_Index_Args,
         size \in Application_Data_Len_Args :
          Color_Temperature_Read_Property(p, i, size, Object_Name_Texts)
    \/ \E p \in Write_Property_Args, i \in Array_Index_Args,
         apdu \in Write_Apdu_Args :
          Color_Temperature_Write_Property(p, i, apdu)

Spec == Init /\ [][Next]_vars

-----------------------------------------------------------------------------
(* Properties *)

TypeOK ==
    /\ obj = NULL \/
       /\ DOMAIN obj = DOMAIN Created
       /\ obj.In_Progress \in 0 .. BACNET_COLOR_OPERATION_IN_PROGRESS_MAX - 1
       /\ obj.Transition \in 0 .. BACNET_COLOR_TRANSITION_MAX - 1
       /\ \/ obj.Default_Fade_Time = 0
          \/ obj.Default_Fade_Time \in
                BACNET_COLOR_FADE_TIME_MIN .. BACNET_COLOR_FADE_TIME_MAX
    /\ callback \in Callback_Args
    /\ notified = NULL \/ notified[1] = Object_Instance
    /\ reply.call \in {"none", "Present_Value_Set", "Tracking_Value_Set",
          "Min_Pres_Value_Set", "Max_Pres_Value_Set",
          "Default_Color_Temperature_Set", "Default_Ramp_Rate_Set",
          "Default_Step_Increment_Set", "Command_Set", "Description_Set",
          "In_Progress_Set", "Transition_Set", "Default_Fade_Time_Set",
          "Write_Enable", "Write_Disable", "Callback_Set", "Read_Property",
          "Write_Property"}

(* What each primitive property holds, by the data model (spec section   *)
(* 3): the object field and the application tag it travels under.        *)
Property_Field ==
    ("PROP_PRESENT_VALUE" :> "Present_Value") @@
    ("PROP_TRACKING_VALUE" :> "Tracking_Value") @@
    ("PROP_MIN_PRES_VALUE" :> "Present_Value_Minimum") @@
    ("PROP_MAX_PRES_VALUE" :> "Present_Value_Maximum") @@
    ("PROP_DEFAULT_COLOR_TEMPERATURE" :> "Default_Color_Temperature") @@
    ("PROP_DEFAULT_FADE_TIME" :> "Default_Fade_Time") @@
    ("PROP_DEFAULT_RAMP_RATE" :> "Default_Ramp_Rate") @@
    ("PROP_DEFAULT_STEP_INCREMENT" :> "Default_Step_Increment") @@
    ("PROP_IN_PROGRESS" :> "In_Progress") @@
    ("PROP_TRANSITION" :> "Transition")

Property_Tag(p) ==
    IF p \in {"PROP_IN_PROGRESS", "PROP_TRANSITION"} THEN TAG_ENUMERATED
    ELSE TAG_UNSIGNED_INT

(* A successful ReadProperty of an existing object returns one encoded   *)
(* value which, decoded, is the requested property's current value under *)
(* its application tag (the Object_Identifier decodes to this object's   *)
(* type and instance): the handler's switch and the codec agree.         *)
ReadReturnsCurrentValue ==
    [][ reply'.call = "Read_Property" /\ reply'.ok /\ obj # NULL =>
        LET d == bacapp_decode_application_data(reply'.apdu)
            p == reply'.prop
        IN  /\ p \in DOMAIN Property_Field =>
                  /\ d.len = Len(reply'.apdu)
                  /\ d.tag = Property_Tag(p)
                  /\ d.value = obj[Property_Field[p]]
            /\ p = "PROP_OBJECT_IDENTIFIER" =>
                  /\ d.len = Len(reply'.apdu)
                  /\ d.value = [type |-> OBJECT_COLOR_TEMPERATURE,
                                instance |-> Object_Instance] ]_vars

(* A WriteProperty either fails with an error pair and changes nothing   *)
(* (no partial write, no callback), or succeeds on a write-enabled       *)
(* object, storing exactly the decoded unsigned value as present value   *)
(* and handing the callback the old and the new value.                   *)
WriteAllOrNothing ==
    [][ reply'.call = "Write_Property" =>
        IF reply'.value
        THEN LET d == bacapp_decode_application_data(reply'.arg) IN
             /\ reply'.error = NULL
             /\ obj # NULL /\ obj.Write_Enabled
             /\ d.tag = TAG_UNSIGNED_INT
             /\ obj' = [obj EXCEPT !.Present_Value = d.value]
             /\ notified' = IF callback # NULL
                            THEN <<Object_Instance, obj.Present_Value, d.value>>
                            ELSE notified
        ELSE /\ reply'.error # NULL
             /\ UNCHANGED <<obj, notified>> ]_vars

(* Spec section 8: a read or write of a property that is not an array,   *)
(* with an array index other than BACNET_ARRAY_ALL, never succeeds; for  *)
(* a property of the object's lists the error is PROPERTY_IS_NOT_AN_ARRAY *)
(* (a write whose data does not decode fails first with                 *)
(* VALUE_OUT_OF_RANGE).                                                   *)
ArrayIndexRejected ==
    [][ /\ reply'.call \in {"Read_Property", "Write_Property"}
        /\ reply'.prop \notin Array_Properties
        /\ reply'.index # BACNET_ARRAY_ALL
        => /\ ~(IF reply'.call = "Read_Property" THEN reply'.ok
                ELSE reply'.value)
           /\ reply'.prop \in Read_Cases /\ reply'.error # NULL =>
                 reply'.error \in
                    {<<ERROR_PROPERTY, "ERROR_CODE_PROPERTY_IS_NOT_AN_ARRAY">>,
                     <<ERROR_PROPERTY, "ERROR_CODE_VALUE_OUT_OF_RANGE">>} ]_vars

(* Spec sections 4 and 7 (encoders never write past the caller-supplied *)
(* bound): a successful Read_Property returns no more octets than        *)
(* rpdata->application_data_len allows.  The handler only refuses a      *)
(* length of 0 (line 816) and then lets the switch encode the name or    *)
(* the application's description, of any length, into the buffer.       *)
ReadWithinBuffer ==
    [][ reply'.call = "Read_Property" /\ reply'.ok =>
          reply'.len <= reply'.size ]_vars

(* Spec section 4.3 step 2: UNKNOWN_PROPERTY is the answer only for a    *)
(* property missing from the object's required, optional and            *)
(* proprietary lists.                                                     *)
UnknownPropertyOnlyIfUnlisted ==
    [][ reply'.call \in {"Read_Property", "Write_Property"} /\
        reply'.error = <<ERROR_PROPERTY, "ERROR_CODE_UNKNOWN_PROPERTY">> =>
          \A l \in 1 .. 3 :
              reply'.prop \notin Color_Temperature_Property_Lists[l] ]_vars

(* Spec section 7: a malformed request is a decode failure with no       *)
(* partial result.  A WriteProperty succeeds only when its value is the   *)
(* whole of the request's data, none of it left undecoded (the handler's  *)
(* "FIXME: len < application_data_len: more data?").                      *)
WriteConsumesWholeRequest ==
    [][ reply'.call = "Write_Property" /\ reply'.value =>
          bacapp_decode_application_data(reply'.arg).len = Len(reply'.arg) ]_vars

=============================================================================
