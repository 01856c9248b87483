------------------------ MODULE ColorTemperatureDevice ------------------------
(***************************************************************************)
(* The Color Temperature object type as the device serves it: the         *)
(* instance table (ColorTemperature) and the data and handlers of one     *)
(* object (ColorTemperatureProperty), composed through their shared       *)
(* state, with ReadProperty and WriteProperty requests reaching the       *)
(* handlers through the device's dispatch.                                 *)
(*                                                                         *)
(* The object tracked is the node data of instance Object_Instance: the   *)
(* table allocates it when a Create adds that key (the calloc and field   *)
(* initialisation of Color_Temperature_Create) and frees or drops it when *)
(* the key leaves the list.  The handlers find it by Keylist_Data on the  *)
(* same list, and the object-name case of Read_Property loads the text    *)
(* the table's Color_Temperature_Object_Name gives.  Requests address     *)
(* Object_Instance, live or not.                                           *)
(*                                                                         *)
(* The dispatch itself (the device object, outside src/) is written from  *)
(* spec section 4.3 step 1: an instance the type's store does not hold is *)
(* answered with UNKNOWN_OBJECT before the type's handler runs.           *)
(***************************************************************************)
EXTENDS Naturals, Sequences

CONSTANTS
    (* of the instance table *)
    BACNET_MAX_INSTANCE, Instance_Args, Name_Args, Initial_Text,
    Buffer_Texts, Other_Objects, NULL, Max_Revision, Buffers_Reused, Reinit,
    (* of the object's data and handlers *)
    Object_Instance, BACNET_ARRAY_ALL, BACNET_COLOR_OPERATION_IN_PROGRESS_MAX,
    BACNET_COLOR_TRANSITION_MAX, BACNET_COLOR_FADE_TIME_MIN,
    BACNET_COLOR_FADE_TIME_MAX, Unsigned_Args, Fade_Time_Args,
    In_Progress_Args, Transition_Args, Command_Args, Description_Args,
    Callback_Args, Property_Args, Write_Property_Args, Array_Index_Args,
    Write_Apdu_Args, Application_Data_Len_Args, Text_Octets, Garbage

VARIABLES
    Object_List, Database_Revision, result, Buffer,   (* the table  *)
    obj, callback, notified, reply                    (* the object *)

store_vars == <<Object_List, Database_Revision, result, Buffer>>
object_vars == <<obj, callback, notified, reply>>
vars == <<Object_List, Database_Revision, result, Buffer,
          obj, callback, notified, reply>>

(* The state the next call depends on: result and reply only record the *)
(* last call.                                                            *)
state_view == <<Object_List, Database_Revision, Buffer, obj, callback, notified>>

Store == INSTANCE ColorTemperature
Object == INSTANCE ColorTemperatureProperty

(* Whether a key list (Object_List or its next value) holds the tracked *)
(* instance.                                                             *)
Holds_Object(list) ==
    list # NULL /\ \E x \in DOMAIN list : list[x].key = Object_Instance

(* The node data of Object_Instance after a call of the table: allocated  *)
(* with Create's initial values when the key joins the list, kept while   *)
(* it stays, gone when it leaves.                                         *)
Node_Data ==
    IF ~Holds_Object(Object_List') THEN NULL
    ELSE IF Holds_Object(Object_List) THEN obj
    ELSE Object!Created

(* Device dispatch, spec section 4.3 step 1: the instance must resolve in *)
(* the type's store (the type's Object_Valid_Instance).                   *)
Device_Valid_Object_Instance(object_instance) ==
    Store!Color_Temperature_Valid_Instance(object_instance)

UNKNOWN_OBJECT == <<"ERROR_CLASS_OBJECT", "ERROR_CODE_UNKNOWN_OBJECT">>

(* The text Color_Temperature_Object_Name(Object_Instance) loads: the     *)
(* table's name of a live object, an uninitialized buffer otherwise.      *)
Object_Name_Loaded ==
    IF Store!Color_Temperature_Valid_Instance(Object_Instance)
    THEN {Store!Color_Temperature_Object_Name(Object_Instance)}
    ELSE Garbage

Init ==
    /\ Store!Init
    /\ obj = NULL
    /\ callback = NULL
    /\ notified = NULL
    /\ reply = [call |-> "none"]

(* A call of the table's API, or the application rewriting a buffer;    *)
(* reply records only calls on the object.                              *)
Table_Call ==
    /\ Store!Next
    /\ obj' = Node_Data
    /\ reply' = [call |-> "none"]
    /\ UNCHANGED <<callback, notified>>

(* The application's local calls on the object. *)
Object_Call ==
    /\ \/ Object!Color_Temperature_Write_Enable
       \/ Object!Color_Temperature_Write_Disable
       \/ \E v \in Unsigned_Args : Object!Color_Temperature_Present_Value_Set(v)
       \/ \E cb \in Callback_Args :
             Object!Color_Temperature_Write_Present_Value_Callback_Set(cb)
    /\ UNCHANGED store_vars

(* A ReadProperty request for Object_Instance. *)
Device_Read_Property(prop, array_index, size) ==
    /\ \/ /\ ~Device_Valid_Object_Instance(Object_Instance)
          /\ reply' = [call |-> "Read_Property", prop |-> prop,
                       index |-> array_index, ok |-> FALSE, apdu |-> <<>>,
                       size |-> size, len |-> Object!BACNET_STATUS_ERROR,
                       error |-> UNKNOWN_OBJECT]
          /\ UNCHANGED <<obj, callback, notified>>
       \/ /\ Device_Valid_Object_Instance(Object_Instance)
          /\ Object!Color_Temperature_Read_Property(prop, array_index, size,
                                                    Object_Name_Loaded)
    /\ UNCHANGED store_vars

(* A WriteProperty request for Object_Instance. *)
Device_Write_Property(prop, array_index, apdu) ==
    /\ \/ /\ ~Device_Valid_Object_Instance(Object_Instance)
          /\ reply' = [call |-> "Write_Property", prop |-> prop,
                       index |-> array_index, arg |-> apdu, value |-> FALSE,
                       error |-> UNKNOWN_OBJECT]
          /\ UNCHANGED <<obj, callback, notified>>
       \/ /\ Device_Valid_Object_Instance(Object_Instance)
          /\ Object!Color_Temperature_Write_Property(prop, array_index, apdu)
    /\ UNCHANGED store_vars

Next ==
    \/ Table_Call
    \/ Object_Call
    \/ \E p \in Property_Args, i \in Array_Index_Args,
         size \in Application_Data_Len_Args :
          Device_Read_Property(p, i, size)
    \/ \E p \in Write_Property_Args, i \in Array_Index_Args,
         apdu \in Write_Apdu_Args :
          Device_Write_Property(p, i, apdu)

Spec == Init /\ [][Next]_vars

-----------------------------------------------------------------------------
(* Properties *)

(* The table still implements the abstract object store (ObjectStore)   *)
(* when requests and local calls on the object run between its calls:  *)
(* none of them changes the live objects, their names or the revision.  *)
ImplementsObjectStore == Store!ImplementsObjectStore

=============================================================================
