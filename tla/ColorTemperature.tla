--------------------------- MODULE ColorTemperature ---------------------------
(***************************************************************************)
(* The instance table of the Color Temperature object type                 *)
(* (src/src/bacnet/basic/object/color_temperature.c): object creation,     *)
(* deletion and cleanup over the key list Object_List, object names, and   *)
(* the two device-wide collaborators the file calls, the database revision *)
(* (Device_Inc_Database_Revision) and the device-wide name lookup          *)
(* (Device_Valid_Object_Name), which sees the objects of the other types   *)
(* of the device as well.                                                  *)
(*                                                                         *)
(* Each action is one call of the file's API, run to completion: the code  *)
(* is single threaded (spec section 5), so calls never interleave.  The    *)
(* per-property data of an object (present value, defaults, ...) is        *)
(* modelled in ColorTemperatureProperty; here a node's data is the part    *)
(* the table and the name checks use, its Object_Name pointer.             *)
(***************************************************************************)
EXTENDS Naturals, Sequences, FiniteSets

CONSTANTS
    BACNET_MAX_INSTANCE,  (* the reserved wildcard instance number         *)
    Instance_Args,        (* instance numbers callers pass                 *)
    Name_Args,            (* name buffers callers pass to Name_Set, NULL   *)
    Initial_Text,         (* the text each caller buffer starts with       *)
    Buffer_Texts,         (* texts the application may write into a buffer *)
    Other_Objects,        (* [type, instance, name] of the other objects   *)
    NULL,                 (* a NULL pointer                                *)
    Max_Revision,         (* bound on the database revision, for TLC       *)
    Buffers_Reused,       (* whether the application rewrites its buffers  *)
    Reinit                (* whether Init may be called while a list exists*)

INSTANCE Keylist

ASSUME BACNET_MAX_INSTANCE \in Nat \ {0}
ASSUME Instance_Args \subseteq Nat
ASSUME NULL \in Name_Args
ASSUME Max_Revision \in Nat
ASSUME Buffers_Reused \in BOOLEAN /\ Reinit \in BOOLEAN

(* The caller-owned character buffers whose addresses are passed as      *)
(* new_name.                                                              *)
Caller_Buffers == Name_Args \ {NULL}

OBJECT_COLOR == "OBJECT_COLOR"
OBJECT_COLOR_TEMPERATURE == "OBJECT_COLOR_TEMPERATURE"

VARIABLES
    Object_List,        (* the key list, or NULL before Init / after Cleanup *)
    Database_Revision,  (* the device database revision                    *)
    result,             (* the call just made and the value it returned    *)
    Buffer              (* the text in each caller buffer                  *)

vars == <<Object_List, Database_Revision, result, Buffer>>

(* The list as the Keylist functions see it: they treat NULL as empty. *)
List == IF Object_List = NULL THEN <<>> ELSE Object_List

(* The instances of live Color Temperature objects. *)
Live == Keylist_Keys(List)

Color_Temperature_Valid_Instance(object_instance) == object_instance \in Live

Color_Temperature_Count == Keylist_Count(List)

Color_Temperature_Index_To_Instance(index) == Keylist_Key(List, index)

(* The 0-based index of the instance, or Color_Temperature_Count. *)
Color_Temperature_Instance_To_Index(object_instance) ==
    Keylist_Index(List, object_instance)

(* The text snprintf(name_text, 26, "COLOR-TEMPERATURE-%u", instance)     *)
(* produces: one string per instance number (no truncation below 10^7).  *)
Default_Name(object_instance) == <<"COLOR-TEMPERATURE-", object_instance>>

(* Color_Temperature_Object_Name: the text the stored pointer points at *)
(* now, or the default name.                                             *)
Color_Temperature_Object_Name(object_instance) ==
    LET pObject == Keylist_Data(List, object_instance)
    IN  IF pObject.Object_Name # NULL THEN Buffer[pObject.Object_Name]
        ELSE Default_Name(object_instance)

(* Every object of the device, as Device_Valid_Object_Name searches them. *)
Device_Objects ==
    Other_Objects \cup
    { [type |-> OBJECT_COLOR_TEMPERATURE, instance |-> k,
       name |-> Color_Temperature_Object_Name(k)] : k \in Live }

(* Device_Valid_Object_Name: the objects holding the given name; the call *)
(* reports one of them as found_type/found_instance.                      *)
Device_Valid_Object_Name(object_name) ==
    { o \in Device_Objects : o.name = object_name }

(* The texts the caller buffers hold at start. *)
Range_Of_Initial_Text == { Initial_Text[b] : b \in Caller_Buffers }

Init ==
    /\ Object_List = NULL
    /\ Database_Revision = 0
    /\ result = [call |-> "none"]
    /\ Buffer = Initial_Text

(* Color_Temperature_Init: Object_List = Keylist_Create(), which may     *)
(* fail to allocate.  A list that already exists is dropped, not freed.  *)
Color_Temperature_Init(mem_ok) ==
    /\ Object_List' = IF mem_ok THEN <<>> ELSE NULL
    /\ result' = [call |-> "Init"]
    /\ UNCHANGED Database_Revision

(* Color_Temperature_Create.  mem_ok is FALSE when calloc of the object   *)
(* or the node allocation inside Keylist_Data_Add fails.                  *)
Color_Temperature_Create(object_instance, mem_ok) ==
    LET instance == IF object_instance = BACNET_MAX_INSTANCE
                    THEN Keylist_Next_Empty_Key(List, 1)
                    ELSE object_instance
        Returns(v) == result' = [call |-> "Create", arg |-> object_instance,
                                 value |-> v]
    IN
    \/ /\ object_instance > BACNET_MAX_INSTANCE
       /\ Returns(BACNET_MAX_INSTANCE)
       /\ UNCHANGED <<Object_List, Database_Revision>>
    \/ /\ object_instance <= BACNET_MAX_INSTANCE
       /\ instance \in Live
       /\ Returns(instance)
       /\ UNCHANGED <<Object_List, Database_Revision>>
    \/ /\ object_instance <= BACNET_MAX_INSTANCE
       /\ instance \notin Live
       /\ (~mem_ok \/ Object_List = NULL)
       /\ Returns(BACNET_MAX_INSTANCE)
       /\ UNCHANGED <<Object_List, Database_Revision>>
    \/ /\ object_instance <= BACNET_MAX_INSTANCE
       /\ instance \notin Live
       /\ mem_ok /\ Object_List # NULL
       /\ Database_Revision < Max_Revision
       /\ Object_List' = Keylist_Data_Add(Object_List, instance,
                                          [Object_Name |-> NULL])
       /\ Database_Revision' = Database_Revision + 1
       /\ Returns(instance)

Color_Temperature_Delete_No_Revision(object_instance) ==
    (* a variant that forgets Device_Inc_Database_Revision *)
    LET found == object_instance \in Live
    IN  /\ Object_List' = IF found
                          THEN Keylist_Data_Delete(Object_List, object_instance)
                          ELSE Object_List
        /\ UNCHANGED Database_Revision
        /\ result' = [call |-> "Delete", arg |-> object_instance,
                      value |-> found]

(* Color_Temperature_Delete. *)
Color_Temperature_Delete(object_instance) ==
    LET found == object_instance \in Live
    IN  /\ found => Database_Revision < Max_Revision
        /\ Object_List' = IF found
                          THEN Keylist_Data_Delete(Object_List, object_instance)
                          ELSE Object_List
        /\ Database_Revision' = IF found THEN Database_Revision + 1
                                ELSE Database_Revision
        /\ result' = [call |-> "Delete", arg |-> object_instance,
                      value |-> found]

Color_Temperature_Cleanup_Extra_Revision ==
    (* a variant that also counts the final, empty pop *)
    /\ Object_List # NULL
    /\ Database_Revision + Len(Object_List) <= Max_Revision
    /\ Database_Revision' = Database_Revision + Len(Object_List) + 1
    /\ Object_List' = NULL
    /\ result' = [call |-> "Cleanup"]

(* Color_Temperature_Cleanup: pop and free every node, one revision per   *)
(* node, then delete the list itself.                                     *)
Color_Temperature_Cleanup ==
    /\ Object_List # NULL
    /\ Database_Revision + Len(Object_List) <= Max_Revision
    /\ Database_Revision' = Database_Revision + Len(Object_List)
    /\ Object_List' = NULL
    /\ result' = [call |-> "Cleanup"]

(* Color_Temperature_Name_Set.  The lookup uses a copy of the buffer's    *)
(* text, but the object keeps the pointer new_name.  When the name is     *)
(* found, the code accepts the write as "same name to same object" only   *)
(* if the holder is of type OBJECT_COLOR with the same instance number.   *)
Color_Temperature_Name_Set(object_instance, new_name) ==
    LET text == Buffer[new_name]
        found == Device_Valid_Object_Name(text)
        Returns(v) == result' = [call |-> "Name_Set", arg |-> object_instance,
                                 name |-> IF new_name = NULL THEN NULL
                                          ELSE text,
                                 value |-> v]
    IN
    \/ /\ (object_instance \notin Live \/ new_name = NULL)
       /\ Returns(FALSE)
       /\ UNCHANGED <<Object_List, Database_Revision>>
    \/ /\ object_instance \in Live /\ new_name # NULL
       /\ found # {}
       /\ \E f \in found :
             Returns(f.type = OBJECT_COLOR /\ f.instance = object_instance)
       /\ UNCHANGED <<Object_List, Database_Revision>>
    \/ /\ object_instance \in Live /\ new_name # NULL
       /\ found = {}
       /\ Database_Revision < Max_Revision
       /\ Object_List' =
             [i \in DOMAIN Object_List |->
                 IF Object_List[i].key = object_instance
                 THEN [Object_List[i] EXCEPT !.data.Object_Name = new_name]
                 ELSE Object_List[i]]
       /\ Database_Revision' = Database_Revision + 1
       /\ Returns(TRUE)

(* One call of the object's API.  The applications call Init once at     *)
(* start-up, or again only after the atexit Cleanup, unless Reinit.       *)
API_Call ==
    \/ /\ Object_List = NULL \/ Reinit
       /\ \E mem_ok \in BOOLEAN : Color_Temperature_Init(mem_ok)
    \/ Color_Temperature_Cleanup
    \/ \E i \in Instance_Args :
          \/ \E mem_ok \in BOOLEAN : Color_Temperature_Create(i, mem_ok)
          \/ Color_Temperature_Delete(i)
          \/ \E n \in Name_Args : Color_Temperature_Name_Set(i, n)

(* The application writes new text into one of its own buffers, as a     *)
(* caller may once a call that took the buffer has returned (spec        *)
(* section 5: buffers are caller owned).                                 *)
Application_Buffer_Write ==
    /\ Buffers_Reused
    /\ \E b \in Caller_Buffers, t \in Buffer_Texts :
          /\ t # Buffer[b]
          /\ Buffer' = [Buffer EXCEPT ![b] = t]
    /\ result' = [call |-> "Buffer_Write"]
    /\ UNCHANGED <<Object_List, Database_Revision>>

Next ==
    \/ API_Call /\ UNCHANGED Buffer
    \/ Application_Buffer_Write

Spec == Init /\ [][Next]_vars

-----------------------------------------------------------------------------
(* Properties *)

TypeOK ==
    /\ Object_List = NULL \/ Object_List \in Seq([key : Nat,
                                data : [Object_Name : Name_Args]])
    /\ Database_Revision \in 0 .. Max_Revision
    /\ result.call \in {"none", "Init", "Create", "Delete", "Cleanup",
                        "Name_Set", "Buffer_Write"}
    /\ Buffer \in [Caller_Buffers -> Buffer_Texts \cup Range_Of_Initial_Text]

(* The table implements the abstract object store: creates, deletes,    *)
(* cleanups and name writes change the live objects and their names as *)
(* ObjectStore allows (a committed name is unique in the device), and   *)
(* the database revision counts exactly those changes.                  *)
Abstract == INSTANCE ObjectStore WITH
    Instances <- Instance_Args \cup (1 .. BACNET_MAX_INSTANCE + Max_Revision),
    Names <- Buffer_Texts \cup Range_Of_Initial_Text,
    Other_Names <- { o.name : o \in Other_Objects },
    objects <- [k \in Live |-> Color_Temperature_Object_Name(k)],
    revision <- Database_Revision

ImplementsObjectStore == Abstract!Spec

(* Spec section 5: no component retains a reference to a caller's buffer *)
(* after returning.  So the name of a live Color Temperature object       *)
(* changes only by a Name_Set call on it, whatever the application later  *)
(* writes into the buffer it passed to Color_Temperature_Name_Set.        *)
NameChangesOnlyByNameSet ==
    [][ \A k \in Live \cap Live' :
          Color_Temperature_Object_Name(k)' # Color_Temperature_Object_Name(k)
              => result'.call = "Name_Set" /\ result'.arg = k ]_vars

(* Spec section 4.2: the store owns every record and releases it only on *)
(* a delete or a cleanup; no other call makes a live object disappear.   *)
ObjectsReleasedOnlyByDeleteOrCleanup ==
    [][ Live \ Live' # {} => result'.call \in {"Delete", "Cleanup"} ]_vars

(* Spec section 3: instance numbers are 0 .. BACNET_MAX_INSTANCE - 1;    *)
(* BACNET_MAX_INSTANCE itself is the reserved wildcard.                  *)
InstancesInRange == \A k \in Live : k < BACNET_MAX_INSTANCE

(* Spec section 3: object names are unique within the device, across    *)
(* all object types, whatever sequence of creates and name writes ran.  *)
NamesUnique ==
    \A o1, o2 \in Device_Objects :
        o1.name = o2.name => o1 = o2

(* Spec section 4.3 step 6: Color_Temperature_Name_Set succeeds exactly  *)
(* when the object exists and the name is the object's own or held by no *)
(* other object of the device.                                           *)
NameSetResultCorrect ==
    result.call = "Name_Set" =>
        (result.value <=>
            /\ result.arg \in Live
            /\ result.name # NULL
            /\ \A o \in Device_Valid_Object_Name(result.name) :
                  o.type = OBJECT_COLOR_TEMPERATURE /\ o.instance = result.arg)

=============================================================================
