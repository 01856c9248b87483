# TLA+ models of the Color Temperature object

This directory holds TLA+ models of the BACnet Color Temperature object
(`src/src/bacnet/basic/object/color_temperature.c`), the only implementation
file in the tree. The models also cover the collaborators that file calls:

- the key list (`OS_Keylist`);
- the application tag codec;
- the device's name lookup and database revision.

Those collaborators are not in the tree, so they are written from `spec.md`.
`PROJECT.json` lists each component, run, mutant, finding and hazard, and maps
every modelled definition to the source lines it translates.

## The system

| Part | State | Operations | Interaction |
|---|---|---|---|
| Instance table | `Object_List`: a key list of `struct object_data`, sorted by instance; NULL before `Init` and after `Cleanup` | `Init`, `Create` (the wildcard `BACNET_MAX_INSTANCE` asks for the next free key), `Delete`, `Cleanup` (the `atexit` handler), `Name_Set` | It calls `Keylist_*`, `Device_Valid_Object_Name` (names are unique across the whole device) and `Device_Inc_Database_Revision` (one bump per object added, removed or renamed). |
| Object data | the fields of `struct object_data`, `Write_Enabled`, the callback pointer | the local setters (`Present_Value_Set`, the `Default_*_Set` family, `In_Progress_Set`, `Transition_Set`, `Command_Set`, `Description_Set`), `Write_Enable`/`Write_Disable`, `Write_Present_Value_Callback_Set` | The application runs these between network requests. |
| ReadProperty | none; it reads the data | `Color_Temperature_Read_Property` | It encodes one value with the tag codec. Unlisted properties get UNKNOWN_PROPERTY, and a non-array property with an index gets PROPERTY_IS_NOT_AN_ARRAY. |
| WriteProperty | present value; the callback fires | `Color_Temperature_Write_Property`, `Present_Value_Write` | It decodes the value, checks the array index, then the tag (`write_property_type_valid`), then the enable flag, then stores the value and calls the callback. |
| Diagnostic object | `diagnostic.h` only | none | not modelled: there is no implementation |
| access_zone test, ports, CI | none | none | not modelled: no runtime state |

The code is single threaded (spec section 5). Each API call runs to completion,
so every action of the models is one whole call.

The hard behaviours are not interleaved threads. They are long call sequences
that mix local setters with remote requests, and the device-wide name space
that several object types share. The boundary cases are:

- the wildcard instance;
- an allocation failure between `calloc` and `Keylist_Data_Add`;
- enumeration maxima;
- the order of the error checks in the handlers.

## Modules

- **`Keylist`** (from the spec): the list as a sequence of `[key, data]` records in ascending key order. It provides `Keylist_Data_Add` (ordered insert), `Keylist_Data_Delete`, `Keylist_Data_Pop`, `Keylist_Index`, `Keylist_Key` and `Keylist_Next_Empty_Key`.
- **`BACnetCodec`** (from the spec): octet-level encoders for the tags the handlers use (unsigned, enumerated, object id, character string). It also has `bacapp_decode_application_data`, with:
  - the extended tag and length forms;
  - minimal-width integers;
  - rejection of truncated, context-tagged and non-canonical input.
- **`ObjectStore`**: the abstract specification of one type's store. It has a map from instance to name and the device revision. Its actions are `Create`, `Delete`, `Cleanup` and `Rename`. A rename commits only a name no other object holds. The revision grows by exactly one per change.
- **`ColorTemperature`**: the instance table.
  - Variables:
    - `Object_List`;
    - `Database_Revision`;
    - `result`, the last call and its return value;
    - `Buffer`, the text of each caller buffer the application passes to `Name_Set`.
  - Actions: one per call (`Color_Temperature_Init`, `_Create`, `_Delete`, `_Cleanup`, `_Name_Set`). Each action carries the code's guards, early returns and failure paths. `mem_ok` chooses whether allocation succeeds.
  - Names: `Name_Set` stores the buffer (the pointer, as line 744 does), and `Color_Temperature_Object_Name` reads the buffer's current text. `Application_Buffer_Write` is the application rewriting one of its buffers between calls; it is enabled only when the constant `Buffers_Reused` is TRUE. `Init` may be called again on a live list only when `Reinit` is TRUE.
  - Queries: `Color_Temperature_Valid_Instance`, `_Count`, `_Index_To_Instance` and `_Instance_To_Index` are operators over the list.
  - Other objects: the device's other objects are the constant `Other_Objects`.
  - Refinement: `Abstract` instantiates `ObjectStore` with this mapping:
    - `objects` is each live instance mapped to `Color_Temperature_Object_Name`;
    - `revision` is `Database_Revision`.
- **`ColorTemperatureProperty`**: one object's data, or NULL when the instance is absent.
  - Variables:
    - `obj`;
    - `callback`;
    - `notified`, the last `<<instance, old, new>>` the callback received;
    - `reply`.
  - Actions: one per setter, one per flag call, one for callback registration, and one each for the two handlers.
  - Reads of an absent object: the name buffer of an absent object is uninitialized in the code, so the model picks its value from `Garbage`.
  - Reply lengths: texts are model values, and the constant `Text_Octets` gives each one its length in characters. The default name's length is computed from its instance digits (the `snprintf` of line 700). `Read_Length` is the `apdu_len` the switch returns, with character strings measured as the encoder writes them (tag, extended length, character set, characters). `Read_Property` takes `application_data_len` from `Application_Data_Len_Args`; 0 is the early return of line 816, and no other value is compared with anything.
- **`ColorTemperatureDevice`**: the composition of the two modules above, in the style of a system module that instantiates its components (`Store == INSTANCE ColorTemperature`, `Object == INSTANCE ColorTemperatureProperty`) over shared variables.
  - The object's `obj` is the node data of `Object_Instance` in the table's `Object_List` (`Node_Data`): a Create that adds the key allocates it with Create's initial values, and it is gone when Delete, Cleanup or a repeated Init removes the key.
  - `Table_Call` is any step of the table; `Object_Call` is a local call on the object (write enable/disable, present-value set, callback registration).
  - `Device_Read_Property` and `Device_Write_Property` are requests for `Object_Instance` through the device's dispatch. The dispatch answers UNKNOWN_OBJECT for an instance the table does not hold, and calls the handler otherwise (spec section 4.3 step 1; the device object is not in the tree). The object-name case of Read_Property loads the table's `Color_Temperature_Object_Name`, so renames and rewritten buffers show up in replies.
- **`MC_ColorTemperature`**, **`MC_ColorTemperatureProperty`** and **`MC_ColorTemperatureDevice`**: the instantiations that TLC checks.

## Runs

| Run | Expect | What it shows |
|---|---|---|
| `ct_store` | pass | Over every sequence of Init, Create (including failures and the wildcard), Delete, Name_Set and Cleanup, with the application rewriting its buffers in between, the list, the revision and the buffers stay within their types (`TypeOK`). The revision bound makes this also a check that Cleanup adds one revision per freed object, not one per pop. The exact revision count is checked by `ImplementsObjectStore` in `device_dispatch`. |
| `ct_caller_buffer` | violation | `NameChangesOnlyByNameSet`: `Create(1)`, `Name_Set(1, B1)`, then the application writes the Color object's name into B1; object 1 is renamed with no call, no uniqueness check and no revision bump (line 744). |
| `ct_reinit` | violation | `ObjectsReleasedOnlyByDeleteOrCleanup`: `Create(1)` then a second `Init` drops object 1 without freeing it (line 1122). |
| `ct_reserved_instance` | violation | `InstancesInRange`: with 1 and 2 live, a wildcard create stores instance 3 = `BACNET_MAX_INSTANCE` and returns 3. The caller reads 3 as failure. |
| `ct_default_name_collision` | violation | `NamesUnique`: `Name_Set(1, "COLOR-TEMPERATURE-2")` then `Create(2)` leaves two objects with the same name. |
| `ct_name_set_found_type` | violation | `NameSetResultCorrect`: `Name_Set` compares the found type with `OBJECT_COLOR` (line 734). It returns true for a name held by Color object 1, and false for the object's own name. |
| `ctp_handlers` | pass | <ul><li>Every successful read decodes to the current field value under its tag (`ReadReturnsCurrentValue`).</li><li>Every write either fails with an error and changes nothing, or stores exactly the decoded value and notifies old/new (`WriteAllOrNothing`).</li><li>Array indices on non-array properties never succeed (`ArrayIndexRejected`).</li></ul> |
| `ctp_read_overrun` | violation | `ReadWithinBuffer`: `Description_Set(DESC1)` with a 1470-character text, then a ReadProperty of the description with a 1464-octet value buffer: Read_Property returns 1475 octets, 11 past the buffer (line 887; only a length of 0 is refused, line 816). |
| `ctp_unknown_property` | violation | `UnknownPropertyOnlyIfUnlisted`: writing the listed property Tracking_Value answers UNKNOWN_PROPERTY (line 958). |
| `ctp_trailing_data` | violation | `WriteConsumesWholeRequest`: a Present_Value write of unsigned 70000 followed by unsigned 5 succeeds on the first value; the decoded length is never compared with the request length (line 925). |
| `device_dispatch` | pass | Over creates (including the wildcard and failures), deletes, cleanups, renames, write enables and ReadProperty/WriteProperty requests, with buffers left alone after the call: the table implements `ObjectStore` while requests and local calls run between its calls (`ImplementsObjectStore`). A committed name is unique among the names the check sees, and the revision counts exactly the changes: create failures and a delete of an absent instance leave it alone, and the Cleanup loop adds one per freed object. |

Each passing property has a mutant in `PROJECT.json`. A mutant is a plausible
bug that the property catches:

- `Cleanup` counting the last, empty pop;
- `Delete` not bumping the revision;
- `In_Progress_Set` using `<=`;
- the unsigned encoder writing 4 octets;
- `Present_Value_Write` storing before checking the enable flag;
- the array-index check dropped.

## Bounds and why they suffice

- **`ct_store`**:
  - `BACNET_MAX_INSTANCE = 3`, so instances 1 and 2 fill the valid range and a third wildcard create reaches the reserved number.
  - The instance arguments are {1, 2, 3, 4}: valid instances, the wildcard, and an instance above the range.
  - The names are:
    - two fresh names;
    - a name that a Color object holds;
    - the default name of instance 2;
    - NULL.

    That covers every branch of `Name_Set` and the collision with a default name.
  - `Max_Revision = 6` allows a full create–rename–delete–cleanup cycle with two objects.
  - Three caller buffers B1, B2, B3 start as a fresh name, the Color object's name and the default name of instance 2. A rewrite may set any buffer to either of the first two names. It gives 72313 distinct states.
- **`device_dispatch`**: `BACNET_MAX_INSTANCE = 3`, instance arguments {1, 2, 3, 4} (the tracked object, a second object that takes the wildcard's first choice, the wildcard, which can also create instance 1, and an instance out of range), and `Max_Revision = 6` (create, rename, delete and re-create with two objects). Two buffers start as a fresh name and the Color object's name; the application does not rewrite them here, so that the refinement applies. The requests read the name, the identifier and the present value, and write the present value with an unsigned and an enumerated value. Reads bring a 1464-octet value buffer, and the texts are 8 characters long. So each request meets the object absent, live, renamed, deleted and re-created. `VIEW state_view` drops `result` and `reply`, which record only the last call; the reply property is an action property, so it is still checked on every transition. It gives 2736 distinct states.
- **`ctp_handlers`**:
  - One object, initially absent or freshly created.
  - The unsigned setters get 70000, so reads meet encodings of one octet (0), two (the default 5000) and three (70000).
  - Each range-checked setter gets one value inside and one value at or beyond its bound: fade time 99 and 100; in-progress 2 and 5 against MAX 5; transition 1 and 3 against MAX 3.
  - The written APDUs are:
    - a 3-octet unsigned (70000), so the extended-width path runs;
    - an enumerated value, the wrong type;
    - a malformed tag.

    `ctp_trailing_data` adds unsigned 70000 followed by unsigned 5.
  - Reads come without a buffer (0) or with 1464 octets for the value: an APDU of the stack's default `MAX_APDU` (1476) less the 12 octets of ReadProperty-ACK header. The description is 20 characters; `ctp_read_overrun` makes it 1470, the longest text `characterstring_init_ansi` copies when `MAX_CHARACTER_STRING_BYTES` is `MAX_APDU - 6`. Every text from 1460 characters up overruns this buffer. The finding assumes a caller that passes the remainder after the ACK header, as the spec's maximum-APDU-sized response requires. The repository's access_zone test passes the whole `MAX_APDU` (1476) as the length, and 1475 octets fit in that buffer.
  - Reads request every listed property plus two unlisted ones (Status_Flags and Priority_Array, an array property). Writes request one property of each case of the write switch: Present_Value, Object_Name (read-only), Tracking_Value (listed but not named by the switch), Status_Flags and Priority_Array.
  - The array indices are `BACNET_ARRAY_ALL` and 1.
  - `VIEW state_view` drops `reply`, because `reply` only records the last call. This is why every property about replies is an action property: TLC still checks those on every transition. It gives 32770 distinct states in about 30 s.

## Fairness

None is assumed and no liveness property is checked. The object never waits on
anything, and every call returns. What happens next depends entirely on the
application and the network, so no fairness condition comes from the code.

## Not modelled

- **`Description_Set` buffer (line 792):** it stores the caller's pointer like `Name_Set`. The description is modelled as a value with a length, because only its length matters to a property (`ReadWithinBuffer`).
- **`Default_Fade_Time_Set`'s return value (line 548):** the model keeps the code's behaviour: an out-of-range value returns TRUE and is not stored, although the function's comment says "true if values are within range and value is set". No run checks this one-line divergence; it can be read directly in the code.
- **`MAX_APDU` and `MAX_CHARACTER_STRING_BYTES`:** these come from the stack's configuration, which is outside the tree. They enter only as the buffer sizes and text lengths the MC modules choose.
- **Device object beyond the dispatch:** the device object is not in the tree. Its instance check is written from the spec in `ColorTemperatureDevice`. Requests there address one tracked instance, because each other instance's data would multiply the state space without a new case. The device's own properties, ReadPropertyMultiple and other object types' handlers are described neither in the tree nor in the spec.
- **Diagnostic object:** `diagnostic.h` declares functions, but there is no implementation, and the spec gives no behaviour specific to the object. Any model would invent every guard.
- **Properties of the spec-written collaborators alone:** the codec, the key list's ordering and the device's dispatch are written from the spec. Checking them on their own would compare definitions written from the same text, and nothing in `color_temperature.c` could break such a check. They are checked only through the handlers and the table that use them.
- **Liveness:** see Fairness.
- **access_zone test, ports and CI:** no runtime state.
