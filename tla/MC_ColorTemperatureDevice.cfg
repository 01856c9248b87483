CONSTANTS
    N1 = N1
    N2 = N2
    NDev = NDev
    B1 = B1
    B2 = B2
    CB1 = CB1
    G1 = G1
    NULL = NULL
    Buffers_Reused = FALSE
    Reinit = FALSE
    BACNET_MAX_INSTANCE = 3
    Max_Revision = 6
    Object_Instance = 1
    BACNET_ARRAY_ALL = BACNET_ARRAY_ALL
    BACNET_COLOR_OPERATION_IN_PROGRESS_MAX = 5
    BACNET_COLOR_TRANSITION_MAX = 3
    BACNET_COLOR_FADE_TIME_MIN = 100
    BACNET_COLOR_FADE_TIME_MAX = 86400000
    Other_Objects <- MC_Other_Objects
    Name_Args <- MC_Name_Args
    Initial_Text <- MC_Initial_Text
    Buffer_Texts <- MC_Buffer_Texts
    Instance_Args <- MC_Instance_Args
    Unsigned_Args <- MC_Unsigned_Args
    Fade_Time_Args <- MC_Unused_Args
    In_Progress_Args <- MC_Unused_Args
    Transition_Args <- MC_Unused_Args
    Command_Args <- MC_Unused_Pointers
    Description_Args <- MC_Unused_Pointers
    Callback_Args <- MC_Callback_Args
    Garbage <- MC_Garbage
    Property_Args <- MC_Property_Args
    Write_Property_Args <- MC_Write_Property_Args
    Array_Index_Args <- MC_Array_Index_Args
    Write_Apdu_Args <- MC_Write_Apdu_Args
    Application_Data_Len_Args <- MC_Application_Data_Len_Args
    Text_Octets <- MC_Text_Octets
SPECIFICATION Spec
PROPERTY ImplementsObjectStore
VIEW state_view
