CONSTANTS
    CMD1 = CMD1
    DESC1 = DESC1
    CB1 = CB1
    G1 = G1
    NULL = NULL
    Object_Instance = 1
    BACNET_ARRAY_ALL = BACNET_ARRAY_ALL
    BACNET_COLOR_OPERATION_IN_PROGRESS_MAX = 5
    BACNET_COLOR_TRANSITION_MAX = 3
    BACNET_COLOR_FADE_TIME_MIN = 100
    BACNET_COLOR_FADE_TIME_MAX = 86400000
    Unsigned_Args <- MC_Unsigned_Args
    Fade_Time_Args <- MC_Fade_Time_Args
    In_Progress_Args <- MC_In_Progress_Args
    Transition_Args <- MC_Transition_Args
    Command_Args <- MC_Command_Args
    Description_Args <- MC_Description_Args
    Callback_Args <- MC_Callback_Args
    Garbage <- MC_Garbage
    Property_Args <- MC_Property_Args
    Write_Property_Args <- MC_Write_Property_Args
    Array_Index_Args <- MC_Array_Index_Args
    Write_Apdu_Args <- MC_Write_Apdu_Args_Trailing
    Application_Data_Len_Args <- MC_Application_Data_Len_Args
    Text_Octets <- MC_Text_Octets
SPECIFICATION Spec
VIEW state_view
PROPERTY WriteConsumesWholeRequest
