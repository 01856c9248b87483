CONSTANTS
    N1 = N1
    N2 = N2
    NDev = NDev
    B1 = B1
    B2 = B2
    B3 = B3
    Buffers_Reused = TRUE
    Reinit = FALSE
    NULL = NULL
    BACNET_MAX_INSTANCE = 3
    Max_Revision = 6
    Other_Objects <- MC_Other_Objects
    Name_Args <- MC_Name_Args
    Initial_Text <- MC_Initial_Text
    Buffer_Texts <- MC_Buffer_Texts
    Instance_Args <- MC_Instance_Args
SPECIFICATION Spec
INVARIANT TypeOK
