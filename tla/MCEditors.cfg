\* A tab and a page elsewhere, one row that may or may not exist, two fields.
CONSTANTS
    Tabs = {t1}
    Elsewhere = {e1}
    Rows = {r1}
    Registry = Registry
    Fields = {enabled, servers}
    Flag = enabled
    ServersKey = servers
    Values = {v1}
    None = None
    New = New
    Gone = Gone
    MaxWrites = 2
    MaxRestarts = 1
SPECIFICATION FairSpec
CHECK_DEADLOCK FALSE
INVARIANTS
    TypeOK
    
PROPERTIES
    SavesTouchOwnKeys
    
    ToggleSticks
    ReadYourSaves
    OwnSaveShown
    
