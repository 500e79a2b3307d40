\* A batch that names a file the writable globs leave out, and another call that writes it.
CONSTANTS
    Editors = {"c1", "c2"}
    EditsWanted <- EditsAsked
    Files = {"f", "g", "b"}
    Folders = {"d"}
    FolderOf <- ParentOf
    Barred = {"b"}
    InitDisks <- EditDisks
    Fragments <- EditFragments
    MaxLen = 6
    MaxOps = 4
    RequireHash = FALSE
    MayMove = TRUE
    Faults = 1
SPECIFICATION EditSpec
CHECK_DEADLOCK FALSE
PROPERTY BarredUntouched
