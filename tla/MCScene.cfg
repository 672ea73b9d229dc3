\* One model, which the bridge also opens by itself, two dynamic ids, one pose
\* besides the default one, and a ceiling of one arrangement, for four things done
\* by the user and the processes.
CONSTANTS
    Models = {"x"}
    Startup = "x"
    MaxId = 2
    Poses = {"p"}
    Names = {"a","b"}
    MaxLayouts = 1
    Fits = 1
    MaxQueue = 3
    MaxActs = 4
SPECIFICATION SceneSpec
INVARIANTS DevicesAgree PlacementsAgree
PROPERTIES QuitKeepsTheWorkspace
CHECK_DEADLOCK FALSE
