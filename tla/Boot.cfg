\* A small screen, disk and memory map, and every failure.  Boot ends: no deadlock check.
SPECIFICATION BootFairSpec
CONSTANTS
    Tries = 3
    Growth = 5
    Screens <- MCScreens
    Disks <- MCDisks
    MaxDevices = 2
CHECK_DEADLOCK FALSE
INVARIANTS
    GivesUpForCause
    MountedNamed

    
