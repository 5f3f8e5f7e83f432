\* A main machine and a backup holding two keys; the backup takes a key over after two silent rounds.
CONSTANTS
    main = main  backup = backup
    k1 = k1  k2 = k2  c1 = c1  c2 = c2
    i1 = i1  i2 = i2  i3 = i3  i4 = i4  i5 = i5
    Nil = Nil
    Machines <- MCMachines
    IsMainMachine <- MCIsMainMachine
    Keys <- MCKeys
    Callers <- MCCallers
    Pids <- MCPids
    MaxRoundsWithoutReceivedMessages = 2
    MaxRounds = 3
SYMMETRY MCSymmetry
SPECIFICATION Spec
INVARIANTS
    IdentitiesMatchKeys
    ManagedViewsAgree
