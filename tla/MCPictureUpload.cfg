CONSTANTS
    MaxFull = 2
    ErrLimit = 2
SPECIFICATION Spec
INVARIANTS TypeOK CleanArrivesWhole SilentOnlyUnheard
PROPERTY CameraReturns
