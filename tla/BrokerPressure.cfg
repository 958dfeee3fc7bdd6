CONSTANTS
    RecoveryGreenSamples = 12
    Ladder = 7
SPECIFICATION PressureSpec
PROPERTIES CalmMachineRecovers
