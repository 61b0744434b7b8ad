SPECIFICATION PromptSpec
CONSTANTS
    ClockMod = 9
    SamplePeriod = 2
    StableTime = 5
PROPERTIES TogglesAreEarned NoChatter AltitudeIsRecognised
