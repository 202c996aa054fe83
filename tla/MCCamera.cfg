SPECIFICATION LiveSpec
CONSTANTS
    NoCamera = NoCamera
    NoEditor = NoEditor
    MaxPhotos = 3
    MaxFailures = 3
INVARIANTS LiveIsPosition CrashHasCause MirroredIfFront
PROPERTIES EditorKeepsPicture PreviewFollows
CHECK_DEADLOCK FALSE
