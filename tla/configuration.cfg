SPECIFICATION Spec
CONSTANTS
    face = face
    mark1 = mark1
    mark2 = mark2
    otio = otio
    ffmpeg = ffmpeg
    typo = typo
    None = None
    Uids = {face, mark1, mark2, otio, ffmpeg, typo}
    NameOf <- Shelf
    Settings <- SomeSettings
    Requests <- SomeRequests
    Media = {"movie", "song", "broken", "locked", "missing"}
    Streams <- Files
    Skips = {0}
    Callbacks = {"error"}
INVARIANTS
    RunsAsValidated
    StartedIsSound
PROPERTIES
    ErrorsChangeNothing
CHECK_DEADLOCK FALSE
