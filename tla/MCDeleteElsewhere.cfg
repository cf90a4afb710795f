SPECIFICATION Spec
CONSTANTS
    s1 = s1
    s2 = s2
    s3 = s3
    home = home
    other = other
    demo = demo
    spare = spare
    None = None
    Sessions = {s1, s2, s3}
    Dirs = {home, other}
    Cwd = home
    Names = {demo, spare}
    DockerOutputs = {None}
    MaxLive = 2
    CommandLines <- MCCommandLines
CHECK_DEADLOCK FALSE
PROPERTIES
    DeletedMeansGone
