CONSTANTS
    f1 = f1
    f2 = f2
    c1 = c1
    c2 = c2
    Absent = Absent
    NoMeta = NoMeta
    Unparsable = Unparsable
    Deps <- MCDeps
    Files <- MCFiles
    Contents <- MCContents
    Base <- MCBase

SPECIFICATION Spec

PROPERTY
    ImplementsJDKCache
