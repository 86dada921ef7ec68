SPECIFICATION Spec
CONSTANTS
    Platforms = {"linux", "macos", "windows"}
    Lengths = {0, 1, 3}
    Handles = {1, 2, 3}
    Addresses = {11, 12}
INVARIANTS
    MappingIntact
    ReleasesItsOwn
    NothingLeaks
