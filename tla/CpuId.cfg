SPECIFICATION Spec
CONSTANT Hosts <- MCHosts

INVARIANTS TypeOK FeaturesAreTheCpus SizesAreTheCpus VersionIsOfType
CHECK_DEADLOCK FALSE
