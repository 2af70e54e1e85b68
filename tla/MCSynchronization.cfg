\* Two instances that share an object of a lineage; one exports, one imports.
SPECIFICATION SynchronizationSpec
CONSTANTS
    Instances = {A, B}
    Exporters = {A}
    Importers = {B}
    Imports = {m1}
    MaxObjects = 5
    Subjects = {1, 3}
    MaxEvents = 1
    Absent = Absent
INVARIANT
    PatrimonyWhole
CHECK_DEADLOCK FALSE
