SPECIFICATION Spec
CONSTANTS
  Keys = {k1}
  Absent = Absent
  Objects = {o1, o2}
  Handlers = {"AddFunc", "UpdateFunc", "DeleteFunc"}
  MaxPending = 3
CONSTRAINT Bounded
INVARIANTS CacheCatchesUp NotesFollowCache
