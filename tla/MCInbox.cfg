SPECIFICATION Spec
CONSTANTS
  r1 = r1
  r2 = r2
  note = note
  follow = follow
  alice = alice
  remote = remote
  local = local
  Requests = {r1, r2}
  Activities = {note, follow}
  Recipients = {alice}
  Shared = shared
  RemoteSigners = {remote}
  SignerOf <- MCSignerOf
  HandlerCount = 2
  Retention = 1
  SendWindow = 1
  KeyTtl = 0
  MaxRotations = 1
  MaxFaults = 1
SYMMETRY SlotSymmetry
INVARIANTS TypeOK HandledAtMostOnce RecordedMeansHandled BlockIsHonoured RefusedOnlyForCause
