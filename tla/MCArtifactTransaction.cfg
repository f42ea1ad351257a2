SPECIFICATION FairSpec
CONSTANTS
  N = 3
  Directory <- MCDirectory
  Root <- MCRoot
  dirOf <- MCdirOf
  Absent = Absent
  MaxCommits = 2
  MaxFaults = 2
  MaxCrashes = 2
INVARIANTS TypeOK Recoverable LoadedIsCommitted
PROPERTIES JournalResolved ImplementsAtomicGeneration
