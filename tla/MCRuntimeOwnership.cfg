SPECIFICATION FairSpec
CONSTANTS
  Client = {c1, c2}
  Nobody = Nobody
  Thread = {t1, t2}
  Notice = {"network", "foreground"}
INVARIANTS TypeOK OneInsideRuntime UnownedIsDown AccountIsOwners OwnerRunsOrIsBusy
PROPERTIES CallsReturn IsALease
