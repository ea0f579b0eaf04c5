SPECIFICATION Spec
CONSTANTS
  Client = {c1, c2}
  Nobody = Nobody
  Thread = {t1, t2}
  Notice = {"network"}
SYMMETRY Threads
INVARIANT OneClientAtATime
