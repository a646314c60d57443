SPECIFICATION Spec
CONSTANTS
  Accounts = {a1}
  Quotas = {q1, q2}
  Tasks = {t1, t2}
  Loads = {l1, l2}
  Capacity = 1
  MaxStarts = 2
  None = None
  Torn = Torn
  Todo = Todo
  Listed = Listed
SYMMETRY Symmetry
VIEW AllButShown
INVARIANTS TypeOK LastLoadIsFresh BanSettles
CHECK_DEADLOCK FALSE
