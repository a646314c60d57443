SPECIFICATION Spec
CONSTANTS
  Subs = {s1}
  Topics = {oauth_topic, models_topic}
  OAuth = oauth_topic
  Keys = {k1, k2}
  Capacity = 2
  MaxRenewals = 3
  Blank = Blank
  None = None
INVARIANTS TypeOK AtRestCurrent
PROPERTIES TokenArrives TaskEnds
CHECK_DEADLOCK FALSE
