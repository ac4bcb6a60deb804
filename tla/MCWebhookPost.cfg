CONSTANTS
  Requests = {q1} MaxConcurrent = 1 Managers = {m1} Leads = {l1}
  Policies = {"open"} Blocking = {} MaxDecisions = 1
  BatchSize = 1 MaxEmits = 2
SPECIFICATION AdmissionSpec
CHECK_DEADLOCK FALSE
PROPERTIES EventsArePosted
