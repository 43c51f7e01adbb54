CONSTANTS
  root = root  left = left  right = right  leaf = leaf
  orders = orders  emails = emails  idle = idle
  removeOnComplete = removeOnComplete  removeOnFail = removeOnFail
  Job = {root, left, right, leaf}
  Root = root
  Queue = {orders, emails, idle}
  Field = {removeOnComplete, removeOnFail}
  Blank = Blank
  Count = {0, 1, 2, 3}
  Children <- MCChildren
  QueueOf <- MCQueueOf
SPECIFICATION MCSpec
INVARIANTS FlowTypeOK RetentionInOrder
CHECK_DEADLOCK FALSE
