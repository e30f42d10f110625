SPECIFICATION Spec
CONSTANTS
  Priorities <- MCPriorities
  MaxTasks = 5
INVARIANT QueueSorted
PROPERTY ImplementsPriorityQueue
