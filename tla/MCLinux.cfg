SPECIFICATION Spec
INVARIANTS ProcessesRight MemoryRight StackRight 
PROPERTIES WaitReturnsChild FilesRight
