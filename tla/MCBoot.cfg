SPECIFICATION Spec
CONSTANTS
    Machine <- MCMachine
    PciMax = 2
    Stages = {0, 1, 2, 3, 4, 5, 6, 7, 8, 9, 10}
    KernelEnd = 2
    TotalPages = 7
    HeapStart = 7
    HeapPages = 2
    MaxPage = 10
INVARIANTS BootReports InitOrder PagesHeldOnce
PROPERTIES BootSettles
CHECK_DEADLOCK FALSE
