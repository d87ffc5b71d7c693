SPECIFICATION Spec
CONSTANTS
    a1 = a1
    driver = driver
    abortAll = abortAll
    Agents = {a1}
    Callers = {driver, abortAll}
    Driver = driver
    HasTimeout = TRUE
    Steers = TRUE
    MaxInvocations = 2
    Overlapped = {1}
CHECK_DEADLOCK FALSE
INVARIANTS TypeOK AdmissionIsClean
PROPERTIES KeepsContract MessagesPrecedeStop CallsEnd
