\* Two registrations, two consumers, every configuration, two faults.
CONSTANTS
    Registrations = 2
    Consumers = {c1, c2}
    MaxFaults = 2
SPECIFICATION FairSpec
CHECK_DEADLOCK FALSE
INVARIANTS
    TypeOK
    AckedMeansMailed
    NothingVanishes
    MailedOncePerFault
PROPERTIES
    RegistrationsAreMailed
