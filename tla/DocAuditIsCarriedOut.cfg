SPECIFICATION Spec
INVARIANTS
    AuditIsCarriedOut
