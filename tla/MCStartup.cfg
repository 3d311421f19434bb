\* Two backends, three rules, every way the messages can merge.
SPECIFICATION Spec
CONSTANTS
    b1 = b1
    b2 = b2
    Backend = {b1, b2}
    Url = {"u1", "u2", "u3"}
    Rules <- McRules
INVARIANTS TypeOK TablesBeforeRules CrashesEarly
PROPERTIES GetsConfigured
\* A program may exit, or have nothing more to do.
CHECK_DEADLOCK FALSE
