SPECIFICATION Spec
INVARIANTS
    RoundTrip
    CodecSafe
CHECK_DEADLOCK FALSE
