SPECIFICATION Spec
INVARIANTS
    ExtractedAsParsed
    OmissionsTold
    AnswersExact
\* An algorithm ends with its output.
CHECK_DEADLOCK FALSE
