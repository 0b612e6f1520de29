\* The replies of MGET, DEL, EXISTS and MSET against the spec, for every request of up to four arguments and every outcome of each key.
CONSTANTS
    Verbs <- MCVerbs
    Args <- MCArgs
    MAX_ARGS = 4
    Answers <- MCAnswers
SPECIFICATION Spec
INVARIANTS FanOutReplyMatchesSpec
CHECK_DEADLOCK FALSE
