\* A request sent whole to one backend: the client should get that backend's answer.
CONSTANTS
    Verbs <- MCVerbs
    Args <- MCArgs
    MAX_ARGS = 3
    Answers <- MCAnswers
SPECIFICATION Spec
INVARIANTS ForwardedReplyMatchesSpec
CHECK_DEADLOCK FALSE
