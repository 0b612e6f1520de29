\* trim_hash_tag against the spec's hash tag rule for the usual {} tag, on every key of up to five bytes.
CONSTANTS
    Bytes <- MCBytes
    HashTag <- MCBraces
    MAX_KEY_LEN = 5
SPECIFICATION Spec
INVARIANTS TrimMatchesSpec
CHECK_DEADLOCK FALSE
