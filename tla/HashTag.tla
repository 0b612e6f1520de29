------------------------------- MODULE HashTag -------------------------------
(***************************************************************************)
(* trim_hash_tag (src/utils/helper.rs), the part of a key that is hashed  *)
(* to route it, and the key the standalone Front actually hashes          *)
(* (src/proxy/standalone/front.rs), and upper (src/utils/helper.rs),     *)
(* which From<MessageMut> applies to every command name and check_valid  *)
(* to a CLUSTER sub-command.  The state is a key that grows one           *)
(* byte at a time, so every key over Bytes up to MAX_KEY_LEN is visited.  *)
(***************************************************************************)
EXTENDS Naturals, Sequences, SequencesExt

CONSTANTS
    Bytes,        \* the byte values keys are made of
    HashTag,      \* the configured hash tag: a sequence of bytes
    MAX_KEY_LEN   \* longest key enumerated

ASSUME HashTag \in Seq(Bytes) /\ MAX_KEY_LEN \in Nat

VARIABLE key

AllKeys == UNION {[1..n -> Bytes] : n \in 0..MAX_KEY_LEN}

\* trim_hash_tag without the end_offset > 1 check, so "abc{}de" hashes
\* the empty tag.
TrimHashTagEmptyTag(k, tag) ==
    IF Len(tag) # 2 THEN k
    ELSE LET begin == SelectInSeq(k, LAMBDA x : x = tag[1]) IN
         IF begin = 0 THEN k
         ELSE LET pos == SelectInSeq(SubSeq(k, begin, Len(k)),
                                     LAMBDA x : x = tag[2]) IN
              IF pos > 1 THEN SubSeq(k, begin + 1, begin + pos - 2) ELSE k

\* trim_hash_tag: with a two-byte tag, find the first open byte, then the
\* first close byte in key[begin..] (a slice that starts at the open byte
\* itself); when end_offset > 1 the bytes strictly between are hashed,
\* otherwise the whole key is.  pos is end_offset + 1.
TrimHashTag(k, tag) ==
    IF Len(tag) # 2 THEN k
    ELSE LET begin == SelectInSeq(k, LAMBDA x : x = tag[1]) IN
         IF begin = 0 THEN k
         ELSE LET pos == SelectInSeq(SubSeq(k, begin, Len(k)),
                                     LAMBDA x : x = tag[2]) IN
              IF pos > 2 THEN SubSeq(k, begin + 1, begin + pos - 2) ELSE k


\* The spec's hash tag rule, stated on positions: the bytes strictly
\* between the first open byte and the first close byte after it, when
\* there is at least one; the whole key otherwise.
SpecTrim(k, tag) ==
    LET opens == {i \in DOMAIN k : Len(tag) = 2 /\ k[i] = tag[1]}
        b == Min(opens)
        closes == {j \in DOMAIN k : opens # {} /\ j > b /\ k[j] = tag[2]}
        e == Min(closes)
    IN IF Len(tag) = 2 /\ opens # {} /\ closes # {} /\ e - b >= 2
       THEN SubSeq(k, b + 1, e - 1)
       ELSE k

\* upper: a byte below LOWER_BEGIN ('a' = 97) or above LOWER_END ('z' =
\* 122) is left alone, any other is lowered by UPPER_TO_LOWER ('a' - 'A' =
\* 32).  The bytes are u8, but no byte that is lowered is below 97.
Upper(k) ==
    [i \in DOMAIN k |-> IF k[i] < 97 \/ k[i] > 122 THEN k[i] ELSE k[i] - 32]

Init == key = <<>>

\* The next key: one more byte.
Extend == \E b \in Bytes : Len(key) < MAX_KEY_LEN /\ key' = Append(key, b)

Spec == Init /\ [][Extend]_key

\* trim_hash_tag hashes exactly the part of the key the spec's hash tag
\* rule names, for every key up to MAX_KEY_LEN.
TrimMatchesSpec == TrimHashTag(key, HashTag) = SpecTrim(key, HashTag)

=============================================================================
