------------------------------ MODULE MCSeppData ------------------------------
EXTENDS SeppData, FiniteSets

\* Up to four bytes: every length of the last group, the two characters of the
\* alphabet that differ (62 and 63) in each place, zeros and ones.
MCTexts == UNION {[1 .. n -> {0, 62, 191, 251, 255}] : n \in 0 .. 4}

\* No key, two of the size AES-128 takes, and one of the size of AES-256.
MCKeys == {Absent, Opaque("k", 16), Opaque("l", 16), Opaque("long", 32)}
MCBodies == {Absent, Opaque("body", 3)}
MCAads == {Opaque("aad", 40), Opaque("other aad", 41)}
=============================================================================
