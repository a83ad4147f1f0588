------------------------------ MODULE RedisKeys ------------------------------
(***************************************************************************)
(* How src/src/cache/redis-cache.service.ts makes the keys of Redis, and   *)
(* which keys the patterns of deleteByPattern match.  A key is the         *)
(* sequence of its parts, without the prefix of the application.           *)
(***************************************************************************)
EXTENDS Naturals, Sequences

\* normalizePart: every character that is not a letter, a digit or one of "_.-"
\* becomes "_".  Of the parts the services pass only "*" has such a character:
\* the others are literals, hashes and slugs.
NormalizePart(part) == IF part = "*" THEN "_" ELSE part

\* key(), which also makes the patterns.
Key(parts) == [i \in DOMAIN parts |-> NormalizePart(parts[i])]

\* SCAN ... MATCH: a star at the end stands for whatever follows.
Matches(key, pattern) ==
  LET n == Len(pattern) IN
  \/ key = pattern
  \/ /\ pattern[n] = "*"
     /\ Len(key) >= n
     /\ SubSeq(key, 1, n - 1) = SubSeq(pattern, 1, n - 1)

\* A key that deleteManyByPattern deletes, given the parts of its patterns.
Deleted(key, patterns) == \E p \in patterns : Matches(key, Key(p))
=============================================================================
