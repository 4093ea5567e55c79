-------------------------------- MODULE Keys --------------------------------
(***************************************************************************)
(* The table of keys (keys.c): it is read from a file that may be read     *)
(* again at any time, and the place of the key used last is remembered.    *)
(***************************************************************************)
EXTENDS Integers, Sequences, SequencesExt

CONSTANTS
  KeyId, Secret,    \* numbers and values of keys
  MaxKeys           \* bound: keys in the file

KeysAssumption == KeyId \subseteq Int /\ MaxKeys \in Nat

VARIABLES
  keys,             \* sorted by id; an id may be there more than once
  cache_valid, cache_key_id, cache_key_pos,
  answer            \* the last call and what it has returned

vars == <<keys, cache_valid, cache_key_id, cache_key_pos, answer>>

Key == [id : KeyId, val : Secret]
Nobody == [call |-> "none", id |-> 0, key |-> <<>>]

\* A file as qsort by compare_keys_by_id leaves it.
File == {f \in BoundedSeq(Key, MaxKeys) : \A i \in 1 .. Len(f) - 1 : f[i].id <= f[i + 1].id}

\* lookup_key: -1 without such a key, any of them if there are several.
LookupKey(table, id) ==
  LET places == {i \in DOMAIN table : table[i].id = id}
  IN IF places = {} THEN -1 ELSE CHOOSE i \in places : TRUE

\* KEY_Reload resets the cache, then determine_hash_delay looks up every key.
CacheAfter(table) ==
  IF table = <<>> THEN [valid |-> FALSE, id |-> cache_key_id, pos |-> cache_key_pos]
  ELSE LET id == table[Len(table)].id IN [valid |-> TRUE, id |-> id, pos |-> LookupKey(table, id)]

SetCache(c) == cache_valid' = c.valid /\ cache_key_id' = c.id /\ cache_key_pos' = c.pos

\* KEY_Initialise with a file that is empty.
Init ==
  /\ keys = <<>> /\ cache_valid = FALSE /\ cache_key_id = 0 /\ cache_key_pos = -1
  /\ answer = Nobody

\* KEY_Reload
Reload(table) == keys' = table /\ SetCache(CacheAfter(table)) /\ answer' = Nobody

\* get_key_pos
KeyPos(id) ==
  IF cache_valid /\ id = cache_key_id THEN cache_key_pos ELSE LookupKey(keys, id)

\* KEY_GetAuthDelay, KEY_GenerateAuth, KEY_CheckAuth: the key they use.
UseKey(id) ==
  LET pos == KeyPos(id)
  IN /\ SetCache([valid |-> TRUE, id |-> id, pos |-> pos])
     /\ answer' = [call |-> "use", id |-> id, key |-> IF pos < 0 THEN <<>> ELSE <<keys[pos]>>]
     /\ UNCHANGED keys

\* KEY_KeyKnown: a key in the cache is known.
KeyKnown(id) ==
  LET cached == cache_valid /\ id = cache_key_id
      pos == LookupKey(keys, id)
  IN /\ IF cached \/ pos < 0 THEN UNCHANGED <<cache_valid, cache_key_id, cache_key_pos>>
        ELSE SetCache([valid |-> TRUE, id |-> id, pos |-> pos])
     /\ answer' = [call |-> IF cached \/ pos >= 0 THEN "known" ELSE "unknown", id |-> id, key |-> <<>>]
     /\ UNCHANGED keys

Next ==
  \/ \E f \in File : Reload(f)
  \/ \E id \in KeyId : UseKey(id) \/ KeyKnown(id)

\* A key that is used is one of the file read last, whatever was cached before,
\* and there is none only when the file has none; what is said of a key is true,
\* but that one is known of which the cache remembers that it is not there.
KeysAreCurrent ==
  LET there(id) == \E i \in DOMAIN keys : keys[i].id = id
  IN CASE answer.call = "use" -> IF there(answer.id)
                                 THEN answer.key # <<>> /\ answer.key[1].id = answer.id /\ Contains(keys, answer.key[1])
                                 ELSE answer.key = <<>>
       [] answer.call = "unknown" -> ~there(answer.id)
       [] answer.call = "known" -> there(answer.id) \/ (cache_key_id = answer.id /\ cache_key_pos = -1)
       [] OTHER -> TRUE
=============================================================================
