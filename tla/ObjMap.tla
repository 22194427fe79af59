------------------------------- MODULE ObjMap -------------------------------
(***************************************************************************)
(* Maps.  The contents are the keys in the order in which the              *)
(* unordered_map enumerates them (the values play no part in what is       *)
(* checked).  Inserting a new key may rehash, so any order may follow;     *)
(* erasing keeps the order of the others.                                  *)
(***************************************************************************)
EXTENDS Integers, Sequences, SequencesExt, Values

CONSTANTS Text,      \* the contents of each string object, by address
          ValueTypes \* addresses of the strings, bools, ranges and classes

ValidateKey(key) == ~key.object \/ key = NullVal \/ key.bits \in ValueTypes

IsString(value) == value.object /\ value.bits \in DOMAIN Text

(* Faulty variant: strings are hashed by identity. *)
HashIdentity(value) == <<"bits", value>>

(* Only whether two hashes are equal matters. *)
Hash(value) ==
    IF IsString(value) THEN <<"text", Text[value.bits]>> ELSE <<"bits", value>>

(* Strings are compared by their contents, all else by identity.            *)
KeyEqual(a, b) ==
    IF IsString(a) /\ IsString(b) THEN Text[a.bits] = Text[b.bits] ELSE a = b

(* The position of a key: a lookup only compares the keys of its bucket.    *)
Find(contents, key) ==
    {i \in 1..Len(contents) :
        Hash(contents[i]) = Hash(key) /\ KeyEqual(contents[i], key)}

ContainsKey(contents, key) == Find(contents, key) # {}

(* Setting a key that is there keeps the key object and its place.          *)
AfterSet(contents, key) ==
    IF ContainsKey(contents, key) THEN {contents}
    ELSE SetToSeqs(ToSet(contents) \cup {key})

AfterRemove(contents, key) ==
    LET at == Find(contents, key) IN
    IF at = {} THEN contents ELSE RemoveAt(contents, CHOOSE i \in at : TRUE)

(* Faulty variant: iterators are the keys themselves. *)
NotWrapped(raw) == raw

WrapIterator(raw) == IF raw.object THEN Object(raw.bits + 1) ELSE raw
UnwrapIterator(wrapped) ==
    IF wrapped.object THEN Object(wrapped.bits - 1) ELSE wrapped

(* Iterate aborts when the key it continues from is no longer in the map.   *)
IterateAborts(contents, previous) ==
    /\ contents # <<>> /\ previous # NullVal
    /\ ~ContainsKey(contents, UnwrapIterator(previous))

MapIterate(contents, previous) ==
    IF contents = <<>> THEN FalseVal
    ELSE IF previous = NullVal THEN WrapIterator(contents[1])
    ELSE LET at == Find(contents, UnwrapIterator(previous))
             next == IF at = {} THEN Len(contents) + 1
                     ELSE (CHOOSE i \in at : TRUE) + 1
         IN IF next > Len(contents) THEN FalseVal
            ELSE WrapIterator(contents[next])
=============================================================================
