--------------------------- MODULE SlidingWindow ---------------------------
(* SlidingWindowLimiter (access.py): the state of a limiter and what its two *)
(* methods make of it.  Both run under the limiter's own lock, so they are   *)
(* atomic; but `now` is read by the caller before it gets that lock.         *)
(*                                                                           *)
(* A limiter is a sequence of entries [key, stamps], the least recently used *)
(* one first, as in its OrderedDict.  A stamp is the age of an attempt, and  *)
(* `now` is the age of the moment at which the caller read the clock.        *)
EXTENDS Naturals, SequencesExt

CONSTANTS
    Limit,      \* attempts allowed per key and window
    Window,     \* its length
    MaxKeys     \* entries kept

ASSUME LimiterAssumption ==
    /\ Limit \in Nat \ {0}
    /\ Window \in Nat \ {0}
    /\ MaxKeys \in Nat \ {0}

KeysOf(entries) == {entries[i].key : i \in DOMAIN entries}

\* A key has one entry at most.
Place(entries, key) == CHOOSE i \in DOMAIN entries : entries[i].key = key

Others(entries, key) ==
    IF key \in KeysOf(entries) THEN RemoveAt(entries, Place(entries, key)) ELSE entries

StampsOf(entries, key) ==
    IF key \in KeysOf(entries) THEN entries[Place(entries, key)].stamps ELSE <<>>

\* Ages of `bound` and more are dropped from the head, up to the first below it.
DropOld(ages, bound) ==
    LET old == {i \in DOMAIN ages : \A j \in 1..i : ages[j] >= bound}
    IN  SubSeq(ages, Cardinality(old) + 1, Len(ages))

\* Deviation: an attempt leaves the window one tick early.
TrimmedEarly(stamps, now) == DropOld(stamps, now + Window - 1)

\* Stamps that have left the window.
Trimmed(stamps, now) == DropOld(stamps, now + Window)

Admits(entries, key, now) == Len(Trimmed(StampsOf(entries, key), now)) < Limit

\* Room for the key: a new one may push out the least recently used one.
Room(entries, key) ==
    LET rest == Others(entries, key)
    IN  IF Len(rest) < MaxKeys THEN rest ELSE Tail(rest)

\* Deviation: a refused attempt counts like an admitted one.
AfterAllowCounting(entries, key, now) ==
    Append(Room(entries, key),
           [key |-> key, stamps |-> Append(Trimmed(StampsOf(entries, key), now), now)])

\* allow(): the entry moves to the end, and grows if the attempt is admitted.
AfterAllow(entries, key, now) ==
    LET kept == Trimmed(StampsOf(entries, key), now)
    IN  Append(Room(entries, key),
               [key |-> key,
                stamps |-> IF Len(kept) < Limit THEN Append(kept, now) ELSE kept])

\* clear()
AfterClear(entries, key) == Others(entries, key)
=============================================================================
