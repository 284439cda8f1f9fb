------------------------------- MODULE Links -------------------------------
(* What is promised of share links, however the service keeps them: a link   *)
(* that was revoked, rotated away or deleted is dead for good, one that has  *)
(* expired works again only by a renewal, and a rotation hands over what the *)
(* old link was to the new one, in one step.                                 *)

CONSTANT Links

VARIABLE state

Init == state = [link \in Links |-> "unknown"]

Become(link, new) == state' = [state EXCEPT ![link] = new]

Open(link) == state[link] = "unknown" /\ Become(link, "working")

\* Made by a rotation, which is yet to hand over to it.
Promise(link) == state[link] = "unknown" /\ Become(link, "promised")

HandOver(old, new) ==
    /\ state[old] \in {"working", "expired"}
    /\ state[new] = "promised"
    /\ state' = [state EXCEPT ![old] = "dead", ![new] = state[old]]

\* The old link died first, or the process did.
GiveUp(links) ==
    /\ \A link \in links : state[link] = "promised"
    /\ state' = [link \in Links |-> IF link \in links THEN "dead" ELSE state[link]]

Expire(link) == state[link] = "working" /\ Become(link, "expired")

Renew(link) == state[link] = "expired" /\ Become(link, "working")

End(link) == state[link] \in {"working", "expired"} /\ Become(link, "dead")

Next ==
    \/ \E link \in Links :
        Open(link) \/ Promise(link) \/ Expire(link) \/ Renew(link) \/ End(link)
    \/ \E old, new \in Links : HandOver(old, new)
    \/ \E links \in SUBSET Links : GiveUp(links)

Spec == Init /\ [][Next]_state
=============================================================================
