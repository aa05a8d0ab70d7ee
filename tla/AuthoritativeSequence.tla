------------------------ MODULE AuthoritativeSequence ------------------------
(***************************************************************************)
(* What the engine promises its callers about one authoritative sequence   *)
(* per request: it is registered once, grows only at its end, its          *)
(* generation counts exactly the tokens it grew by, and once closed it     *)
(* never changes again (README.md "The authoritative sequence is the       *)
(* source of truth"; core/fabric.hpp "committed tokens are monotonic and   *)
(* only advance through valid commit").                                    *)
(***************************************************************************)
EXTENDS Integers, Sequences

CONSTANT Ids            \* the sequences

VARIABLES
    status,             \* absent, open, closed
    seq,                \* the authoritative tokens
    gen                 \* the authoritative generation

absVars == <<status, seq, gen>>

Init ==
    /\ status = [i \in Ids |-> "absent"]
    /\ seq = [i \in Ids |-> <<>>]
    /\ gen = [i \in Ids |-> 0]

\* Only i may change, in the way the action says.
Only(i) ==
    \A j \in Ids \ {i} :
        status'[j] = status[j] /\ seq'[j] = seq[j] /\ gen'[j] = gen[j]

Extends(s, t) ==
    Len(s) <= Len(t) /\ \A k \in 1..Len(s) : t[k] = s[k]

Register(i) ==
    /\ Only(i)
    /\ status[i] = "absent" /\ status'[i] = "open"
    /\ gen'[i] = 0

Extend(i) ==
    /\ Only(i)
    /\ status[i] = "open" /\ status'[i] = "open"
    /\ Extends(seq[i], seq'[i])
    /\ gen'[i] - gen[i] = Len(seq'[i]) - Len(seq[i])

Close(i) ==
    /\ Only(i)
    /\ status[i] \in {"open", "closed"} /\ status'[i] = "closed"
    /\ seq'[i] = seq[i] /\ gen'[i] = gen[i]

Next == \E i \in Ids : Register(i) \/ Extend(i) \/ Close(i)

Spec == Init /\ [][Next]_absVars
=============================================================================
