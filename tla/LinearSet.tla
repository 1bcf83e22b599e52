----------------------------- MODULE LinearSet ------------------------------
(***************************************************************************)
(* What the PIM list promises the host threads: a set of keys on which     *)
(* add, remove and contains take effect atomically, once, between their    *)
(* call and their return, in a memory of Capacity nodes.                   *)
(***************************************************************************)
EXTENDS Integers, FiniteSets

CONSTANTS Threads, Keys, Capacity

VARIABLES
    content,  \* the keys in the set
    call,     \* call[t]: the open operation of t and its outcome so far
    got       \* got[t]: what the latest operation of t returned

vars == <<content, call, got>>

NoCall == [op |-> "none", key |-> 0, res |-> "open"]

Init ==
    /\ content = {}
    /\ call = [t \in Threads |-> NoCall]
    /\ got = [t \in Threads |-> FALSE]

Invoke(t, op, k) ==
    /\ call[t] = NoCall
    /\ call' = [call EXCEPT ![t] = [op |-> op, key |-> k, res |-> "open"]]
    /\ UNCHANGED <<content, got>>

\* The outcome of op(k): an add fails on a key that is present or when the
\* memory is full, remove and contains fail on a key that is absent.
Succeeds(op, k) ==
    IF op = "add" THEN k \notin content /\ Cardinality(content) # Capacity ELSE k \in content

Effect(op, k) ==
    CASE op = "add"      -> IF Succeeds(op, k) THEN content \cup {k} ELSE content
      [] op = "remove"   -> content \ {k}
      [] op = "contains" -> content

TakeEffect(t) ==
    /\ call[t].op # "none"
    /\ call[t].res = "open"
    /\ content' = Effect(call[t].op, call[t].key)
    /\ call' = [call EXCEPT ![t].res = IF Succeeds(call[t].op, call[t].key) THEN "yes" ELSE "no"]
    /\ UNCHANGED got

Return(t) ==
    /\ call[t].res # "open"
    /\ got' = [got EXCEPT ![t] = (call[t].res = "yes")]
    /\ call' = [call EXCEPT ![t] = NoCall]
    /\ UNCHANGED content

Next ==
    \E t \in Threads :
        \/ \E op \in {"add", "remove", "contains"}, k \in Keys : Invoke(t, op, k)
        \/ TakeEffect(t)
        \/ Return(t)

Spec == Init /\ [][Next]_vars
=============================================================================
