-------------------------------- MODULE Store --------------------------------
(***************************************************************************)
(* What the key-value service promises to the users of a clerk: one map    *)
(* for all of them.  An operation is tried any number of times; a try      *)
(* takes effect at most once, at one moment after it was made, possibly    *)
(* when its operation is long over.  An operation that returns has had a   *)
(* try take effect since it was called, and returns what a try has read;   *)
(* but a Get may return the empty value instead.  An operation that makes  *)
(* one try is linearizable.  A clerk may also never return.                *)
(***************************************************************************)
EXTENDS Integers, Sequences

CONSTANTS
    Clerk,
    Key,
    None,
    Try,          \* names of the tries
    Operations    \* [type, key, val] that are asked for

VARIABLES
    map,          \* map[k], << >> for a key without a value
    tries,        \* tries without effect so far: [name, clerk, number, op]
    client        \* client[c]: [number, op, read, answer] of its operation

vars == <<map, tries, client>>

Init ==
    /\ map    = [k \in Key |-> << >>]
    /\ tries  = {}
    /\ client = [c \in Clerk |-> [number |-> 0, op |-> None, read |-> {},
                                  answer |-> << >>]]

Invoke(c, op) ==
    /\ client[c].op = None
    /\ client' = [client EXCEPT ![c] = [number |-> @.number + 1, op |-> op,
                                        read |-> {}, answer |-> << >>]]
    /\ UNCHANGED <<map, tries>>

Attempt(c, t) ==
    /\ client[c].op # None
    /\ \A u \in tries : u.name # t
    /\ tries' = tries \cup {[name |-> t, clerk |-> c,
                             number |-> client[c].number, op |-> client[c].op]}
    /\ UNCHANGED <<map, client>>

Written(old, op) ==
    CASE op.type = "Put"    -> <<op.val>>
      [] op.type = "Append" -> Append(old, op.val)
      [] op.type = "Get"    -> old

TakeEffect(t) ==
    /\ t \in tries
    /\ tries' = tries \ {t}
    /\ map' = [map EXCEPT ![t.op.key] = Written(@, t.op)]
    /\ client' = [client EXCEPT ![t.clerk] =
         IF @.op # None /\ @.number = t.number
         THEN [@ EXCEPT !.read = @ \cup {map[t.op.key]}]
         ELSE @]

Lose(t) ==
    /\ t \in tries
    /\ tries' = tries \ {t}
    /\ UNCHANGED <<map, client>>

End(c, answer) ==
    /\ client[c].op # None
    /\ client' = [client EXCEPT ![c] = [@ EXCEPT !.op = None, !.read = {},
                                                 !.answer = answer]]
    /\ UNCHANGED <<map, tries>>

Return(c) ==
    /\ client[c].read # {}
    /\ \/ client[c].op.type # "Get" /\ End(c, << >>)
       \/ client[c].op.type = "Get" /\ \E v \in client[c].read : End(c, v)

ReturnEmpty(c) == client[c].op # None /\ client[c].op.type = "Get" /\ End(c, << >>)

Next ==
    /\ vars' # vars
    /\ \/ \E c \in Clerk :
            \/ \E op \in Operations : Invoke(c, op)
            \/ \E t \in Try : Attempt(c, t)
            \/ Return(c) \/ ReturnEmpty(c)
       \/ \E t \in tries : TakeEffect(t) \/ Lose(t)

Spec == Init /\ [][Next]_vars
=============================================================================
