--------------------------- MODULE ExclusivePool ---------------------------
(***************************************************************************)
(* What a pool of exclusive resources promises, with nothing said about    *)
(* how: a resource comes into the pool once, is held by at most one client *)
(* at a time, and leaves only while nobody holds it.  LuaStatePool         *)
(* implements this specification.                                          *)
(***************************************************************************)
EXTENDS Naturals

CONSTANTS
    Clients,        \* who may hold a resource
    Resources,      \* every resource there can ever be
    None            \* what a client without a resource holds

VARIABLES
    members,        \* the resources that are in the pool
    retired,        \* the resources that have left the pool
    holds           \* what each client holds

vars == <<members, retired, holds>>

Held == {holds[c] : c \in Clients} \ {None}

Init ==
    /\ members = {}
    /\ retired = {}
    /\ holds = [c \in Clients |-> None]

Create(r) ==
    /\ r \in Resources \ (members \cup retired)
    /\ members' = members \cup {r}
    /\ UNCHANGED <<retired, holds>>

Take(c, r) ==
    /\ holds[c] = None
    /\ r \in members \ Held
    /\ holds' = [holds EXCEPT ![c] = r]
    /\ UNCHANGED <<members, retired>>

Give(c) ==
    /\ holds[c] # None
    /\ holds' = [holds EXCEPT ![c] = None]
    /\ UNCHANGED <<members, retired>>

Retire(r) ==
    /\ r \in members \ Held
    /\ members' = members \ {r}
    /\ retired' = retired \cup {r}
    /\ UNCHANGED holds

Next ==
    \/ \E r \in Resources : Create(r) \/ Retire(r)
    \/ \E c \in Clients : Give(c) \/ \E r \in Resources : Take(c, r)

Spec == Init /\ [][Next]_vars
=============================================================================
