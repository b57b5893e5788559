-------------------------- MODULE ProfileRegister ---------------------------
(***************************************************************************)
(* What the profile screens promise: a register with one profile per user, *)
(* and no calls, pictures or screens.  A request names the fields it       *)
(* changes.  When it takes effect, these fields change in the profile of   *)
(* the user who made it, and nothing else does; or it is dropped and       *)
(* nothing changes.  Profiles.tla implements it for patient users.         *)
(***************************************************************************)
CONSTANTS
    Users,
    Fields,       \* of a profile
    NoRequest,
    NoProfile

VARIABLES
    register,     \* the profile of each user
    request       \* the requests under way: who made it, and the new fields

vars == <<register, request>>

Places == DOMAIN request

Init ==
    /\ DOMAIN register = Users
    /\ \A i \in Places : request[i] = NoRequest

(* A press makes one request, possibly in several places.                  *)
Ask ==
    LET new == {i \in Places : request'[i] # request[i]}
    IN  /\ new # {}
        /\ DOMAIN request' = Places
        /\ \A i \in new : request[i] = NoRequest /\ request'[i].by \in Users
        /\ \A i, j \in new : request'[i] = request'[j]
        /\ UNCHANGED register

(* The first request of a user has to bring every field.                   *)
Replaced(old, new) ==
    [f \in Fields |-> IF f \in DOMAIN new THEN new[f] ELSE old[f]]

Take(i) ==
    LET r == request[i]
    IN  /\ r # NoRequest
        /\ register[r.by] = NoProfile => Fields \subseteq DOMAIN r.new
        /\ register' = [register EXCEPT ![r.by] = Replaced(@, r.new)]
        /\ request' = [request EXCEPT ![i] = NoRequest]

Drop(i) ==
    /\ request[i] # NoRequest
    /\ request' = [request EXCEPT ![i] = NoRequest]
    /\ UNCHANGED register

Next == Ask \/ \E i \in Places : Take(i) \/ Drop(i)

Spec == Init /\ [][Next]_vars
=============================================================================
