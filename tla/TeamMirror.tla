----------------------------- MODULE TeamMirror -----------------------------
(***************************************************************************)
(* What cycle sync promises, with the machines, the polls and the failures *)
(* left out: every owner publishes a succession of versions of each cycle  *)
(* in a team, stamped by one server clock, and every teammate holds, for   *)
(* each of those cycles, either nothing or some published version, which   *)
(* is only ever replaced by one that is not older in the same team.        *)
(***************************************************************************)
EXTENDS Naturals

CONSTANTS
  Users,      \* the accounts
  Keys,       \* <<owner, cycle>> pairs
  NoRow       \* the mirror of a cycle that is not held

VARIABLES
  published,  \* every version ever published: records owner, cycle, team, content, ts
  mirror      \* mirror[v][k]: the version of k that v holds, or NoRow

amVars == <<published, mirror>>

Init ==
  /\ published = {}
  /\ mirror = [v \in Users |-> [k \in Keys |-> NoRow]]

(* An owner publishes a version newer than all it published before of that *)
(* cycle in that team.                                                     *)
Publish ==
  \E u \in Users : \E r \in published' \ published :
    /\ published' = published \union {r}
    /\ r.owner = u
    /\ \A p \in published :
         p.owner = u /\ p.cycle = r.cycle /\ p.team = r.team => p.ts < r.ts
    /\ UNCHANGED mirror

(* v replaces what it holds of a teammate's cycle by a published version   *)
(* that is not older, when both are of the same team.                      *)
Advance ==
  \E v \in Users, k \in Keys, r \in published :
    /\ <<r.owner, r.cycle>> = k
    /\ r.owner # v
    /\ mirror[v][k] # NoRow /\ mirror[v][k].team = r.team => mirror[v][k].ts <= r.ts
    /\ mirror' = [mirror EXCEPT ![v][k] = r]
    /\ UNCHANGED published

(* v drops everything it holds: the cache of a team it has left.           *)
Forget ==
  \E v \in Users :
    /\ mirror' = [mirror EXCEPT ![v] = [k \in Keys |-> NoRow]]
    /\ UNCHANGED published

Next == Publish \/ Advance \/ Forget

MirrorSpec == Init /\ [][Next]_amVars
=============================================================================
