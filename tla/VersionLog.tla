----------------------------- MODULE VersionLog -----------------------------
(***************************************************************************)
(* What a versioned store promises of an object: its versions are numbered *)
(* 1, 2, 3 ... without a gap, and at most the newest one is current.  A    *)
(* version is appended only when no other one is current.                  *)
(***************************************************************************)
EXTENDS Naturals

CONSTANT Object

VARIABLES
    versions,   \* of each object, the version numbers written
    current     \* of each object, the versions not superseded

Init ==
    /\ versions = [o \in Object |-> {}]
    /\ current = [o \in Object |-> {}]

\* The next version of o is written, and is the current one.
Append(o) ==
    \E n \in versions[o] \union {0} :
        /\ versions[o] = 1..n
        /\ current[o] = {}
        /\ versions' = [versions EXCEPT ![o] = @ \union {n + 1}]
        /\ current' = [current EXCEPT ![o] = {n + 1}]

\* The current version of o is superseded.
Supersede(o) ==
    /\ current' = [current EXCEPT ![o] = {}]
    /\ UNCHANGED versions

Next == \E o \in Object : Append(o) \/ Supersede(o)

Spec == Init /\ [][Next]_<<versions, current>>

\* At most the newest version of an object is current.
OnlyNewestCurrent ==
    \A o \in Object : \A v \in current[o], u \in versions[o] : u <= v
=============================================================================
