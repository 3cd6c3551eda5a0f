----------------------------- MODULE MCSubstrate -----------------------------
(* Instances of the two parts of overwatch_v2 that keep durable records        *)
(* behind concurrent calls.  They share no state, so a behaviour is about one  *)
(* of them (`part`) and the other stays as it starts; what is one of several   *)
(* alike is interchangeable.                                                   *)
EXTENDS OntologyStore, ApprovalGate, TLC

VARIABLE part

BothInit == part \in {"ontology", "approvals"} /\ Init /\ GateInit

BothNext ==
    /\ UNCHANGED part
    /\ \/ part = "ontology"  /\ Next /\ UNCHANGED gateVars
       \/ part = "approvals" /\ GateNext /\ UNCHANGED vars

BothSpec == BothInit /\ [][BothNext]_<<part, vars, gateVars>>

\* A caller is a writer of the one part and an attempt of the other, and an
\* identifier an object and a token: fewer permutations to try.
ASSUME SharedNames == Writer = Attempt /\ Object = Token

Symmetry == Permutations(Writer) \union Permutations(Object) \union Permutations(Call)
=============================================================================
