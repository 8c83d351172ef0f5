---------------------------- MODULE MCUserProfile -----------------------------
(***************************************************************************)
(* The user's enrolled profile, for TLC: the template vault, and the       *)
(* freshness query of an installed profile.                                *)
(*                                                                         *)
(* The specifications share no variable, so what one of them does is the   *)
(* same whatever the other does.  A behaviour moves the one that part      *)
(* names and leaves the other in an initial state.                         *)
(*                                                                         *)
(* The properties are those of the two modules: SuccessIsDurable,          *)
(* ReadersTruthful and ImplementsStore, and FreshnessTruthful.             *)
(***************************************************************************)
EXTENDS TemplateVault, ProfileFreshness, TLC

VARIABLE part

ASSUME VaultAssumption /\ FreshnessAssumption

Start ==
    /\ part \in {"vault", "freshness"}
    /\ Init /\ (part # "vault" => dir = "absent")
    /\ FreshInit /\ (part # "freshness" => made = 0)

Move ==
    \/ part = "vault" /\ Next /\ UNCHANGED <<part, freshVars>>
    \/ part = "freshness" /\ FreshNext /\ UNCHANGED <<part, vars>>

Host == Start /\ [][Move]_<<part, vars, freshVars>>

(* Processes are interchangeable, and so are keys and profiles. *)
Symmetry == Permutations(Procs) \cup Permutations(Keys) \cup Permutations(Profiles)
====
