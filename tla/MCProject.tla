----------------------------- MODULE MCProject -----------------------------
(***************************************************************************)
(* The administration of a project on the server, for TLC: its members, its *)
(* flags and environments, and the variants and rules of a flag. They share *)
(* no row, so each is looked at by itself: a behaviour is one of a single   *)
(* part, chosen at the start, and the others stand still.                   *)
(***************************************************************************)
EXTENDS ProjectMembers, FlagEnvironments, FlagVariants, TLC

CONSTANT NoData

VARIABLE part

\* A rule serves one variant, or a rollout over one or two of them beside a
\* variant that is not used.
MCDrafts ==
  LET Half(v) == [key |-> v, weight |-> 50]
      All(v) == [key |-> v, weight |-> 100]
  IN UNION {{[variant |-> v, rollout |-> <<>>], [variant |-> w, rollout |-> <<All(v)>>],
             [variant |-> v, rollout |-> <<Half(v), Half(w)>>]} : v, w \in Variants}

\* The rows of a part that stands still: none, and a flag with a variant of its own.
NoMatrix == /\ live = {} /\ states = {} /\ used = {} /\ missed = {}
            /\ request = [w \in Tasks |-> NoRequest]
NoVariants == /\ flag = [variants |-> {NoData}, default |-> NoData] /\ rules = NoRules
              /\ change = [e \in Edits |-> NoChange] /\ astray = FALSE

ProjectInit ==
  /\ Init
  /\ \/ part = "members" /\ NoMatrix /\ NoVariants
     \/ part = "flags" /\ MatrixInit /\ NoVariants
     \/ part = "variants" /\ NoMatrix /\ VariantInit

ProjectNext ==
  /\ UNCHANGED part
  /\ \/ part = "members" /\ Next /\ UNCHANGED <<matrixVars, variantVars>>
     \/ part = "flags" /\ MatrixNext /\ UNCHANGED <<vars, variantVars>>
     \/ part = "variants" /\ VariantNext /\ UNCHANGED <<vars, matrixVars>>

ProjectSpec == ProjectInit /\ [][ProjectNext]_<<vars, part, matrixVars, variantVars>>

\* No definition tells these values apart. The parts use the same ones.
Symmetry == Permutations(Slots \cup Slugs) \cup Permutations(Users \cup Variants)

\* Once a rule has gone astray nothing more is claimed of the rules, and this is
\* never taken back: TLC does not go on from there.
NotAstray == ~astray
-----------------------------------------------------------------------------
\* The rows, the calls under way with the copies they hold, and the history
\* are of the types their modules give; among them, a state row belongs to a
\* flag and an environment there are, and the weights of a rollout, also of one
\* a variant was taken from, add up to 100.
RowsAreWellFormed == TypeOK /\ MatrixTypeOK /\ (part = "variants" => VariantTypeOK)
=============================================================================
