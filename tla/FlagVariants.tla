---------------------------- MODULE FlagVariants ----------------------------
(***************************************************************************)
(* The variants of one flag and the targeting rules that name them:         *)
(* AddVariant, RenameVariant, DeleteVariant and Update of FlagService, and  *)
(* the writes of RuleService.                                               *)
(*                                                                          *)
(* A change of the flag reads the row, changes the copy and writes all of   *)
(* it back in the tenant transaction of its request. Rules are written on   *)
(* the pool, outside that transaction: what a forced deletion has done to   *)
(* them stays when it is rolled back.                                       *)
(*                                                                          *)
(* The flag is not a boolean one, whose variants cannot change, and is not  *)
(* deleted. Names and the conditions of rules are left out; so are their    *)
(* priorities, the subject of WebRules. A call that is refused is not a     *)
(* step.                                                                    *)
(***************************************************************************)
EXTENDS Naturals, FiniteSets

CONSTANTS
  Edits,      \* changes of the flag that can be under way at the same time
  Variants,   \* variant keys
  RuleIds,
  Drafts      \* the rules that are written, all of them valid

NoRule == [variant |-> "none", rollout |-> <<>>]

\* A rule serves its variant or, if there is one, its rollout: entries by their
\* positions. An entry that is taken out leaves the positions of the others.
Entry == [key : Variants, weight : 1 .. 100]

\* The weights at some places, added up: each is that many units.
Units(entries, places) == UNION {{i} \X (1 .. entries[i].weight) : i \in places}
Weight(entries, places) == Cardinality(Units(entries, places))

IsRule(r) ==
  /\ r.variant \in Variants
  /\ DOMAIN r.rollout \subseteq Nat /\ IsFiniteSet(DOMAIN r.rollout)
  /\ \A i \in DOMAIN r.rollout : r.rollout[i] \in Entry
  /\ DOMAIN r.rollout # {} => Weight(r.rollout, DOMAIN r.rollout) = 100

\* RuleService.Create and Update store only rules that pass Rule.Validate.
ASSUME DraftsAssumption == \A r \in Drafts : IsRule(r)

Flag == {f \in [variants : SUBSET Variants, default : Variants] : f.default \in f.variants}

VARIABLES
  flag,     \* the committed row
  rules,    \* the rules, NoRule for an id that is not in use
  change,   \* per edit: how far its call has come, with its copies
  astray    \* history: a rule came to name a variant the flag does not have in a
            \* way the code does not look for

variantVars == <<flag, rules, change, astray>>

NoChange == [pc |-> "idle"]

AreRules(rs) == DOMAIN rs = RuleIds /\ \A r \in RuleIds : rs[r] = NoRule \/ IsRule(rs[r])

VariantTypeOK ==
  /\ flag \in Flag /\ AreRules(rules) /\ astray \in BOOLEAN
  /\ DOMAIN change = Edits
  /\ \A s \in Edits : change[s] # NoChange =>
       /\ DOMAIN change[s] = {"pc", "flag", "old", "variant", "rules"}
       /\ change[s].pc \in {"read", "listed", "updated"}
       /\ change[s].flag \in Flag /\ change[s].old \in Flag
       /\ change[s].variant \in Variants \cup {"none"} /\ AreRules(change[s].rules)

NoRules == [r \in RuleIds |-> NoRule]

VariantInit ==
  /\ flag \in Flag
  /\ rules = NoRules
  /\ change = [s \in Edits |-> NoChange]
  /\ astray = FALSE

-----------------------------------------------------------------------------
KeysOf(entries) == {entries[i].key : i \in DOMAIN entries}

\* What the evaluator can return for a match.
Serves(r) == IF r = NoRule THEN {}
             ELSE IF DOMAIN r.rollout = {} THEN {r.variant} ELSE KeysOf(r.rollout)

\* Mutant: a rollout is not searched for the variant.
UsesAsVariant(r, v) == r.variant = v

\* r.VariantKey == variantKey, or some entry of the rollout names it.
Uses(r, v) == r.variant = v \/ v \in KeysOf(r.rollout)

\* A forced deletion: the default takes the place of the variant, and in a
\* rollout its weight goes to the first entry that stays.
Patched(r, v, d) ==
  LET kept == {i \in DOMAIN r.rollout : r.rollout[i].key # v}
      removed == DOMAIN r.rollout \ kept
      first == CHOOSE i \in kept : \A j \in kept : i <= j
  IN [variant |-> IF r.variant = v \/ (removed # {} /\ kept = {}) THEN d ELSE r.variant,
      rollout |-> [i \in kept |-> IF i # first THEN r.rollout[i] ELSE
         [key |-> r.rollout[i].key, weight |-> r.rollout[i].weight + Weight(r.rollout, removed)]]]

\* GetByKey.
GetByKey(s) ==
  /\ change[s] = NoChange
  /\ change' = [change EXCEPT ![s] =
       [pc |-> "read", flag |-> flag, old |-> flag, variant |-> "none", rules |-> NoRules]]
  /\ UNCHANGED <<flag, rules, astray>>

\* UPDATE writes the whole copy, and waits for a transaction that has written
\* the row.
Update(s, f) ==
  /\ \A t \in Edits : change[t].pc # "updated"
  /\ change' = [change EXCEPT ![s].pc = "updated", ![s].flag = f]
  /\ UNCHANGED <<flag, rules, astray>>

AddVariant(s, v) ==
  /\ change[s].pc = "read" /\ v \notin change[s].flag.variants
  /\ Update(s, [change[s].flag EXCEPT !.variants = @ \cup {v}])

RenameVariant(s) == change[s].pc = "read" /\ Update(s, change[s].flag)

\* Flag.Validate.
Validate(f) == f.variants # {} /\ f.default \in f.variants

\* PATCH: each of the two replaces what was read, or is absent from the body.
PatchFlag(s, vs, d) ==
  LET f == [variants |-> vs, default |-> d] IN
  /\ change[s].pc = "read"
  /\ Validate(f) /\ Update(s, f)

\* DeleteVariant looks for rules that use the variant, and without force gives
\* up if there are any.
ListRules(s, v, force) ==
  LET affected == [r \in RuleIds |-> IF rules[r] # NoRule /\ Uses(rules[r], v)
                                     THEN rules[r] ELSE NoRule] IN
  /\ change[s].pc = "read"
  /\ v \in change[s].flag.variants /\ v # change[s].flag.default
  /\ force \/ affected = NoRules
  /\ change' = [change EXCEPT ![s].pc = "listed", ![s].variant = v, ![s].rules = affected]
  /\ UNCHANGED <<flag, rules, astray>>

\* A rule that names a variant that is not there, or that another call is
\* about to delete: nobody checks.
Unchecked(r, others) ==
  ~(Serves(r) \subseteq flag.variants
      \ {change[t].variant : t \in {u \in others : change[u].pc \in {"listed", "updated"}}})

\* It then writes the copies of the rules one after the other. The upsert
\* overwrites what was written since, and brings back a rule deleted since.
PatchRule(s, r) ==
  /\ change[s].pc = "listed" /\ change[s].rules[r] # NoRule
  /\ LET new == Patched(change[s].rules[r], change[s].variant, change[s].flag.default) IN
       /\ rules' = [rules EXCEPT ![r] = new]
       /\ astray' = (astray \/ Unchecked(new, Edits \ {s}))
  /\ change' = [change EXCEPT ![s].rules[r] = NoRule]
  /\ UNCHANGED flag

DropVariant(s) ==
  /\ change[s].pc = "listed" /\ change[s].rules = NoRules
  /\ Update(s, [change[s].flag EXCEPT !.variants = @ \ {change[s].variant}])

\* The middleware commits. A PATCH may drop any variant, and a copy that is
\* out of date drops what was added since.
CommitChange(s) ==
  /\ change[s].pc = "updated"
  /\ flag' = change[s].flag
  /\ change' = [change EXCEPT ![s] = NoChange]
  /\ astray' = (astray \/ /\ change[s].variant = "none" \/ change[s].old # flag
                          /\ \E r \in RuleIds : ~(Serves(rules[r]) \subseteq flag'.variants))
  /\ UNCHANGED rules

\* A statement or the commit fails, or the client goes away: rollback.
FailChange(s) ==
  /\ change[s] # NoChange
  /\ change' = [change EXCEPT ![s] = NoChange]
  /\ UNCHANGED <<flag, rules, astray>>

\* RuleService.Create and Update: the variants of a rule are not looked up.
WriteRule(r, rule) ==
  /\ rules' = [rules EXCEPT ![r] = rule]
  /\ astray' = (astray \/ Unchecked(rule, Edits))
  /\ UNCHANGED <<flag, change>>

DeleteRule(r) ==
  /\ rules[r] # NoRule
  /\ rules' = [rules EXCEPT ![r] = NoRule]
  /\ UNCHANGED <<flag, change, astray>>

VariantNext ==
  \/ \E s \in Edits : \/ GetByKey(s) \/ RenameVariant(s) \/ DropVariant(s)
                      \/ CommitChange(s) \/ FailChange(s)
                      \/ \E v \in Variants : AddVariant(s, v)
                      \/ \E v \in Variants, force \in BOOLEAN : ListRules(s, v, force)
                      \/ \E vs \in SUBSET Variants, d \in Variants : PatchFlag(s, vs, d)
                      \/ \E r \in RuleIds : PatchRule(s, r)
  \/ \E r \in RuleIds : DeleteRule(r) \/ \E rule \in Drafts : WriteRule(r, rule)

VariantSpec == VariantInit /\ [][VariantNext]_variantVars
-----------------------------------------------------------------------------
\* What can be served is a variant of the flag. The default always is one, and
\* the writes of the flag may overlap in any order, because each writes the
\* variants and the default together. The rules' variants are too, through
\* deletions that are forced or fail half way; unless a rule was written with
\* an unknown variant or one being deleted, a PATCH dropped a variant in use,
\* or a copy that was out of date was written back (flag_service.go 169-194,
\* 232-321, 325-336, evaluator.go 50-69).
OnlyVariantsAreServed ==
  /\ flag.default \in flag.variants
  /\ ~astray => \A r \in RuleIds : Serves(rules[r]) \subseteq flag.variants
=============================================================================
