------------------------------ MODULE PagesProofs ------------------------------
(***************************************************************************)
(* Theorems about the pages, the plan of moves and the letters, for every  *)
(* group of members, configuration, roster and set of decisions.  What the *)
(* pages add up is counted along two lemmas about sums over finite sets,   *)
(* proved by a minimal counterexample in place of induction.               *)
(***************************************************************************)
EXTENDS Letters, DecisionsProofs

-----------------------------------------------------------------------------
(* Sums over finite sets. *)

(* A minimal one among the sets of a finite family: what stands in for     *)
(* induction over a finite set.                                            *)
LEMMA MinimalSubset ==
  ASSUME NEW S, IsFiniteSet(S), NEW T \in SUBSET SUBSET S, T # {}
  PROVE  \E s \in T : \A u \in T : ~(u \subseteq s /\ u # s)
  <1>1. T \subseteq FiniteSubsetsOf(S)
    BY FS_FiniteSubsetsOfFinite
  <1>2. IsWellFoundedOn(StrictSubsetOrdering(S), FiniteSubsetsOf(S))
    BY FS_StrictSubsetOrderingWellFounded
  <1>3. \E s \in T : \A u \in T : <<u, s>> \notin StrictSubsetOrdering(S)
    BY <1>1, <1>2, WFMin
  <1>4. \A s, u \in T : u \subseteq s /\ u # s => <<u, s>> \in StrictSubsetOrdering(S)
    BY DEF StrictSubsetOrdering
  <1>5. QED
    BY <1>3, <1>4

(* Whatever grows by the value of each element, and by nothing else, is    *)
(* the sum.                                                                *)
LEMMA SumIs ==
  ASSUME NEW fun, IsFiniteSet(DOMAIN fun), NEW g \in [SUBSET DOMAIN fun -> Nat], g[{}] = 0,
         \A s \in SUBSET DOMAIN fun : \A x \in s : g[s] = fun[x] + g[s \ {x}]
  PROVE  SumFunction(fun) = g[DOMAIN fun]
  <1> DEFINE S == DOMAIN fun
             Pick(s) == CHOOSE x \in s : TRUE
             IsSum(h) == h = [s \in SUBSET S |-> IF s = {} THEN 0 ELSE fun[Pick(s)] + h[s \ {Pick(s)}]]
             h == CHOOSE k : IsSum(k)
  <1>1. SumFunction(fun) = h[S]
    BY DEF SumFunction, SumFunctionOnSet, FoldFunctionOnSet, MapThenFoldSet
  <1>2. \A s \in SUBSET S : s # {} => Pick(s) \in s
    OBVIOUS
  <1>3. IsSum(g)
    <2>1. \A s \in SUBSET S : g[s] = IF s = {} THEN 0 ELSE fun[Pick(s)] + g[s \ {Pick(s)}]
      BY <1>2
    <2>2. QED
      BY <2>1
  <1>4. IsSum(h)
    <2> HIDE DEF IsSum
    <2>1. QED
      BY <1>3
  <1> HIDE DEF h
  <1>5. \A s \in SUBSET S : h[s] = IF s = {} THEN 0 ELSE fun[Pick(s)] + h[s \ {Pick(s)}]
    BY <1>4
  <1> HIDE DEF Pick, S
  <1> DEFINE Bad == {s \in SUBSET S : h[s] # g[s]}
  <1>6. Bad = {}
    <2> SUFFICES ASSUME Bad # {} PROVE FALSE
      OBVIOUS
    <2>0. IsFiniteSet(S) /\ Bad \in SUBSET SUBSET S
      BY DEF S
    <2> HIDE DEF Bad
    <2>1. PICK s \in Bad : \A u \in Bad : ~(u \subseteq s /\ u # s)
      BY <2>0, MinimalSubset
    <2> USE DEF Bad
    <2>2. s # {}
      BY <1>5, <2>1 DEF S
    <2>3. Pick(s) \in s /\ s \ {Pick(s)} \in SUBSET S /\ s \ {Pick(s)} \notin Bad
      BY <1>2, <2>1, <2>2
    <2>4. QED
      BY <1>5, <2>1, <2>2, <2>3 DEF S
  <1>7. QED
    BY <1>1, <1>6 DEF S

(* Sets without a common element. *)
LEMMA Disjoint ==
  ASSUME NEW A, NEW B, IsFiniteSet(A), IsFiniteSet(B), A \cap B = {}
  PROVE  Cardinality(A \cup B) = Cardinality(A) + Cardinality(B)
  <1>1. Cardinality(A \cup B) = Cardinality(A) + Cardinality(B) - Cardinality(A \cap B)
    BY FS_Union
  <1>2. Cardinality(A) \in Nat /\ Cardinality(B) \in Nat
    BY FS_CardinalityType
  <1>3. QED
    BY <1>1, <1>2, FS_EmptySet

(* Adding up how many have each value is counting those with any of them.  *)
LEMMA SumOfFibres ==
  ASSUME NEW M, IsFiniteSet(M), NEW key, NEW fun, IsFiniteSet(DOMAIN fun),
         \A x \in DOMAIN fun : fun[x] = Cardinality({m \in M : key[m] = x})
  PROVE  SumFunction(fun) = Cardinality({m \in M : key[m] \in DOMAIN fun})
  <1> DEFINE S == DOMAIN fun
             In(s) == {m \in M : key[m] \in s}
             Fibre(x) == {m \in M : key[m] = x}
             g == [s \in SUBSET S |-> Cardinality(In(s))]
  <1>1. \A s : IsFiniteSet(In(s)) /\ Cardinality(In(s)) \in Nat
    BY FS_Subset, FS_CardinalityType
  <1>2. \A x : IsFiniteSet(Fibre(x)) /\ Cardinality(Fibre(x)) \in Nat
    BY FS_Subset, FS_CardinalityType
  <1>3. g \in [SUBSET S -> Nat]
    BY <1>1
  <1>4. g[{}] = 0
    BY FS_EmptySet
  <1>5. ASSUME NEW s \in SUBSET S, NEW x \in s
        PROVE  g[s] = fun[x] + g[s \ {x}]
    <2> DEFINE A == Fibre(x)
               B == In(s \ {x})
    <2>1. In(s) = A \cup B /\ A \cap B = {}
      OBVIOUS
    <2>2. IsFiniteSet(A) /\ IsFiniteSet(B) /\ Cardinality(A) \in Nat /\ Cardinality(B) \in Nat
      BY <1>1, <1>2
    <2> HIDE DEF A, B
    <2>3. Cardinality(A \cup B) = Cardinality(A) + Cardinality(B)
      BY <2>1, <2>2, Disjoint
    <2> USE DEF A, B
    <2>4. fun[x] = Cardinality(Fibre(x))
      BY DEF Fibre
    <2>5. QED
      BY <2>1, <2>3, <2>4
  <1> HIDE DEF g
  <1>6. SumFunction(fun) = g[S]
    BY <1>3, <1>4, <1>5, SumIs
  <1>7. QED
    BY <1>6 DEF g

-----------------------------------------------------------------------------
(* Ages and years. *)

LEMMA AgeFits ==
  ASSUME NEW age, AgeBracket(age) # None
  PROVE  /\ AgeBracket(age) \in {Ladder[i] : i \in 1..5}
         /\ age \in Window[AgeBracket(age)]
  <1> DEFINE fits == {i \in 1..5 : age \in Window[Ladder[i]]}
             Lowest5(i) == i \in fits /\ \A j \in fits : i <= j
  <1>1. fits # {}
    BY DEF AgeBracket
  <1>2. \E i : Lowest5(i)
    BY <1>1
  <1>3. Lowest5(CHOOSE i : Lowest5(i))
    BY <1>2
  <1>4. AgeBracket(age) = Ladder[CHOOSE i \in fits : \A j \in fits : i <= j]
    BY <1>1 DEF AgeBracket
  <1>5. PICK i \in fits : AgeBracket(age) = Ladder[i]
    BY <1>2, <1>4
  <1>6. QED
    BY <1>5

LEMMA NowFacts ==
  ASSUME DecisionsTypeOK
  PROVE  Now # None => Now \in Years /\ Now \in Nat
  BY YearIsModelled, TermsType DEF DecisionsTypeOK, Now, Years

-----------------------------------------------------------------------------
(* Letters. *)

LEMMA OwnAddressFacts ==
  ASSUME NEW a \in Applying
  PROVE  \A x, y \in OwnAddress(a) : x = y
  BY DEF OwnAddress

LEMMA RecipientFacts ==
  ASSUME NEW a \in Applying
  PROVE  /\ Guardians(a) # {} => Recipients(a) \subseteq Guardians(a) /\ Recipients(a) # {}
         /\ Guardians(a) = {} => Recipients(a) = OwnAddress(a)
         /\ \A x, y \in Recipients(a) : FoldOf[x] = FoldOf[y] => x = y
  <1> DEFINE mum == MailOf[a]["contact_email_mum"]
             dad == MailOf[a]["contact_email_dad"]
  <1>1. Guardians(a) = {mum, dad} \ {None}
    BY DEF Guardians, GuardianFields
  <1>2. Deduplicated(a) = IF mum # None /\ dad # None /\ FoldOf[mum] = FoldOf[dad]
                          THEN {mum} ELSE Guardians(a)
    BY DEF Deduplicated
  <1> HIDE DEF mum, dad
  <1>3. QED
    BY <1>1, <1>2, OwnAddressFacts DEF Recipients

LEMMA LettersFacts == ASSUME DecisionsTypeOK PROVE LettersReachTheRightOnes
  <1> DEFINE f(a) == Form[a]
             d(a) == Draft(a, Now)
  <1> SUFFICES ASSUME NEW a \in Applying, f(a).born # None, Now # None
               PROVE  /\ Now - f(a).born >= AdultAge \/ AmongLeaders(a) =>
                           /\ d(a).kind = "ledare" /\ d(a).to \subseteq OwnAddress(a)
                           /\ d(a).unsendable <=> OwnAddress(a) = {}
                      /\ Now - f(a).born < AdultAge /\ ~AmongLeaders(a) =>
                           /\ d(a).kind = "scout"
                           /\ Guardians(a) # {} => d(a).to # {} /\ d(a).to \subseteq Guardians(a)
                           /\ Guardians(a) = {} => d(a).to = OwnAddress(a)
                           /\ \A x, y \in d(a).to : FoldOf[x] = FoldOf[y] => x = y
                           /\ d(a).bracket # None =>
                                /\ Now - f(a).born \in Window[d(a).bracket]
                                /\ a \in DOMAIN Applicants =>
                                     d(a).bracket \in DOMAIN WaitingDepth(Now, TRUE).per_bracket
                           /\ d(a).unsendable <=> Guardians(a) \cup OwnAddress(a) = {}
    BY DEF LettersReachTheRightOnes, Drafts
  <1> DEFINE ledare == IsLedareApplicant(a, Now)
             to == IF ledare THEN OwnAddress(a) ELSE Recipients(a)
             bracket == IF ledare THEN None ELSE EligibleBracket(Form[a].born, Now)
  <1>1. /\ d(a).kind = IF ledare THEN "ledare" ELSE "scout"
        /\ d(a).to = to /\ d(a).unsendable = (to = {}) /\ d(a).bracket = bracket
    BY DEF Draft
  <1>2. ledare <=> Now - f(a).born >= AdultAge \/ AmongLeaders(a)
    BY DEF IsLedareApplicant, AmongLeaders
  <1>3. bracket # None => /\ bracket = AgeBracket(Now - f(a).born)
                          /\ Now - f(a).born \in Window[bracket]
                          /\ bracket \in Brackets
    <2>1. bracket # None => bracket = AgeBracket(Now - f(a).born)
      BY DEF EligibleBracket
    <2>2. QED
      BY <2>1, AgeFits DEF Brackets
  <1>4. a \in DOMAIN Applicants /\ bracket # None =>
          bracket \in DOMAIN WaitingDepth(Now, TRUE).per_bracket
    <2>1. a \in DOMAIN Applicants => Applicants[a] = f(a).born
      BY BornAgrees
    <2>2. DOMAIN WaitingDepth(Now, TRUE).per_bracket =
            {c \in Brackets : {b \in DOMAIN Applicants :
               Applicants[b] # None /\ Now # None /\ AgeBracket(Now - Applicants[b]) = c} # {}}
      BY DEF WaitingDepth
    <2>3. QED
      BY <1>3, <2>1, <2>2
  <1> HIDE DEF d, ledare, bracket
  <1>5. CASE ledare
    <2>1. d(a).kind = "ledare" /\ d(a).to = OwnAddress(a)
      BY <1>1, <1>5
    <2>2. d(a).unsendable <=> OwnAddress(a) = {}
      BY <1>1, <1>5
    <2>3. ~(Now - f(a).born < AdultAge /\ ~AmongLeaders(a))
      <3>1. Now - f(a).born \in Int /\ AdultAge \in Int
        BY NowFacts, FormType DEF AdultAge
      <3>2. QED
        BY <1>2, <1>5, <3>1
    <2> HIDE DEF f, to
    <2>4. QED
      BY <2>1, <2>2, <2>3
  <1>6. CASE ~ledare
    <2>1. d(a).kind = "scout" /\ d(a).to = Recipients(a) /\ d(a).bracket = bracket
      BY <1>1, <1>6
    <2>2. d(a).unsendable <=> Guardians(a) \cup OwnAddress(a) = {}
      BY <1>1, <1>6, RecipientFacts
    <2>3. /\ Guardians(a) # {} => Recipients(a) # {} /\ Recipients(a) \subseteq Guardians(a)
          /\ Guardians(a) = {} => Recipients(a) = OwnAddress(a)
          /\ \A x, y \in Recipients(a) : FoldOf[x] = FoldOf[y] => x = y
      BY RecipientFacts
    <2> HIDE DEF f, to
    <2>4. QED
      BY <1>2, <1>3, <1>4, <1>6, <2>1, <2>2, <2>3
  <1>7. QED
    BY <1>5, <1>6

(* The letter to an applicant who is of age, or who applies among the      *)
(* leaders at whatever age, goes to the applicant and to no guardian.  The *)
(* letter about any other goes once to each household of a known guardian, *)
(* and to the applicant only where there is none; what it tells of is of   *)
(* the applicant's age (is_ledare_applicant, resolve_recipients,           *)
(* build_draft).                                                           *)
THEOREM LettersArrive == DecisionsSpec => []LettersReachTheRightOnes
  BY LettersFacts, TablesAreTyped, PTL

-----------------------------------------------------------------------------
(* Rows of the plan, for any roster. *)

LEMMA ResolvedRow ==
  ASSUME NEW r, NEW elected, NEW e, IsRow(e), NEW x, x = Resolved(r, elected, e),
         NEW t, t = InferTarget(r, e.source)
  PROVE  /\ IsRow(x) /\ x.status \in {"ready", "pending_target"}
         /\ x.off = e.off /\ x.group = e.group /\ x.source = e.source
         /\ x.status = "ready" =>
              \/ t = None /\ elected # None /\ x.target = elected.name /\ x.troop = elected.troop
              \/ t \in Live(r) /\ x.target = t /\ x.troop = t
         /\ x.status = "pending_target" => x.target = t /\ t \notin Live(r)
  <1>1. CASE t = None /\ elected # None
    <2>1. x = [e EXCEPT !.status = "ready", !.target = elected.name, !.troop = elected.troop]
      BY <1>1 DEF Resolved
    <2>2. QED
      BY <1>1, <2>1 DEF IsRow
  <1>2. CASE ~(t = None /\ elected # None) /\ t \in Live(r)
    <2>1. x = [e EXCEPT !.status = "ready", !.target = t, !.troop = t]
      BY <1>2 DEF Resolved
    <2>2. QED
      BY <1>2, <2>1 DEF IsRow
  <1>3. CASE ~(t = None /\ elected # None) /\ t \notin Live(r)
    <2>1. x = [e EXCEPT !.status = "pending_target", !.target = t]
      BY <1>3 DEF Resolved
    <2>2. QED
      BY <1>3, <2>1 DEF IsRow
  <1>4. QED
    BY <1>1, <1>2, <1>3

(* The computed row tells how its member was classified, and a target is   *)
(* the inferred one, or the elected where none could be inferred.          *)
LEMMA ComputedRow ==
  ASSUME NEW r, NEW n, NEW elected, NEW m, NEW p, p = r[m],
         NEW c, c = Computed(r, n, elected, m), NEW t, t = InferTarget(r, p.troop)
  PROVE  /\ IsRow(c) /\ (c.off <=> Misplaced(n, p))
         /\ c.status = "off_cohort" <=> Misplaced(n, p)
         /\ c.status = "none" <=> ~Misplaced(n, p) /\ ~MovesUp(n, p)
         /\ c.status \in {"ready", "pending_target"} <=>
              ~Misplaced(n, p) /\ ~Excluded(n, p) /\ MovesUp(n, p)
         /\ c.status # "none" => c.source = p.troop
         /\ c.status = "ready" =>
              \/ t = None /\ elected # None /\ c.target = elected.name /\ c.troop = elected.troop
              \/ t \in Live(r) /\ c.target = t /\ c.troop = t
         /\ c.status = "pending_target" => c.target = t /\ t \notin Live(r)
         /\ c.group = IF Stray(n, p) \/ ~(Misplaced(n, p) \/ MovesUp(n, p)) THEN None
                      ELSE Transition[BracketOf[p.troop]]
  <1> DEFINE g == IF Stray(n, p) THEN None ELSE Transition[BracketOf[p.troop]]
             row == [NoEntry EXCEPT !.source = p.troop, !.group = g]
  <1>1. /\ IsRow(row) /\ row.status = "none" /\ row.off = FALSE /\ row.group = g
        /\ row.source = p.troop
    BY DEF NoEntry, IsRow
  <1>2. Excluded(n, p) => MovesUp(n, p)
    BY DEF Excluded
  <1>3. c = IF Misplaced(n, p) THEN [row EXCEPT !.status = "off_cohort", !.off = TRUE]
            ELSE IF Excluded(n, p) THEN [row EXCEPT !.status = "excluded"]
            ELSE IF MovesUp(n, p) THEN Resolved(r, elected, row)
            ELSE NoEntry
    BY DEF Computed
  <1>4. IsRow(NoEntry) /\ NoEntry.status = "none" /\ NoEntry.off = FALSE /\ NoEntry.group = None
    BY DEF NoEntry, IsRow
  <1>5. Stray(n, p) => Misplaced(n, p)
    BY DEF Misplaced
  <1> HIDE DEF row
  <1>6. CASE Misplaced(n, p)
    <2>1. c = [row EXCEPT !.status = "off_cohort", !.off = TRUE]
      BY <1>3, <1>6
    <2>2. /\ IsRow(c) /\ c.status = "off_cohort" /\ c.off = TRUE /\ c.group = g
          /\ c.source = p.troop
      BY <1>1, <2>1 DEF IsRow
    <2>3. QED
      BY <1>6, <2>2
  <1>7. CASE ~Misplaced(n, p) /\ Excluded(n, p)
    <2>1. c = [row EXCEPT !.status = "excluded"]
      BY <1>3, <1>7
    <2>2. /\ IsRow(c) /\ c.status = "excluded" /\ c.off = FALSE /\ c.group = g
          /\ c.source = p.troop
      BY <1>1, <2>1 DEF IsRow
    <2>3. QED
      BY <1>2, <1>5, <1>7, <2>2
  <1>8. CASE ~Misplaced(n, p) /\ ~Excluded(n, p) /\ MovesUp(n, p)
    <2>1. c = Resolved(r, elected, row) /\ t = InferTarget(r, row.source)
      BY <1>1, <1>3, <1>8
    <2>2. /\ IsRow(c) /\ c.status \in {"ready", "pending_target"}
          /\ c.off = FALSE /\ c.group = g /\ c.source = p.troop
          /\ c.status = "ready" =>
               \/ t = None /\ elected # None /\ c.target = elected.name /\ c.troop = elected.troop
               \/ t \in Live(r) /\ c.target = t /\ c.troop = t
          /\ c.status = "pending_target" => c.target = t /\ t \notin Live(r)
      BY <1>1, <2>1, ResolvedRow
    <2>3. QED
      BY <1>5, <1>8, <2>2
  <1>9. CASE ~Misplaced(n, p) /\ ~MovesUp(n, p)
    BY <1>2, <1>3, <1>4, <1>9
  <1>10. QED
    BY <1>6, <1>7, <1>8, <1>9

(* Whoever moves up is in a bracket of which the oldest move.              *)
LEMMA MoversFacts ==
  ASSUME NEW n, NEW p, MovesUp(n, p)
  PROVE  /\ BracketOf[p.troop] \in Moving /\ p.troop # None /\ p.born # None
         /\ AgeBracket(n - p.born) = NextBracket[BracketOf[p.troop]]
  BY DEF MovesUp, InLadder, Stray

LEMMA NextFacts ==
  /\ Moving = {"sparare", "upptackare", "aventyrare"}
  /\ \A b \in Moving : /\ NextBracket[b] \in Brackets \ {"sparare"} /\ NextBracket[b] # b
  /\ \A b, c \in Moving : NextBracket[b] = NextBracket[c] => b = c
  <1>1. Moving = {"sparare", "upptackare", "aventyrare"}
    BY DEF Moving, Transition
  <1>2. Brackets = {"sparare", "upptackare", "aventyrare", "utmanare", "rover", "annat"}
    BY DEF Brackets, Ladder
  <1>3. /\ NextBracket["sparare"] = "upptackare" /\ NextBracket["upptackare"] = "aventyrare"
        /\ NextBracket["aventyrare"] = "utmanare"
    BY DEF NextBracket
  <1>4. QED
    BY <1>1, <1>2, <1>3

(* A target that is inferred leads out of the bracket, and up.             *)
LEMMA InferredLeadsUp ==
  ASSUME TargetsLeadUp, NEW r, \A m \in Members : r[m].troop \in Troops \cup {None},
         NEW s \in Troops, BracketOf[s] \in Moving,
         NEW t, t = InferTarget(r, s), t # None
  PROVE  t \in Troops /\ BracketOf[t] \notin {BracketOf[s], "sparare"}
  <1> DEFINE next == NextBracket[SourceBracket(s)]
             same == SameDay(r, s, next)
             all == Candidates(r, next)
  <1>1. next = NextBracket[BracketOf[s]]
    BY DEF TargetsLeadUp, ConfigAgrees, SourceBracket
  <1>2. \A u \in all : u \in Troops /\ BracketOf[u] = next
    BY DeclaredType DEF Candidates, Live, TargetsLeadUp, ConfigAgrees
  <1>3. same \subseteq all
    BY DEF SameDay
  <1>4. \A S : Cardinality(S) = 1 => S # {}
    BY FS_EmptySet
  <1>5. \A S : S # {} => Only(S) \in S
    BY DEF Only
  <1>6. \/ s \in Declared /\ Flow[s] # None /\ t = Flow[s]
        \/ Cardinality(same) = 1 /\ t = Only(same)
        \/ Cardinality(all) = 1 /\ t = Only(all)
    BY DEF InferTarget
  <1>7. CASE s \in Declared /\ Flow[s] # None /\ t = Flow[s]
    BY <1>7, FlowType, DeclaredType DEF TargetsLeadUp
  <1> HIDE DEF same, all, next
  <1>8. CASE t \in all
    BY <1>1, <1>2, <1>8, NextFacts
  <1>9. QED
    BY <1>3, <1>4, <1>5, <1>6, <1>7, <1>8

(* So does the target of every row that is ready.                          *)
LEMMA ReadyLeadsUp ==
  ASSUME DecisionsTypeOK, TargetsLeadUp,
         NEW r, \A m \in Members : r[m].troop \in Troops \cup {None},
         NEW m \in Members, NEW c, c = Computed(r, Now, Elected(Now), m), c.status = "ready"
  PROVE  c.troop \in Troops /\ BracketOf[c.troop] \notin {BracketOf[r[m].troop], "sparare"}
  <1> DEFINE p == r[m]
             t == InferTarget(r, p.troop)
  <1>1. MovesUp(Now, p) /\ \/ t = None /\ Elected(Now) # None /\ c.troop = Elected(Now).troop
                           \/ t # None /\ c.troop = t
    <2>1. None \notin Live(r)
      BY DEF Live
    <2> HIDE DEF p, t
    <2>2. p = r[m] /\ t = InferTarget(r, p.troop)
      BY DEF p, t
    <2>3. QED
      BY <2>1, <2>2, ComputedRow
  <1>2. p.troop \in Troops /\ BracketOf[p.troop] \in Moving
    BY <1>1, MoversFacts
  <1>3. CASE t # None /\ c.troop = t
    BY <1>2, <1>3, InferredLeadsUp
  <1>4. CASE Elected(Now) # None /\ c.troop = Elected(Now).troop
    BY <1>2, <1>4, ElectedFacts, NextFacts DEF TargetsLeadUp
  <1>5. QED
    BY <1>1, <1>3, <1>4

-----------------------------------------------------------------------------
(* The projection. *)

LEMMA FiniteMembers ==
  ASSUME NEW S \in SUBSET Members
  PROVE  IsFiniteSet(S) /\ Cardinality(S) \in Nat
  BY FiniteGroup, FS_Subset, FS_CardinalityType

LEMMA RosterFacts ==
  ASSUME DecisionsTypeOK
  PROVE  /\ roster \in [Members -> Scout]
         /\ \A m \in Members : roster[m].troop \in Troops \cup {None}
         /\ Live(roster) = {t \in Troops : InTroop(roster, t) # {}}
         /\ None \notin Troops
  <1>1. roster \in [Members -> Scout]
    BY RostersType DEF DecisionsTypeOK
  <1>2. \A m \in Members : roster[m].troop \in Troops \cup {None}
    BY <1>1 DEF Scout
  <1>3. QED
    BY <1>1, <1>2, NoneIsNothing DEF Live, InTroop

(* The rows that leave and the rows that come, for the plan the projection *)
(* is made from.                                                           *)
LEMMA MasterFacts ==
  ASSUME DecisionsTypeOK, NEW ms, ms = Master(roster, Now, Elected(Now)), NEW m \in Members
  PROVE  /\ ms[m] = Computed(roster, Now, Elected(Now), m)
         /\ m \in Movers(ms) => MovesUp(Now, roster[m]) /\ ms[m].source = roster[m].troop
         /\ m \in Movers(ms) => ~Excluded(Now, roster[m])
         /\ m \in Pending(ms) => ms[m].target \notin Live(roster)
         /\ ms[m].status = "ready" => ms[m].troop \in Troops
         /\ ms[m].status = "ready" /\ ElectionAgrees => ms[m].target = ms[m].troop
         /\ Movers(ms) = {x \in Members : ms[x].status = "ready"} \cup Pending(ms)
         /\ {x \in Members : ms[x].status = "ready"} \cap Pending(ms) = {}
  <1> DEFINE p == roster[m]
             t == InferTarget(roster, p.troop)
             c == ms[m]
  <1>1. c = Computed(roster, Now, Elected(Now), m)
    BY DEF Master
  <1>2. p = roster[m] /\ t = InferTarget(roster, p.troop)
    OBVIOUS
  <1> HIDE DEF p, t, c
  <1>3. /\ c.status \in {"ready", "pending_target"} => ~Excluded(Now, p) /\ MovesUp(Now, p)
        /\ c.status # "none" => c.source = p.troop
        /\ c.status = "ready" =>
             \/ /\ t = None /\ Elected(Now) # None
                /\ c.target = Elected(Now).name /\ c.troop = Elected(Now).troop
             \/ t \in Live(roster) /\ c.target = t /\ c.troop = t
        /\ c.status = "pending_target" => c.target = t /\ t \notin Live(roster)
    BY <1>1, <1>2, ComputedRow
  <1>4. c.status = "ready" => c.troop \in Troops
    BY <1>3, ElectedFacts, RosterFacts
  <1>5. c.status = "ready" /\ ElectionAgrees => c.target = c.troop
    BY <1>3 DEF ElectionAgrees
  <1>6. QED
    BY <1>1, <1>3, <1>4, <1>5 DEF Movers, Pending, p, c

(* Where a member is counted once the moves are made.                      *)
Placed(ms, m) == IF ms[m].status = "ready" THEN ms[m].troop ELSE roster[m].troop

LEMMA CountedAfter ==
  ASSUME DecisionsTypeOK, ElectionAgrees, NEW ms, ms = Master(roster, Now, Elected(Now)), NEW t \in Live(roster)
  PROVE  CountAfter(roster, ms, t) = Size(roster, t) - Outgoing(ms, t) + Incoming(ms, t)
  <1> DEFINE in == InTroop(roster, t)
             out == {m \in Movers(ms) : ms[m].source = t}
             inc == {m \in Movers(ms) : ms[m].target = t}
             after == {m \in Members \ Pending(ms) :
                         t = IF ms[m].status = "ready" THEN ms[m].troop ELSE roster[m].troop}
  <1>1. out \subseteq in
    BY MasterFacts DEF InTroop, Movers
  <1>2. after = (in \ out) \cup inc /\ (in \ out) \cap inc = {}
    BY MasterFacts DEF InTroop, Movers, Pending
  <1>3. in \in SUBSET Members /\ out \in SUBSET Members /\ inc \in SUBSET Members
    BY DEF InTroop, Movers
  <1>4. /\ CountAfter(roster, ms, t) = Cardinality(after) /\ Size(roster, t) = Cardinality(in)
        /\ Outgoing(ms, t) = Cardinality(out) /\ Incoming(ms, t) = Cardinality(inc)
    BY DEF CountAfter, Size, Outgoing, Incoming
  <1> HIDE DEF in, out, inc, after
  <1>5. Cardinality(in \ out) = Cardinality(in) - Cardinality(out)
    <2>1. in \cap out = out
      BY <1>1
    <2>2. QED
      BY <1>3, <2>1, FiniteMembers, FS_Difference
  <1>6. Cardinality(after) = Cardinality(in \ out) + Cardinality(inc)
    BY <1>2, <1>3, FiniteMembers, Disjoint
  <1>7. /\ Cardinality(in) \in Nat /\ Cardinality(out) \in Nat /\ Cardinality(inc) \in Nat
    BY <1>3, FiniteMembers
  <1>8. QED
    BY <1>4, <1>5, <1>6, <1>7

(* What the row of an avdelning leaves out of the sum is nothing.          *)
LEMMA NextYear ==
  ASSUME DecisionsTypeOK, TargetsLeadUp, ElectionAgrees,
         NEW ms, ms = Master(roster, Now, Elected(Now)), NEW t \in Live(roster)
  PROVE  ProjectionRow(roster, ms, t).next = Size(roster, t) - Outgoing(ms, t) + Incoming(ms, t)
  <1> DEFINE count == Size(roster, t)
             out == Outgoing(ms, t)
             inc == Incoming(ms, t)
             b == SourceBracket(t)
  <1>1. count \in Nat /\ out \in Nat /\ inc \in Nat
    BY FiniteMembers DEF Size, InTroop, Outgoing, Incoming, Movers
  <1>2. count # 0
    <2>1. InTroop(roster, t) # {} /\ InTroop(roster, t) \in SUBSET Members
      BY RosterFacts DEF InTroop
    <2>2. QED
      BY <2>1, FiniteMembers, FS_EmptySet DEF Size
  <1>3. b = BracketOf[t] /\ b \in Brackets \cup {None}
    BY BracketOfType, RosterFacts DEF SourceBracket, TargetsLeadUp, ConfigAgrees
  <1>4. b \notin Moving => out = 0
    <2>1. ASSUME b \notin Moving, NEW m \in Movers(ms), ms[m].source = t
          PROVE  FALSE
      <3>1. m \in Members
        BY <2>1 DEF Movers
      <3>2. MovesUp(Now, roster[m]) /\ roster[m].troop = t
        BY <2>1, <3>1, MasterFacts
      <3>3. QED
        BY <1>3, <2>1, <3>2, MoversFacts
    <2>2. QED
      BY <2>1, FS_EmptySet DEF Outgoing
  <1>5. b = "sparare" => inc = 0
    <2>1. ASSUME b = "sparare", NEW m \in Movers(ms), ms[m].target = t
          PROVE  FALSE
      <3>1. m \in Members
        BY <2>1 DEF Movers
      <3>2. /\ ms[m] = Computed(roster, Now, Elected(Now), m)
            /\ ms[m].status = "ready" /\ ms[m].troop = t
        BY <2>1, <3>1, MasterFacts
      <3>3. BracketOf[t] # "sparare"
        BY <3>1, <3>2, RosterFacts, ReadyLeadsUp
      <3>4. QED
        BY <1>3, <2>1, <3>3
    <2>2. QED
      BY <2>1, FS_EmptySet DEF Incoming
  <1>6. Brackets = {"sparare", "upptackare", "aventyrare", "utmanare", "rover", "annat"}
    BY DEF Brackets, Ladder
  <1>7. None \notin Brackets
    BY NoneIsNothing
  <1>8. \A x, y, z, w, v : Row(x, y, z, w, v).next = w
    BY DEF Row
  <1> DEFINE row == ProjectionRow(roster, ms, t)
  <1>9. row = CASE count = 0 -> Row(DASH, DASH, DASH, DASH, "empty")
                [] count # 0 /\ b = "sparare" -> Row(count, out, DASH, count - out, "recruitment")
                [] count # 0 /\ b \in {"utmanare", "rover", "annat"} ->
                     Row(count, 0, inc, count + inc, "static")
                [] count # 0 /\ b \in {None, "upptackare", "aventyrare"} ->
                     Row(count, out, inc, count - out + inc, "derived")
    BY DEF ProjectionRow
  <1> HIDE DEF row, count, out, inc, b
  <1>10. CASE b = "sparare"
    BY <1>1, <1>2, <1>5, <1>7, <1>8, <1>9, <1>10, <1>6 DEF row, count, out, inc
  <1>11. CASE b \in {"utmanare", "rover", "annat"}
    BY <1>1, <1>2, <1>4, <1>6, <1>7, <1>8, <1>9, <1>11, NextFacts DEF row, count, out, inc
  <1>12. CASE b \in {None, "upptackare", "aventyrare"}
    BY <1>1, <1>2, <1>6, <1>7, <1>8, <1>9, <1>12 DEF row, count, out, inc
  <1>13. QED
    BY <1>3, <1>6, <1>10, <1>11, <1>12

LEMMA StillToPlace ==
  ASSUME DecisionsTypeOK, NEW ms, ms = Master(roster, Now, Elected(Now))
  PROVE  Cardinality(Pending(ms)) = Cardinality(Members)
           - SumFunction([t \in Troops \cup {None} |-> CountAfter(roster, ms, t)])
  <1> DEFINE M == Members \ Pending(ms)
             key == [m \in Members |-> Placed(ms, m)]
             fun == [t \in Troops \cup {None} |-> CountAfter(roster, ms, t)]
  <1>1. Pending(ms) \in SUBSET Members
    BY DEF Pending
  <1>2. \A m \in M : key[m] \in Troops \cup {None}
    BY MasterFacts, RosterFacts DEF Placed
  <1>3. \A t \in DOMAIN fun : fun[t] = Cardinality({m \in M : key[m] = t})
    <2> SUFFICES ASSUME NEW t \in DOMAIN fun PROVE fun[t] = Cardinality({m \in M : key[m] = t})
      OBVIOUS
    <2>1. {m \in M : key[m] = t} = {m \in Members \ Pending(ms) :
             t = IF ms[m].status = "ready" THEN ms[m].troop ELSE roster[m].troop}
      BY DEF Placed
    <2>2. QED
      BY <2>1 DEF CountAfter
  <1>4. DOMAIN fun = Troops \cup {None} /\ IsFiniteSet(DOMAIN fun) /\ IsFiniteSet(M)
    BY <1>1, FiniteGroup, FS_AddElement, FiniteMembers
  <1> HIDE DEF key, fun
  <1>5. SumFunction(fun) = Cardinality({m \in M : key[m] \in DOMAIN fun})
    BY <1>3, <1>4, SumOfFibres
  <1>6. {m \in M : key[m] \in DOMAIN fun} = M
    BY <1>2, <1>4
  <1>7. Cardinality(M) = Cardinality(Members) - Cardinality(Pending(ms))
    <2>1. Members \cap Pending(ms) = Pending(ms)
      BY <1>1
    <2>2. QED
      BY <2>1, FiniteGroup, FS_Difference
  <1>8. Cardinality(Members) \in Nat /\ Cardinality(Pending(ms)) \in Nat
    BY <1>1, FiniteMembers
  <1> HIDE DEF M
  <1>9. SumFunction(fun) = Cardinality(M)
    BY <1>5, <1>6
  <1>10. Cardinality(Pending(ms)) = Cardinality(Members) - SumFunction(fun)
    BY <1>7, <1>8, <1>9
  <1>11. QED
    BY <1>10 DEF fun

LEMMA ProjectionFacts == ASSUME DecisionsTypeOK PROVE ProjectionIsReached
  <1> DEFINE e == Elected(Now)
  <1> SUFFICES ASSUME TargetsLeadUp, ElectionAgrees,
                      NEW ms, ms = Master(roster, Now, e), NEW p, p = Projection(roster, Now, e)
               PROVE  /\ \A t \in Live(roster) : p.rows[t].next = CountAfter(roster, ms, t)
                      /\ \A row \in p.new : row.next = Cardinality(Members)
                           - SumFunction([t \in Troops \cup {None} |-> CountAfter(roster, ms, t)])
    BY DEF ProjectionIsReached
  <1>1. p.rows = [t \in AvdRows(roster) |-> ProjectionRow(roster, ms, t)] /\ p.new = NewAvdelning(ms)
    BY DEF Projection
  <1>2. ASSUME NEW t \in Live(roster)
        PROVE  p.rows[t].next = CountAfter(roster, ms, t)
    <2>1. p.rows[t] = ProjectionRow(roster, ms, t)
      BY <1>1 DEF AvdRows
    <2>2. QED
      BY <2>1, NextYear, CountedAfter
  <1>3. ASSUME NEW row \in p.new
        PROVE  row.next = Cardinality(Pending(ms))
    BY <1>1 DEF NewAvdelning, Row
  <1>4. QED
    BY <1>2, <1>3, StillToPlace

(* With targets that lead up, and an election whose name is that of its    *)
(* id, the overview's sizes for the coming year are the sizes the          *)
(* uppflyttning leads to, and its row for a new avdelning is whoever is    *)
(* left over (projection, _projection_row, compute_master_set).            *)
THEOREM ProjectionsAreReached == DecisionsSpec => []ProjectionIsReached
  BY ProjectionFacts, TablesAreTyped, PTL

-----------------------------------------------------------------------------
(* The moves. *)

(* A decision leaves a row its group, and neither makes nor unmakes one.   *)
LEMMA AppliedRow ==
  ASSUME NEW r, NEW n, NEW c, IsRow(c), NEW o, NEW e, e = Applied(r, n, c, o)
  PROVE  /\ GroupOf(e) = GroupOf(c) /\ (e.status = "none" <=> c.status = "none")
         /\ e.status = "off_cohort" => c.status = "off_cohort"
         /\ o.target # None /\ e.status = "ready" => e.troop = o.target
         /\ o.target = None /\ e.status = "ready" => e = c
  <1> DEFINE known == o.target \in Live(r)
             troop == IF known THEN o.target ELSE None
             status == IF known THEN "ready" ELSE "pending_target"
  <1>1. CASE c.status = "none"
    BY <1>1 DEF Applied
  <1>2. CASE c.status # "none" /\ o.target # None
    <2>1. e = [c EXCEPT !.target = o.target, !.troop = troop, !.status = status]
      BY <1>2 DEF Applied
    <2>2. status \in {"ready", "pending_target"} /\ (status = "ready" => troop = o.target)
      OBVIOUS
    <2> HIDE DEF troop, status
    <2>3. e.off = c.off /\ e.group = c.group /\ e.status = status /\ e.troop = troop
      BY <2>1 DEF IsRow
    <2>4. QED
      BY <1>2, <2>2, <2>3 DEF GroupOf
  <1>3. CASE c.status # "none" /\ o.target = None /\ o.stay # None /\ o.stay >= n
    <2>1. e = [c EXCEPT !.status = "override_stay"]
      BY <1>3 DEF Applied
    <2>2. e.off = c.off /\ e.group = c.group /\ e.status = "override_stay"
      BY <2>1 DEF IsRow
    <2>3. QED
      BY <1>3, <2>2 DEF GroupOf
  <1>4. CASE c.status # "none" /\ o.target = None /\ ~(o.stay # None /\ o.stay >= n)
    BY <1>4 DEF Applied
  <1>5. QED
    BY <1>1, <1>2, <1>3, <1>4

(* The row a member is moved by, and its group.                            *)
LEMMA DecidedRow ==
  ASSUME NEW r, NEW ms, ms = Decided(r, Now), NEW m \in Members,
         NEW c, c = Computed(r, Now, Elected(Now), m), NEW o, o = Only(DecisionsOn(Now, m))
  PROVE  /\ GroupOf(ms[m]) = GroupOf(c) /\ (ms[m].status = "none" <=> c.status = "none")
         /\ ms[m].status = "off_cohort" => GroupOf(ms[m]) = "misplaced"
         /\ ms[m].status # "none" => GroupOf(ms[m]) \in Groups
         /\ o.target # None /\ ms[m].status = "ready" => ms[m].troop = o.target
         /\ o.target = None /\ ms[m].status = "ready" => ms[m] = c
  <1> DEFINE p == r[m]
             e == ms[m]
             t == InferTarget(r, p.troop)
  <1>1. e = Applied(r, Now, c, o)
    BY DEF Decided
  <1>2. p = r[m] /\ t = InferTarget(r, p.troop)
    OBVIOUS
  <1> HIDE DEF p, t, e
  <1>3. /\ IsRow(c) /\ (c.off <=> Misplaced(Now, p))
        /\ c.status = "off_cohort" <=> Misplaced(Now, p)
        /\ c.status = "none" <=> ~Misplaced(Now, p) /\ ~MovesUp(Now, p)
        /\ c.group = IF Stray(Now, p) \/ ~(Misplaced(Now, p) \/ MovesUp(Now, p)) THEN None
                     ELSE Transition[BracketOf[p.troop]]
    BY <1>2, ComputedRow
  <1>4. /\ GroupOf(e) = GroupOf(c) /\ (e.status = "none" <=> c.status = "none")
        /\ e.status = "off_cohort" => c.status = "off_cohort"
        /\ o.target # None /\ e.status = "ready" => e.troop = o.target
        /\ o.target = None /\ e.status = "ready" => e = c
    BY <1>1, <1>3, AppliedRow
  <1>5. c.status = "off_cohort" => GroupOf(c) = "misplaced"
    BY <1>3 DEF GroupOf
  <1>6. c.status # "none" => GroupOf(c) \in Groups
    <2>1. CASE Misplaced(Now, p)
      BY <1>3, <2>1 DEF GroupOf, Groups
    <2>2. CASE ~Misplaced(Now, p) /\ MovesUp(Now, p)
      <3>1. ~Stray(Now, p)
        BY <2>2 DEF Misplaced
      <3>2. GroupOf(c) = Transition[BracketOf[p.troop]]
        BY <1>3, <2>2, <3>1 DEF GroupOf
      <3>3. QED
        BY <2>2, <3>2, MoversFacts DEF Groups
    <2>3. QED
      BY <1>3, <2>1, <2>2
  <1>7. QED
    BY <1>4, <1>5, <1>6 DEF e

LEMMA GroupsAreFinite == IsFiniteSet(Groups) /\ "all" \notin Groups
  <1>1. Groups = {"same_weekday", "merge", "new_cohort_avdelning", "misplaced"}
    BY DEF Groups, Moving, Transition
  <1>2. IsFiniteSet({"same_weekday"})
    BY FS_Singleton
  <1>3. IsFiniteSet({"same_weekday"} \cup {"merge"})
    BY <1>2, FS_AddElement
  <1>4. IsFiniteSet(({"same_weekday"} \cup {"merge"}) \cup {"new_cohort_avdelning"})
    BY <1>3, FS_AddElement
  <1>5. IsFiniteSet((({"same_weekday"} \cup {"merge"}) \cup {"new_cohort_avdelning"}) \cup {"misplaced"})
    BY <1>4, FS_AddElement
  <1>6. Groups = (({"same_weekday"} \cup {"merge"}) \cup {"new_cohort_avdelning"}) \cup {"misplaced"}
    BY <1>1
  <1>7. QED
    BY <1>1, <1>5, <1>6

(* No row is in two groups, and each is in one. *)
LEMMA GroupsAddUp ==
  ASSUME NEW ms, ms = Decided(roster, Now)
  PROVE  SumFunction(GroupCounts(ms)) = Cardinality(InScope(ms, "all"))
  <1> DEFINE M == InScope(ms, "all")
             key == [m \in Members |-> GroupOf(ms[m])]
             fun == GroupCounts(ms)
  <1>1. M = {m \in Members : ms[m].status # "none"}
    BY DEF InScope
  <1>2. DOMAIN fun = Groups
    BY DEF GroupCounts
  <1>3. \A g \in Groups : InScope(ms, g) = {m \in M : key[m] = g}
    BY GroupsAreFinite DEF InScope
  <1>4. \A g \in DOMAIN fun : fun[g] = Cardinality({m \in M : key[m] = g})
    BY <1>2, <1>3 DEF GroupCounts
  <1>5. \A m \in M : key[m] \in Groups
    BY <1>1, DecidedRow
  <1>6. IsFiniteSet(M) /\ IsFiniteSet(DOMAIN fun)
    <2>1. M \in SUBSET Members
      BY <1>1
    <2>2. QED
      BY <1>2, <2>1, FiniteMembers, GroupsAreFinite
  <1> HIDE DEF M, key, fun
  <1>7. SumFunction(fun) = Cardinality({m \in M : key[m] \in DOMAIN fun})
    BY <1>4, <1>6, SumOfFibres
  <1>8. {m \in M : key[m] \in DOMAIN fun} = M
    BY <1>2, <1>5
  <1>9. QED
    BY <1>7, <1>8 DEF M, fun

(* Who is moved, and where it is then.                                     *)
LEMMA WrittenFacts ==
  ASSUME DecisionsTypeOK, NEW ms, ms = Decided(roster, Now), NEW g,
         NEW writes, writes = Moves(roster, PatrolOf, ms, g),
         NEW after, after = AfterRun(roster, writes), NEW m \in Written(roster, writes)
  PROVE  /\ m \in InScope(ms, g) /\ ms[m].status = "ready" /\ m \in Members
         /\ after[m].troop = ms[m].troop /\ after[m].born = roster[m].born
         /\ after[m].leader = roster[m].leader
  <1>1. m \in WithStatus(ms, g, "ready") /\ writes[m].troop = ms[m].troop
    BY DEF Written, Moves
  <1>2. m \in Members /\ m \in InScope(ms, g) /\ ms[m].status = "ready"
    BY <1>1 DEF WithStatus, InScope
  <1>3. after[m] = [roster[m] EXCEPT !.troop = writes[m].troop]
    BY <1>2 DEF AfterRun
  <1>4. roster[m] \in Scout
    BY <1>2, RosterFacts
  <1>5. QED
    BY <1>1, <1>2, <1>3, <1>4 DEF Scout

(* Whoever has been moved up is where it belongs for this cohort year.     *)
LEMMA MovedIsSettled ==
  ASSUME DecisionsTypeOK, TargetsLeadUp, NEW ms, ms = Decided(roster, Now), NEW g,
         NEW writes, writes = Moves(roster, PatrolOf, ms, g),
         NEW after, after = AfterRun(roster, writes), NEW m \in Written(roster, writes),
         NEW e, e = Decided(after, Now)[m], e.status = "ready"
  PROVE  e.troop = after[m].troop
  <1> DEFINE o == Only(DecisionsOn(Now, m))
             c == Computed(roster, Now, Elected(Now), m)
             d == Computed(after, Now, Elected(Now), m)
  <1>1. /\ m \in Members /\ ms[m].status = "ready"
        /\ after[m].troop = ms[m].troop /\ after[m].born = roster[m].born
    BY WrittenFacts
  <1>2. /\ o.target # None /\ ms[m].status = "ready" => ms[m].troop = o.target
        /\ o.target = None /\ ms[m].status = "ready" => ms[m] = c
    BY <1>1, DecidedRow
  <1>3. /\ o.target # None /\ e.status = "ready" => e.troop = o.target
        /\ o.target = None /\ e.status = "ready" => e = d
    <2> DEFINE msAfter == Decided(after, Now)
    <2>1. msAfter = Decided(after, Now) /\ e = msAfter[m]
      OBVIOUS
    <2> HIDE DEF msAfter
    <2>2. QED
      BY <1>1, <2>1, DecidedRow
  <1>4. CASE o.target # None
    BY <1>1, <1>2, <1>3, <1>4
  <1>5. CASE o.target = None
    <2>1. c.status = "ready" /\ c.troop = ms[m].troop /\ d.status = "ready"
      BY <1>1, <1>2, <1>3, <1>5
    <2>2. BracketOf[c.troop] # BracketOf[roster[m].troop]
      BY <1>1, <2>1, RosterFacts, ReadyLeadsUp
    <2>3. MovesUp(Now, roster[m]) /\ MovesUp(Now, after[m])
      <3> DEFINE p == roster[m]
                 q == after[m]
                 t == InferTarget(roster, p.troop)
                 u == InferTarget(after, q.troop)
      <3>1. p = roster[m] /\ t = InferTarget(roster, p.troop)
        OBVIOUS
      <3>2. q = after[m] /\ u = InferTarget(after, q.troop)
        OBVIOUS
      <3>3. c = Computed(roster, Now, Elected(Now), m) /\ d = Computed(after, Now, Elected(Now), m)
        OBVIOUS
      <3> HIDE DEF p, q, t, u, c, d
      <3>4. MovesUp(Now, p)
        BY <2>1, <3>1, <3>3, ComputedRow
      <3>5. MovesUp(Now, q)
        BY <2>1, <3>2, <3>3, ComputedRow
      <3>6. QED
        BY <3>1, <3>2, <3>4, <3>5
    <2>4. after[m].troop = c.troop
      BY <1>1, <2>1
    <2> HIDE DEF c, d
    <2>5. NextBracket[BracketOf[c.troop]] = NextBracket[BracketOf[roster[m].troop]]
      BY <1>1, <2>3, <2>4, MoversFacts
    <2>6. BracketOf[c.troop] \in Moving /\ BracketOf[roster[m].troop] \in Moving
      BY <2>3, <2>4, MoversFacts
    <2>7. QED
      BY <2>2, <2>5, <2>6, NextFacts
  <1>6. QED
    BY <1>4, <1>5

(* An election, like a decision, leaves a row its group.                   *)
LEMMA ElectionKeepsGroup ==
  ASSUME NEW r, NEW m \in Members, NEW c, NEW d, NEW elected,
         c = Computed(r, Now, elected, m), d = Computed(r, Now, None, m)
  PROVE  GroupOf(c) = GroupOf(d) /\ (c.status = "none" <=> d.status = "none")
  <1> DEFINE p == r[m]
             t == InferTarget(r, p.troop)
  <1>1. p = r[m] /\ t = InferTarget(r, p.troop)
    OBVIOUS
  <1> HIDE DEF p, t
  <1>2. (c.off <=> d.off) /\ c.group = d.group /\ (c.status = "none" <=> d.status = "none")
    BY <1>1, ComputedRow
  <1>3. QED
    BY <1>2 DEF GroupOf

LEMMA MovesFacts == ASSUME DecisionsTypeOK PROVE MovesSettle
  <1> SUFFICES ASSUME Now # None, NEW ms, ms = Decided(roster, Now),
                      NEW raw, raw = Master(roster, Now, None)
               PROVE  /\ SumFunction(GroupCounts(ms)) = Cardinality(InScope(ms, "all"))
                      /\ \A g \in Selections : NeedsAck(ms, g) => g \in {"all", "misplaced"}
                      /\ \A g \in Selections :
                        \A writes \in {Moves(roster, PatrolOf, ms, g)} :
                        \A after \in {AfterRun(roster, writes)} :
                        LET msAfter == Decided(after, Now) IN
                        /\ \A m \in Written(roster, writes) :
                             /\ TargetsLeadUp /\ msAfter[m].status = "ready"
                                  => msAfter[m].troop = after[m].troop
                             /\ m \in Changelist(ms, g)[ms[m].target] /\ m \in Affected(raw, g)
                             /\ \A d \in Duties[m] :
                                  d.scope = "patrol" => <<m, d>> \in PatrolRoles(raw, g)
                        /\ \A m \in Reconciled(ms, after, Members).elsewhere \cap DOMAIN writes :
                             roster[m].leader
    BY DEF MovesSettle
  <1>1. SumFunction(GroupCounts(ms)) = Cardinality(InScope(ms, "all"))
    BY GroupsAddUp
  <1>2. ASSUME NEW g \in Selections, NeedsAck(ms, g)
        PROVE  g \in {"all", "misplaced"}
    <2>1. PICK m \in Members : m \in InScope(ms, g) /\ ms[m].status = "off_cohort"
      BY <1>2 DEF NeedsAck, WithStatus, InScope
    <2>2. GroupOf(ms[m]) = "misplaced"
      BY <2>1, DecidedRow
    <2>3. QED
      BY <2>1, <2>2 DEF InScope
  <1>3. ASSUME NEW g \in Selections, NEW writes, writes = Moves(roster, PatrolOf, ms, g),
               NEW after, after = AfterRun(roster, writes)
        PROVE  /\ \A m \in Written(roster, writes) :
                    /\ TargetsLeadUp /\ Decided(after, Now)[m].status = "ready"
                         => Decided(after, Now)[m].troop = after[m].troop
                    /\ m \in Changelist(ms, g)[ms[m].target] /\ m \in Affected(raw, g)
                    /\ \A d \in Duties[m] : d.scope = "patrol" => <<m, d>> \in PatrolRoles(raw, g)
               /\ \A m \in Reconciled(ms, after, Members).elsewhere \cap DOMAIN writes :
                    roster[m].leader
    <2>1. ASSUME NEW m \in Written(roster, writes)
          PROVE  /\ TargetsLeadUp /\ Decided(after, Now)[m].status = "ready"
                      => Decided(after, Now)[m].troop = after[m].troop
                 /\ m \in Changelist(ms, g)[ms[m].target] /\ m \in Affected(raw, g)
                 /\ \A d \in Duties[m] : d.scope = "patrol" => <<m, d>> \in PatrolRoles(raw, g)
      <3>1. m \in InScope(ms, g) /\ ms[m].status = "ready" /\ m \in Members
        BY <1>3, WrittenFacts
      <3>2. TargetsLeadUp /\ Decided(after, Now)[m].status = "ready"
              => Decided(after, Now)[m].troop = after[m].troop
        BY <1>3, MovedIsSettled
      <3>3. m \in Changelist(ms, g)[ms[m].target]
        BY <3>1 DEF Changelist, WithStatus
      <3>4. m \in Affected(raw, g)
        <4> DEFINE c == Computed(roster, Now, Elected(Now), m)
                   d == Computed(roster, Now, None, m)
        <4>1. raw[m] = d
          BY <3>1 DEF Master
        <4>2. GroupOf(ms[m]) = GroupOf(c) /\ (ms[m].status = "none" <=> c.status = "none")
          BY <3>1, DecidedRow
        <4>3. GroupOf(c) = GroupOf(d) /\ (c.status = "none" <=> d.status = "none")
          BY <3>1, ElectionKeepsGroup
        <4> HIDE DEF c, d
        <4>4. QED
          BY <3>1, <4>1, <4>2, <4>3 DEF Affected, InScope
      <3>5. \A d \in Duties[m] : d.scope = "patrol" => <<m, d>> \in PatrolRoles(raw, g)
        BY <3>4 DEF PatrolRoles
      <3>6. QED
        BY <3>2, <3>3, <3>4, <3>5
    <2>2. ASSUME NEW m \in Reconciled(ms, after, Members).elsewhere \cap DOMAIN writes
          PROVE  roster[m].leader
      <3>1. m \in Members /\ after[m].troop # ms[m].troop
        BY DEF Reconciled
      <3>2. m \notin Written(roster, writes)
        BY <1>3, <3>1, WrittenFacts
      <3>3. after[m] = roster[m]
        BY <1>3, <3>1, <3>2 DEF AfterRun
      <3>4. writes[m].troop = ms[m].troop
        BY <1>3 DEF Moves
      <3>5. QED
        BY <3>1, <3>2, <3>3, <3>4 DEF Written
    <2>3. QED
      BY <2>1, <2>2
  <1>4. QED
    BY <1>1, <1>2, <1>3

(* A selection counts each row once, and whoever it moves is told, is on   *)
(* the changelist, and is not to move again in this cohort year: with      *)
(* targets that lead up, whatever is decided and elected (scope_master_set,*)
(* members_to_update, drift_check, reconcile).                             *)
THEOREM MovesAreSettled == DecisionsSpec => []MovesSettle
  BY MovesFacts, TablesAreTyped, PTL

-----------------------------------------------------------------------------
(* The pages. *)

LEMMA FiniteImage ==
  ASSUME NEW S, IsFiniteSet(S), NEW f, NEW T, T = {f[x] : x \in S}
  PROVE  IsFiniteSet(T)
  <1> DEFINE g == [x \in S |-> f[x]]
  <1>1. g \in Surjection(S, T)
    BY DEF Surjection
  <1>2. QED
    BY <1>1, FS_Surjection

LEMMA SeveralElements ==
  ASSUME NEW S, IsFiniteSet(S)
  PROVE  /\ \A x, y \in S : x # y => Cardinality(S) > 1
         /\ S # {} => Cardinality(S) \in Nat \ {0}
  <1>1. S # {} => Cardinality(S) \in Nat \ {0}
    BY FS_CardinalityType, FS_EmptySet
  <1>2. ASSUME NEW x \in S, NEW y \in S, x # y
        PROVE  Cardinality(S) > 1
    <2>1. Cardinality(S) # 1
      BY <1>2, FS_Singleton
    <2>2. QED
      BY <1>1, <2>1
  <1>3. QED
    BY <1>1, <1>2

(* A finite set of numbers has a highest and a lowest.                     *)
LEMMA Extremes ==
  ASSUME NEW S, IsFiniteSet(S), S # {}, \A x \in S : x \in Nat
  PROVE  /\ Highest(S) \in S /\ Lowest(S) \in S
  <1> DEFINE Above(x) == {y \in S : y > x}
             Below(x) == {y \in S : y < x}
  <1>1. \E x \in S : \A y \in S : y <= x
    <2> DEFINE T == {Above(x) : x \in S}
    <2>1. IsFiniteSet(S) /\ T \in SUBSET SUBSET S /\ T # {}
      OBVIOUS
    <2> HIDE DEF T, Above, Below
    <2>2. PICK s \in T : \A u \in T : ~(u \subseteq s /\ u # s)
      BY <2>1, MinimalSubset
    <2>3. PICK x \in S : s = Above(x)
      BY DEF T
    <2> USE DEF Above, Below
    <2>4. ASSUME NEW y \in S, y > x
          PROVE  FALSE
      <3>1. Above(y) \in T
        BY DEF T
      <3>2. \A z \in S : z > y => z > x
        BY <2>4
      <3>3. Above(y) \subseteq s /\ y \in s /\ y \notin Above(y)
        BY <2>3, <2>4, <3>2
      <3> HIDE DEF Above, Below
      <3>4. QED
        BY <2>2, <3>1, <3>3
    <2>5. QED
      BY <2>4
  <1>2. \E x \in S : \A y \in S : x <= y
    <2> DEFINE T == {Below(x) : x \in S}
    <2>1. IsFiniteSet(S) /\ T \in SUBSET SUBSET S /\ T # {}
      OBVIOUS
    <2> HIDE DEF T, Above, Below
    <2>2. PICK s \in T : \A u \in T : ~(u \subseteq s /\ u # s)
      BY <2>1, MinimalSubset
    <2>3. PICK x \in S : s = Below(x)
      BY DEF T
    <2> USE DEF Above, Below
    <2>4. ASSUME NEW y \in S, y < x
          PROVE  FALSE
      <3>1. Below(y) \in T
        BY DEF T
      <3>2. \A z \in S : z < y => z < x
        BY <2>4
      <3>3. Below(y) \subseteq s /\ y \in s /\ y \notin Below(y)
        BY <2>3, <2>4, <3>2
      <3> HIDE DEF Above, Below
      <3>4. QED
        BY <2>2, <3>1, <3>3
    <2>5. QED
      BY <2>4
  <1>3. QED
    BY <1>1, <1>2 DEF Highest, Lowest

LEMMA TroopsAreFinite ==
  ASSUME DecisionsTypeOK
  PROVE  /\ \A S \in SUBSET (Troops \cup {None}) : IsFiniteSet(S) /\ Cardinality(S) \in Nat
         /\ AvdRows(roster) \subseteq Troops /\ Live(roster) \subseteq AvdRows(roster)
         /\ None \notin AvdRows(roster)
         /\ \A t \in Troops : SourceBracket(t) \in Brackets \cup {None}
  <1>1. IsFiniteSet(Troops \cup {None})
    BY FiniteGroup, FS_AddElement
  <1>2. \A S \in SUBSET (Troops \cup {None}) : IsFiniteSet(S) /\ Cardinality(S) \in Nat
    BY <1>1, FS_Subset, FS_CardinalityType
  <1>3. QED
    BY <1>2, RosterFacts, DeclaredType, DeclaredAsType, BracketOfType DEF AvdRows, SourceBracket

(* Everybody counted once, by what each has.                               *)
LEMMA CountedBy ==
  ASSUME NEW M \in SUBSET Members, NEW key, NEW fun, IsFiniteSet(DOMAIN fun),
         \A x \in DOMAIN fun : fun[x] = Cardinality({m \in M : key[m] = x}),
         \A m \in M : key[m] \in DOMAIN fun
  PROVE  SumFunction(fun) = Cardinality(M)
  <1>1. IsFiniteSet(M)
    BY FiniteMembers
  <1>2. SumFunction(fun) = Cardinality({m \in M : key[m] \in DOMAIN fun})
    BY <1>1, SumOfFibres
  <1>3. {m \in M : key[m] \in DOMAIN fun} = M
    OBVIOUS
  <1>4. QED
    BY <1>2, <1>3

(* The bracket a member is counted in on the overview, if it is in one.    *)
Counted(m) == IF roster[m].troop = None THEN None ELSE SourceBracket(roster[m].troop)

LEMMA SubtotalFacts ==
  ASSUME DecisionsTypeOK, NEW b \in Brackets
  PROVE  Subtotal(roster, b) = Cardinality({m \in Members : Counted(m) = b})
  <1> DEFINE M == {m \in Members : Counted(m) = b}
             key == [m \in Members |-> roster[m].troop]
             fun == [t \in RowsOf(roster, b) |-> Size(roster, t)]
  <1>1. RowsOf(roster, b) \in SUBSET Troops /\ None \notin Brackets /\ None \notin Troops
    BY TroopsAreFinite, NoneIsNothing DEF RowsOf
  <1>2. IsFiniteSet(DOMAIN fun)
    BY <1>1, TroopsAreFinite
  <1>3. \A t \in DOMAIN fun : fun[t] = Cardinality({m \in M : key[m] = t})
    <2> SUFFICES ASSUME NEW t \in RowsOf(roster, b)
                 PROVE  {m \in M : key[m] = t} = InTroop(roster, t)
      BY DEF Size
    <2>1. t # None /\ SourceBracket(t) = b
      BY <1>1 DEF RowsOf
    <2>2. QED
      BY <2>1 DEF InTroop, Counted
  <1>4. \A m \in M : key[m] \in DOMAIN fun
    <2> SUFFICES ASSUME NEW m \in M PROVE roster[m].troop \in RowsOf(roster, b)
      OBVIOUS
    <2>1. roster[m].troop # None /\ SourceBracket(roster[m].troop) = b
      BY <1>1 DEF Counted
    <2>2. roster[m].troop \in Live(roster)
      BY <2>1 DEF Live
    <2>3. QED
      BY <2>1, <2>2, TroopsAreFinite DEF RowsOf
  <1>5. M \in SUBSET Members
    OBVIOUS
  <1> HIDE DEF M, key, fun
  <1>6. SumFunction(fun) = Cardinality(M)
    BY <1>2, <1>3, <1>4, <1>5, CountedBy
  <1>7. QED
    BY <1>6 DEF Subtotal, fun, M

LEMMA BracketsAreFinite == ASSUME NEW S \in SUBSET Brackets PROVE IsFiniteSet(S)
  <1> DEFINE f == [i \in 1..5 |-> Ladder[i]]
             T == {f[i] : i \in 1..5}
  <1>1. IsFiniteSet(1..5)
    <2>1. 1 \in Int /\ 5 \in Int
      OBVIOUS
    <2>2. QED
      BY <2>1, FS_Interval
  <1>2. IsFiniteSet(T)
    <2> HIDE DEF f
    <2>1. QED
      BY <1>1, FiniteImage
  <1>3. Brackets = T \cup {"annat"}
    BY DEF Brackets
  <1>4. IsFiniteSet(Brackets)
    BY <1>2, <1>3, FS_AddElement
  <1>5. QED
    BY <1>4, FS_Subset

LEMMA KarFacts ==
  ASSUME DecisionsTypeOK
  PROVE  Composition(roster).kar_total = Cardinality(
           {m \in Members : roster[m].troop = None \/ SourceBracket(roster[m].troop) # None})
  <1> DEFINE shown == {b \in Brackets : RowsOf(roster, b) # {}}
             fun == [b \in shown |-> Subtotal(roster, b)]
             key == [m \in Members |-> Counted(m)]
             M == {m \in Members : Counted(m) # None}
             out == InTroop(roster, None)
             all == {m \in Members : roster[m].troop = None \/ SourceBracket(roster[m].troop) # None}
  <1>1. Composition(roster).kar_total = SumFunction(fun) + Cardinality(out)
    BY DEF Composition, Size
  <1>2. None \notin Brackets
    BY NoneIsNothing
  <1>3. \A b \in DOMAIN fun : fun[b] = Cardinality({m \in M : key[m] = b})
    <2> SUFFICES ASSUME NEW b \in shown
                 PROVE  fun[b] = Cardinality({m \in M : key[m] = b})
      OBVIOUS
    <2>1. {m \in M : key[m] = b} = {m \in Members : Counted(m) = b}
      BY <1>2
    <2>2. QED
      BY <2>1, SubtotalFacts
  <1>4. \A m \in M : key[m] \in DOMAIN fun
    <2> SUFFICES ASSUME NEW m \in M PROVE Counted(m) \in shown
      OBVIOUS
    <2>1. roster[m].troop # None /\ Counted(m) = SourceBracket(roster[m].troop)
      BY DEF Counted
    <2>2. roster[m].troop \in Live(roster)
      BY <2>1 DEF Live
    <2>3. Counted(m) \in Brackets
      BY <2>1, <2>2, TroopsAreFinite
    <2>4. roster[m].troop \in RowsOf(roster, Counted(m))
      BY <2>1, <2>2, TroopsAreFinite DEF RowsOf
    <2>5. QED
      BY <2>3, <2>4
  <1>5. IsFiniteSet(DOMAIN fun)
    BY BracketsAreFinite
  <1>6. M \in SUBSET Members /\ out \in SUBSET Members
    BY DEF InTroop
  <1>7. all = M \cup out /\ M \cap out = {}
    BY DEF InTroop, Counted
  <1> HIDE DEF M, key, fun, out, all
  <1>8. SumFunction(fun) = Cardinality(M)
    BY <1>3, <1>4, <1>5, <1>6, CountedBy
  <1>9. Cardinality(all) = Cardinality(M) + Cardinality(out)
    BY <1>6, <1>7, FiniteMembers, Disjoint
  <1>10. QED
    BY <1>1, <1>8, <1>9 DEF all

LEMMA SpreadFacts ==
  ASSUME DecisionsTypeOK, NEW b \in DOMAIN SizeSpread(roster)
  PROVE  SizeSpread(roster)[b] < Composition(roster).groups[b].subtotal
  <1> DEFINE full == {t \in RowsOf(roster, b) : Size(roster, t) # 0}
             of == {Size(roster, t) : t \in full}
             high == Highest(of)
             low == Lowest(of)
             sub == Subtotal(roster, b)
             in == {m \in Members : Counted(m) = b}
  <1>1. b \in Moving /\ Cardinality(full) >= 2 /\ SizeSpread(roster)[b] = high - low
    BY DEF SizeSpread
  <1>2. b \in Brackets
    BY <1>1, NextFacts DEF Brackets, Ladder
  <1>3. full # {}
    BY <1>1, FS_EmptySet
  <1>4. full \in SUBSET Troops /\ None \notin full
    BY TroopsAreFinite DEF RowsOf
  <1>5. \A t \in full : Size(roster, t) \in Nat \ {0}
    BY FiniteMembers DEF Size, InTroop
  <1>6. IsFiniteSet(of) /\ of \in SUBSET (Nat \ {0}) /\ of # {}
    <2> DEFINE f == [t \in full |-> Size(roster, t)]
    <2>1. of = {f[t] : t \in full}
      OBVIOUS
    <2>2. IsFiniteSet(full)
      BY <1>4, TroopsAreFinite
    <2>3. of \in SUBSET (Nat \ {0}) /\ of # {}
      BY <1>3, <1>5
    <2> HIDE DEF f, of, full
    <2>4. IsFiniteSet(of)
      BY <2>1, <2>2, FiniteImage
    <2>5. QED
      BY <2>3, <2>4
  <1>7. high \in of /\ low \in of
    <2> HIDE DEF of
    <2>1. QED
      BY <1>6, Extremes
  <1>8. PICK t \in full : high = Size(roster, t)
    BY <1>7
  <1>9. high <= sub
    <2>1. InTroop(roster, t) \in SUBSET in
      BY <1>4 DEF InTroop, Counted, RowsOf
    <2>2. in \in SUBSET Members
      OBVIOUS
    <2>3. sub = Cardinality(in)
      BY <1>2, SubtotalFacts
    <2> HIDE DEF in, sub, high
    <2>4. Cardinality(InTroop(roster, t)) <= Cardinality(in)
      BY <2>1, <2>2, FiniteMembers, FS_Subset
    <2>5. QED
      BY <1>8, <2>3, <2>4 DEF Size
  <1>10. sub \in Nat
    BY <1>2, SubtotalFacts, FiniteMembers
  <1>11. Composition(roster).groups[b].subtotal = sub
    <2>1. RowsOf(roster, b) # {}
      BY <1>3
    <2>2. QED
      BY <1>2, <2>1 DEF Composition
  <1> HIDE DEF high, low, sub, of
  <1>12. low >= 1 /\ low \in Nat /\ high \in Nat
    BY <1>6, <1>7
  <1>13. high - low < sub
    BY <1>9, <1>10, <1>12
  <1>14. QED
    BY <1>1, <1>11, <1>13

LEMMA BucketFacts == ASSUME NEW m PROVE PrevPayment(m) \in DuesBuckets
  BY DEF PrevPayment, Bucket, DuesBuckets

LEMMA BucketsAreFinite == IsFiniteSet(DuesBuckets)
  <1>1. IsFiniteSet({"not_billed"})
    BY FS_Singleton
  <1>2. IsFiniteSet({"not_billed"} \cup {"outstanding"})
    BY <1>1, FS_AddElement
  <1>3. IsFiniteSet(({"not_billed"} \cup {"outstanding"}) \cup {"settled"})
    BY <1>2, FS_AddElement
  <1>4. IsFiniteSet((({"not_billed"} \cup {"outstanding"}) \cup {"settled"}) \cup {"unknown"})
    BY <1>3, FS_AddElement
  <1>5. DuesBuckets = (({"not_billed"} \cup {"outstanding"}) \cup {"settled"}) \cup {"unknown"}
    BY DEF DuesBuckets
  <1>6. QED
    BY <1>4, <1>5

(* The dues page counts every member once, in one row and one bucket.      *)
LEMMA DuesFacts ==
  ASSUME DecisionsTypeOK, NEW dues, dues = DuesByAvdelning(roster)
  PROVE  /\ SumFunction([t \in DOMAIN dues |-> SumFunction(dues[t].counts)]) = Cardinality(Members)
         /\ SumFunction([t \in DOMAIN dues |-> dues[t].counts["settled"]]) = SharePaid(None).paid
  <1> DEFINE rows == {roster[m].troop : m \in Members}
             all == [t \in DOMAIN dues |-> SumFunction(dues[t].counts)]
             paid == [t \in DOMAIN dues |-> dues[t].counts["settled"]]
             key == [m \in Members |-> roster[m].troop]
             bucket == [m \in Members |-> PrevPayment(m)]
             P == {m \in Members : PrevPayment(m) = "settled"}
  <1>1. /\ DOMAIN dues = rows
        /\ \A t \in rows : dues[t].counts = [b \in DuesBuckets |->
                             Cardinality({m \in InTroop(roster, t) : PrevPayment(m) = b})]
    BY DEF DuesByAvdelning
  <1>2. IsFiniteSet(rows)
    <2>1. rows \in SUBSET (Troops \cup {None})
      BY RosterFacts
    <2>2. QED
      BY <2>1, TroopsAreFinite
  <1>3. \A t : InTroop(roster, t) \in SUBSET Members
    BY DEF InTroop
  <1>4. ASSUME NEW t \in rows
        PROVE  SumFunction(dues[t].counts) = Cardinality(InTroop(roster, t))
    <2> DEFINE fun == dues[t].counts
               M == InTroop(roster, t)
    <2>1. DOMAIN fun = DuesBuckets /\ \A b \in DuesBuckets :
            fun[b] = Cardinality({m \in M : PrevPayment(m) = b})
      BY <1>1
    <2>2. \A b : {m \in M : PrevPayment(m) = b} = {m \in M : bucket[m] = b}
      BY <1>3
    <2>3. \A b \in DOMAIN fun : fun[b] = Cardinality({m \in M : bucket[m] = b})
      BY <2>1, <2>2
    <2>4. \A m \in M : bucket[m] \in DOMAIN fun
      BY <1>3, <2>1, BucketFacts
    <2>5. M \in SUBSET Members
      BY <1>3
    <2> HIDE DEF fun, M, bucket
    <2>6. SumFunction(fun) = Cardinality(M)
      BY <2>1, <2>3, <2>4, <2>5, BucketsAreFinite, CountedBy
    <2>7. QED
      BY <2>6 DEF fun, M
  <1>5. SumFunction(all) = Cardinality(Members)
    <2> DEFINE M == Members
    <2>1. \A t \in DOMAIN all : all[t] = Cardinality({m \in M : key[m] = t})
      <3>1. \A t : {m \in M : key[m] = t} = InTroop(roster, t)
        BY DEF InTroop
      <3>2. QED
        BY <1>1, <1>4, <3>1
    <2>2. \A m \in M : key[m] \in DOMAIN all
      BY <1>1
    <2>3. IsFiniteSet(DOMAIN all) /\ M \in SUBSET Members
      BY <1>1, <1>2
    <2> HIDE DEF all, key, M
    <2>4. SumFunction(all) = Cardinality(M)
      BY <2>1, <2>2, <2>3, CountedBy
    <2>5. QED
      BY <2>4 DEF M
  <1>6. SumFunction(paid) = Cardinality(P)
    <2>1. \A t \in DOMAIN paid : paid[t] = Cardinality({m \in P : key[m] = t})
      <3> SUFFICES ASSUME NEW t \in rows
                   PROVE  dues[t].counts["settled"] = Cardinality({m \in P : key[m] = t})
        BY <1>1
      <3>1. {m \in P : key[m] = t} = {m \in InTroop(roster, t) : PrevPayment(m) = "settled"}
        BY DEF InTroop
      <3>2. "settled" \in DuesBuckets
        BY DEF DuesBuckets
      <3>3. dues[t].counts["settled"]
              = Cardinality({m \in InTroop(roster, t) : PrevPayment(m) = "settled"})
        BY <1>1, <3>2
      <3>4. QED
        BY <3>1, <3>3
    <2>2. \A m \in P : key[m] \in DOMAIN paid
      BY <1>1
    <2>3. IsFiniteSet(DOMAIN paid) /\ P \in SUBSET Members
      BY <1>1, <1>2
    <2> HIDE DEF paid, key, P
    <2>4. QED
      BY <2>1, <2>2, <2>3, CountedBy
  <1>7. QED
    BY <1>5, <1>6 DEF SharePaid

(* The organisation's count of roles is a number.                          *)
LEMMA RolesAreCounted == TotalRoles \in Nat
  <1> DEFINE of(m) == {<<m, d>> : d \in Duties[m]}
             pairs == UNION {of(m) : m \in Members}
             key == [p \in pairs |-> p[1]]
             fun == [m \in Members |-> Cardinality(Duties[m])]
  <1>1. ASSUME NEW m \in Members
        PROVE  IsFiniteSet(of(m)) /\ Cardinality(of(m)) = Cardinality(Duties[m])
    <2> DEFINE f == [d \in Duties[m] |-> <<m, d>>]
    <2>1. f \in Bijection(Duties[m], of(m))
      <3>1. f \in [Duties[m] -> of(m)]
        OBVIOUS
      <3>2. \A d, e \in Duties[m] : f[d] = f[e] => d = e
        OBVIOUS
      <3>3. \A p \in of(m) : \E d \in Duties[m] : f[d] = p
        OBVIOUS
      <3> HIDE DEF f, of
      <3>4. QED
        BY <3>1, <3>2, <3>3 DEF Bijection, Injection, Surjection, IsInjective
    <2>2. ExistsBijection(Duties[m], of(m))
      BY <2>1 DEF ExistsBijection
    <2>3. QED
      BY <2>2, DutiesFinite, FS_Bijection
  <1>2. IsFiniteSet(pairs)
    <2> DEFINE g == [m \in Members |-> of(m)]
               T == {of(m) : m \in Members}
    <2>1. T = {g[m] : m \in Members}
      OBVIOUS
    <2>2. \A s \in T : IsFiniteSet(s)
      BY <1>1
    <2> HIDE DEF g, T
    <2>3. IsFiniteSet(T)
      BY <2>1, FiniteGroup, FiniteImage
    <2>4. IsFiniteSet(UNION T)
      BY <2>2, <2>3, FS_UNION
    <2>5. QED
      BY <2>4 DEF T
  <1>3. \A m \in DOMAIN fun : fun[m] = Cardinality({p \in pairs : key[p] = m})
    <2> SUFFICES ASSUME NEW m \in Members
                 PROVE  Cardinality(Duties[m]) = Cardinality({p \in pairs : key[p] = m})
      OBVIOUS
    <2>1. {p \in pairs : key[p] = m} = of(m)
      OBVIOUS
    <2>2. QED
      BY <1>1, <2>1
  <1>4. IsFiniteSet(DOMAIN fun)
    BY FiniteGroup
  <1> HIDE DEF pairs, key, fun
  <1>5. SumFunction(fun) = Cardinality({p \in pairs : key[p] \in DOMAIN fun})
    BY <1>2, <1>3, <1>4, SumOfFibres
  <1>6. IsFiniteSet({p \in pairs : key[p] \in DOMAIN fun})
    BY <1>2, FS_Subset
  <1>7. QED
    BY <1>5, <1>6, FS_CardinalityType DEF TotalRoles, fun

LEMMA CrossChecks ==
  ASSUME DecisionsTypeOK, NEW org, org = Aggregate(roster),
         NEW checks, checks = Reconciliation(roster, org.membercount, org.active_troops)
  PROVE  /\ SharePaid(org.active_paid_previous).cross_check_ok /\ RolecountMatches(org.rolecount)
         /\ checks.membercount /\ (checks.active_troops <=> Declared \subseteq Live(roster))
  <1>1. SharePaid(org.active_paid_previous).cross_check_ok /\ checks.membercount
    BY DEF SharePaid, Aggregate, Reconciliation, Agrees
  <1>2. RolecountMatches(org.rolecount)
    <2>1. TotalRoles # None
      BY RolesAreCounted, NoneIsNothing
    <2>2. org.rolecount = TotalRoles
      BY DEF Aggregate
    <2> HIDE DEF TotalRoles
    <2>3. QED
      BY <2>1, <2>2 DEF RolecountMatches
  <1>3. checks.active_troops <=> Declared \subseteq Live(roster)
    <2> DEFINE live == Live(roster)
               rows == AvdRows(roster)
    <2>1. checks.active_troops <=> Cardinality(live) \in {None, Cardinality(rows)}
      BY DEF Reconciliation, Aggregate, Agrees
    <2>2. rows = Declared \cup live
      BY DEF AvdRows
    <2>3. rows \in SUBSET Troops /\ live \in SUBSET rows
      BY TroopsAreFinite
    <2>4. IsFiniteSet(rows) /\ Cardinality(live) \in Nat
      BY <2>3, TroopsAreFinite
    <2> HIDE DEF live, rows
    <2>5. Cardinality(rows) = Cardinality(live) => rows = live
      BY <2>3, <2>4, FS_Subset
    <2>6. Cardinality(live) # None
      BY <2>4, NoneIsNothing
    <2>7. QED
      BY <2>1, <2>2, <2>5, <2>6 DEF live
  <1>4. QED
    BY <1>1, <1>2, <1>3

LEMMA ChaseFacts ==
  ASSUME NEW dues, dues = DuesByAvdelning(roster)
  PROVE  \A t \in DOMAIN dues : \A m \in dues[t].outstanding : Route(m) # None
  <1> SUFFICES ASSUME NEW t \in DOMAIN dues, NEW m \in dues[t].outstanding
               PROVE  Route(m) # None
    OBVIOUS
  <1>1. PrevPayment(m) \in {"outstanding", "unknown"}
    BY DEF DuesByAvdelning
  <1>2. Route(m) \in {"review", "chase"}
    BY <1>1 DEF Route
  <1>3. QED
    BY <1>2, NoneIsNoRoute DEF Routes

(* The lines of the projection count the movers, and no mover is a leader. *)
LEMMA TransitionFacts ==
  ASSUME DecisionsTypeOK, NEW ms, ms = Master(roster, Now, Elected(Now))
  PROVE  /\ ConfigAgrees => SumFunction(TransitionLines(ms))
               = Cardinality({m \in Movers(ms) : roster[m].troop \in Declared})
         /\ Movers(ms) \cap (LedareMembers(roster) \cup RoleHolders(roster)) = {}
  <1>1. \A m \in Movers(ms) : /\ m \in Members /\ MovesUp(Now, roster[m])
                              /\ ms[m].source = roster[m].troop /\ ~Excluded(Now, roster[m])
    BY MasterFacts DEF Movers
  <1>2. Movers(ms) \cap (LedareMembers(roster) \cup RoleHolders(roster)) = {}
    BY <1>1 DEF Excluded, LedareMembers, RoleHolders
  <1>3. ASSUME ConfigAgrees
        PROVE  SumFunction(TransitionLines(ms))
                 = Cardinality({m \in Movers(ms) : roster[m].troop \in Declared})
    <2> DEFINE M == {m \in Movers(ms) : roster[m].troop \in Declared}
               key == [m \in Members |-> BracketOf[roster[m].troop]]
               fun == TransitionLines(ms)
    <2>1. DOMAIN fun = Moving
      BY DEF TransitionLines
    <2>2. \A b \in DOMAIN fun : fun[b] = Cardinality({m \in M : key[m] = b})
      <3> SUFFICES ASSUME NEW b \in Moving
                   PROVE  fun[b] = Cardinality({m \in M : key[m] = b})
        BY <2>1
      <3>1. {m \in M : key[m] = b} =
              {m \in Movers(ms) : ms[m].source \in Declared /\ DeclaredAs[ms[m].source] = b}
        BY <1>1, <1>3 DEF ConfigAgrees
      <3>2. QED
        BY <3>1 DEF TransitionLines
    <2>3. \A m \in M : key[m] \in DOMAIN fun
      BY <1>1, <2>1, MoversFacts
    <2>4. M \in SUBSET Members
      BY <1>1
    <2>5. IsFiniteSet(DOMAIN fun)
      <3>1. Moving \in SUBSET Brackets
        BY NextFacts DEF Brackets, Ladder
      <3>2. QED
        BY <2>1, <3>1, BracketsAreFinite
    <2> HIDE DEF M, key, fun
    <2>6. SumFunction(fun) = Cardinality(M)
      BY <2>2, <2>3, <2>4, <2>5, CountedBy
    <2>7. QED
      BY <2>6 DEF M, fun
  <1>4. QED
    BY <1>2, <1>3

LEMMA LeadsFacts ==
  ASSUME DecisionsTypeOK, NEW m \in Members
  PROVE  /\ Leads(m) # {} => roster[m].leader
         /\ Leads(m) \subseteq {d.of : d \in {e \in Duties[m] : e.scope = "troop"}}
  <1>1. roster \in InitialRosters
    BY DEF DecisionsTypeOK
  <1>2. QED
    BY <1>1, DutiesAgree DEF Leads

(* A young scout counted as a leader elsewhere is in several avdelningar,  *)
(* and a finding.                                                          *)
LEMMA YoungLeaderFacts ==
  ASSUME DecisionsTypeOK, NEW t \in DOMAIN ScoutsPerLeader(roster), NEW m \in Members,
         t \in Leads(m), t # roster[m].troop, roster[m].troop # None,
         BracketOf[roster[m].troop] \in Structural, t \notin RoverIds(roster)
  PROVE  m \in MultiAvdelning(roster) /\ "young_leader" \in Findings(roster, Now, m)
  <1> DEFINE own == roster[m].troop
             S == AttachedTo(roster, m) \ RoverIds(roster)
  <1>1. t \in AvdRows(roster) /\ t # None
    BY TroopsAreFinite DEF ScoutsPerLeader
  <1>2. t \in S
    BY <1>1, LeadsFacts DEF AttachedTo
  <1>3. own \in S
    <2>1. own \in AttachedTo(roster, m)
      BY DEF AttachedTo
    <2>2. BracketOf[own] # None /\ BracketOf[own] # "rover"
      BY NoneIsNothing DEF Structural, Brackets, Ladder
    <2>3. own \notin RoverIds(roster)
      BY <2>2 DEF RoverIds
    <2>4. QED
      BY <2>1, <2>3
  <1>4. IsFiniteSet(S)
    <2>1. \A d \in Duties[m] : d.of \in Troops \cup {None}
      BY DutiesType DEF Duty
    <2>2. S \in SUBSET (Troops \cup {None})
      BY <2>1, RosterFacts DEF AttachedTo
    <2>3. QED
      BY <2>2, TroopsAreFinite
  <1>5. Cardinality(S) > 1
    <2> HIDE DEF S
    <2>1. QED
      BY <1>2, <1>3, <1>4, SeveralElements
  <1>6. roster[m].leader
    BY LeadsFacts
  <1>7. "young_leader" \in Findings(roster, Now, m)
    BY <1>6 DEF Findings
  <1>8. QED
    BY <1>5, <1>7 DEF MultiAvdelning

LEMMA PostFacts ==
  /\ SecurityFindings(roster) \subseteq {m \in Members : Leads(m) # {}}
  /\ UNION {BySection[s] : s \in DOMAIN BySection} = Assignments
  /\ \A k \in DOMAIN Vacancies : {a \in BySection[Section(k)] : a.key = k} = {}
       \/ Vacancies[k] < Expected[k]
  <1>1. SecurityFindings(roster) \subseteq {m \in Members : Leads(m) # {}}
    BY DEF SecurityFindings
  <1>2. \A k : Section(k) \in {"board", "other", "delegate"}
    BY DEF Section
  <1>3. /\ DOMAIN BySection = {"board", "other", "delegate"}
        /\ \A s \in DOMAIN BySection : BySection[s] = {a \in Assignments : Section(a.key) = s}
    BY DEF BySection
  <1> HIDE DEF BySection, Assignments
  <1>4. UNION {BySection[s] : s \in DOMAIN BySection} = Assignments
    BY <1>2, <1>3
  <1>5. ASSUME NEW k \in DOMAIN Vacancies, {a \in BySection[Section(k)] : a.key = k} # {}
        PROVE  Vacancies[k] < Expected[k]
    <2> DEFINE held == {a \in Assignments : a.key = k}
               filled == Cardinality(held)
    <2>1. k \in DOMAIN Expected /\ Vacancies[k] = Expected[k] - filled
      BY DEF Vacancies
    <2>2. held # {}
      BY <1>2, <1>3, <1>5
    <2>3. IsFiniteSet(held)
      <3> DEFINE f == [m \in Members |-> [member |-> m, key |-> k]]
                 T == {f[m] : m \in Members}
      <3>1. IsFiniteSet(T)
        <4> HIDE DEF f
        <4>1. QED
          BY FiniteGroup, FiniteImage
      <3>2. held \in SUBSET T
        BY DEF Assignments
      <3>3. QED
        BY <3>1, <3>2, FS_Subset
    <2> HIDE DEF held
    <2>4. filled \in Nat \ {0}
      BY <2>2, <2>3, SeveralElements
    <2> HIDE DEF filled
    <2>5. Expected[k] \in Nat
      BY <2>1, ExpectedType
    <2>6. QED
      BY <2>1, <2>4, <2>5
  <1>6. QED
    BY <1>1, <1>4, <1>5

LEMMA PagesFacts == ASSUME DecisionsTypeOK PROVE PagesAgree
  <1> DEFINE ms == Master(roster, Now, Elected(Now))
             dues == DuesByAvdelning(roster)
             org == Aggregate(roster)
             checks == Reconciliation(roster, org.membercount, org.active_troops)
             kar == Composition(roster)
             spread == SizeSpread(roster)
  <1>1. kar.kar_total = Cardinality(
          {m \in Members : roster[m].troop = None \/ SourceBracket(roster[m].troop) # None})
    BY KarFacts
  <1>2. /\ SumFunction([t \in DOMAIN dues |-> SumFunction(dues[t].counts)]) = Cardinality(Members)
        /\ SumFunction([t \in DOMAIN dues |-> dues[t].counts["settled"]]) = SharePaid(None).paid
    BY DuesFacts
  <1>3. /\ SharePaid(org.active_paid_previous).cross_check_ok /\ RolecountMatches(org.rolecount)
        /\ checks.membercount /\ (checks.active_troops <=> Declared \subseteq Live(roster))
    BY CrossChecks
  <1>4. \A t \in DOMAIN dues : \A m \in dues[t].outstanding : Route(m) # None
    BY ChaseFacts
  <1>5. /\ ConfigAgrees => SumFunction(TransitionLines(ms))
              = Cardinality({m \in Movers(ms) : roster[m].troop \in Declared})
        /\ Movers(ms) \cap (LedareMembers(roster) \cup RoleHolders(roster)) = {}
    BY TransitionFacts
  <1>6. \A t \in DOMAIN ScoutsPerLeader(roster) : \A m \in Members :
          t \in Leads(m) /\ t # roster[m].troop /\ roster[m].troop # None
            /\ BracketOf[roster[m].troop] \in Structural /\ t \notin RoverIds(roster)
          => m \in MultiAvdelning(roster) /\ "young_leader" \in Findings(roster, Now, m)
    BY YoungLeaderFacts
  <1>7. SecurityFindings(roster) \subseteq RoleHolders(roster)
    BY PostFacts, LeadsFacts DEF RoleHolders
  <1>8. /\ UNION {BySection[s] : s \in DOMAIN BySection} = Assignments
        /\ \A k \in DOMAIN Vacancies : {a \in BySection[Section(k)] : a.key = k} = {}
             \/ Vacancies[k] < Expected[k]
    BY PostFacts
  <1>9. \A b \in DOMAIN spread : spread[b] < kar.groups[b].subtotal
    BY SpreadFacts
  <1>10. QED
    BY <1>1, <1>2, <1>3, <1>4, <1>5, <1>6, <1>7, <1>8, <1>9, Zenon DEF PagesAgree

(* The pages that count the same members by different roads agree, for     *)
(* every memberlist, configuration and register of posts (composition,     *)
(* dues_by_avdelning, aggregate_cross_check, compute_findings).            *)
THEOREM PagesAreConsistent == DecisionsSpec => []PagesAgree
  BY PagesFacts, TablesAreTyped, PTL
=============================================================================
