------------------------------ MODULE Letters -------------------------------
(***************************************************************************)
(* The letters to applicants: membership/eligibility.py, drafts.py and     *)
(* mail/recipients.py, as GET /membership/drafts puts them together.       *)
(***************************************************************************)
EXTENDS Handover

CONSTANTS
  Applying,   \* applicants on a list of those waiting or to be approved
  Form,       \* what each wrote: year of birth, avdelning, bracket, sex code
  MailOf,     \* address in each mail field, or None
  FoldOf      \* an address with its case folded

GuardianFields == {"contact_email_mum", "contact_email_dad"}
OwnFields      == <<"contact_email", "email">>
MailFields     == GuardianFields \cup {OwnFields[i] : i \in DOMAIN OwnFields}

Addresses == DOMAIN FoldOf

ASSUME FormType ==
  Form \in [Applying -> [born : Nat \cup {None}, unit : Troops \cup {None},
                         bracket : Brackets \cup {None}, sex : {"1", "2", "other"}]]
(* The year of birth is the same in both exports. *)
ASSUME BornAgrees == \A a \in Applying \cap DOMAIN Applicants : Form[a].born = Applicants[a]
ASSUME MailType == MailOf \in [Applying -> [MailFields -> Addresses \cup {None}]]

-----------------------------------------------------------------------------

Pronoun(a) == CASE Form[a].sex = "1" -> "han" [] Form[a].sex = "2" -> "hon" [] OTHER -> "hen"

(* The bracket an applicant is old enough for; None without an age.        *)
EligibleBracket(born, n) == IF born = None \/ n = None THEN None ELSE AgeBracket(n - born)

(* The avdelningar told of: the configured ones of the bracket with their  *)
(* weekday.                                                                *)
BracketAvdelningar(b) == [t \in {u \in Declared : DeclaredAs[u] = b} |-> Weekday[t]]

(* Mutant: the age is not asked for. *)
LedareByPlace(a, n) == Form[a].unit \in EighteenPlus \/ Form[a].bracket = "annat"

(* is_ledare_applicant: by the avdelning applied to, its bracket, or age.  *)
IsLedareApplicant(a, n) ==
  \/ Form[a].unit \in EighteenPlus
  \/ Form[a].bracket = "annat"
  \/ Form[a].born # None /\ n # None /\ n - Form[a].born >= AdultAge

(* The first of one's own addresses, if there is any. *)
OwnAddress(a) ==
  LET given == {i \in DOMAIN OwnFields : MailOf[a][OwnFields[i]] # None} IN
  IF given = {} THEN {} ELSE {MailOf[a][OwnFields[Lowest(given)]]}

Guardians(a) == {MailOf[a][f] : f \in GuardianFields} \ {None}

(* One of the spellings of each address: the first field's. *)
Deduplicated(a) ==
  IF MailOf[a]["contact_email_mum"] # None /\ MailOf[a]["contact_email_dad"] # None
     /\ FoldOf[MailOf[a]["contact_email_mum"]] = FoldOf[MailOf[a]["contact_email_dad"]]
  THEN {MailOf[a]["contact_email_mum"]} ELSE Guardians(a)

(* resolve_recipients: both guardians, else one's own address, else nobody.*)
Recipients(a) == IF Guardians(a) # {} THEN Deduplicated(a) ELSE OwnAddress(a)

Draft(a, n) ==
  LET ledare  == IsLedareApplicant(a, n)
      to      == IF ledare THEN OwnAddress(a) ELSE Recipients(a)
      bracket == IF ledare THEN None ELSE EligibleBracket(Form[a].born, n)
  IN
  [kind |-> IF ledare THEN "ledare" ELSE "scout", to |-> to, unsendable |-> to = {},
   bracket |-> bracket, pronoun |-> Pronoun(a),
   told |-> IF bracket = None THEN <<>> ELSE BracketAvdelningar(bracket)]

(* The drafts of a list, for the cohort year there is; on a conflict about *)
(* the year the letters do not tell of any bracket.                        *)
Drafts(n) == [a \in Applying |-> Draft(a, n)]

-----------------------------------------------------------------------------
(* Properties. *)

(* Applies among the leaders, whatever the age. *)
AmongLeaders(a) == Form[a].unit \in EighteenPlus \/ Form[a].bracket = "annat"

(* From one year to the next an applicant comes of age and its letter      *)
(* changes hands.  Anybody of age, and anybody under age who applies among *)
(* the leaders, gets the leader's letter itself, and no guardian does      *)
(* ("skickas till personen sjalv, aldrig foraldrar", templates.py).  For   *)
(* everybody else under age the letter goes to the guardians wherever one  *)
(* is known, each household once, and tells of a bracket of that age only, *)
(* one for which the overview counts the applicant as waiting, if it is on *)
(* the list of those waiting.                                              *)
LettersReachTheRightOnes ==
  \A a \in Applying :
    LET d == Drafts(Now)[a]  f == Form[a] IN
    f.born # None /\ Now # None =>
      /\ Now - f.born >= AdultAge \/ AmongLeaders(a) =>
           /\ d.kind = "ledare" /\ d.to \subseteq OwnAddress(a)
           /\ d.unsendable <=> OwnAddress(a) = {}
      /\ Now - f.born < AdultAge /\ ~AmongLeaders(a) =>
           /\ d.kind = "scout"
           /\ Guardians(a) # {} => d.to # {} /\ d.to \subseteq Guardians(a)
           /\ Guardians(a) = {} => d.to = OwnAddress(a)
           /\ \A x, y \in d.to : FoldOf[x] = FoldOf[y] => x = y
           /\ d.bracket # None => /\ Now - f.born \in Window[d.bracket]
                                   /\ a \in DOMAIN Applicants =>
                                        d.bracket \in DOMAIN WaitingDepth(Now, TRUE).per_bracket
           /\ d.unsendable <=> Guardians(a) \cup OwnAddress(a) = {}
=============================================================================
