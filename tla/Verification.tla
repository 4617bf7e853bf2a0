---------------------------- MODULE Verification ----------------------------
(***************************************************************************)
(* What one analysis may say: how the lists of GitHub become evidence, how *)
(* it is ranked and cut to a prompt, how an analyzer's claims are held     *)
(* against it, what confidence they get, and whether the tables take all   *)
(* of it.                                                                  *)
(*                                                                         *)
(* The analyzer is the rules of the program or a language model, which may *)
(* answer anything.  A text is the set of the phrases that the program     *)
(* looks for in it, its length in bytes, the width of its runes, and       *)
(* whether it is whole, that is what the database takes as TEXT: valid     *)
(* UTF-8 without U+0000.  A file need not be UTF-8, a cut may break it,    *)
(* and JSON may hold U+0000.  What breaks a text otherwise than by a cut   *)
(* is taken to be at its beginning, so that no cut mends it; titles and    *)
(* names are taken to be whole.  Weights are in hundredths, and their sums *)
(* are exact, where the program adds floating-point numbers.               *)
(***************************************************************************)
EXTENDS Integers, FiniteSets, SequencesExt

CONSTANTS
  Inputs,          \* what GitHub may answer: records of the lists of a snapshot
  ModelAnswers(_), \* what a language model may answer about evidence
  MaxContext,      \* 64 kB of each context file
  MaxFinding,      \* 500 bytes of each finding
  MaxItems,        \* of a prompt: 200 items,
  MaxBytes,        \* 128 kB,
  MaxBody,         \* 16 kB of each item
  MaxAreas         \* of a result: 20 affected areas

ASSUME LimitAssumption == {MaxContext, MaxFinding, MaxItems, MaxBytes, MaxBody, MaxAreas} \subseteq Nat \ {0}

VARIABLES
  phase,     \* of Process
  snapshot,  \* the lists that GitHub gave
  evidence,  \* ranked evidence items
  answer,    \* history: what the analyzer said
  result,    \* the result in hand
  overall,   \* its aggregate confidence
  saved      \* tables evidence_items and claim_evidence

vvars == <<phase, snapshot, evidence, answer, result, overall, saved>>

Categories == {"attempted_approach", "valuable_findings", "rejected_or_questioned_approaches",
               "unresolved_questions", "suggested_future_direction"}
Allowed    == {"superseded", "duplicate", "performance_concern", "regression_risk",
               "missing_tests", "unknown"}
PRBody     == "pr_body:1"

NoClaims == [c \in Categories |-> <<>>]
NoResult == [summary |-> "empty", claims |-> NoClaims, outcomes |-> <<>>, areas |-> <<>>]
NoRows   == [evidence |-> {}, cited |-> NoClaims]

Points(condition, points) == IF condition THEN points ELSE 0

Distinct(seq) == Cardinality(ToSet(seq)) = Len(seq)

-----------------------------------------------------------------------------
(* Sequences *)

\* Where k comes among the positions ks: by its key, and in order where keys are the same.
Place(ks, key, k) ==
  Cardinality({j \in ks : \/ key[j] < key[k]
                          \/ key[j] = key[k] /\ j <= k})

\* The elements of seq at the positions ks, by their keys.
Ordered(seq, ks, key) ==
  [p \in 1..Cardinality(ks) |-> seq[CHOOSE k \in ks : Place(ks, key, k) = p]]

\* The elements of seq at the positions ks.
Kept(seq, ks) == Ordered(seq, ks, [k \in ks |-> 0])

\* The values of seq that are allowed, each where it is seen first.
Firsts(seq, allowed) ==
  Kept(seq, {k \in DOMAIN seq : seq[k] \in allowed /\ \A j \in 1..(k - 1) : seq[j] # seq[k]})

SumOf(numbers) ==
  LET upto[k \in 0..Len(numbers)] == IF k = 0 THEN 0 ELSE upto[k - 1] + numbers[k] IN
  upto[Len(numbers)]

-----------------------------------------------------------------------------
(* The evidence *)

Says(item, phrases) == item.phrases \cap phrases # {}

\* The first limit bytes, wherever a rune ends.
Clipped(item, limit) ==
  IF item.length <= limit THEN item
  ELSE [item EXCEPT !.length = limit, !.whole = @ /\ limit % item.width = 0]

Spoken(items) == Kept(items, {k \in DOMAIN items : items[k].length > 0})

Names(files)   == [k \in DOMAIN files |-> files[k].name]
Patches(files) == [k \in DOMAIN files |-> files[k].patch]

\* FetchSnapshot, and appendRepositoryContext with what files there are.
EvidenceOf(lists) ==
  Spoken(lists.commits) \o <<lists.body>> \o Spoken(lists.reviews) \o lists.reviewComments
  \o lists.issueComments \o lists.timeline \o Spoken(Patches(lists.files))
  \o [k \in DOMAIN lists.context |-> Clipped(lists.context[k], MaxContext)]

Preference ==
  [review |-> 35, review_comment |-> 28, issue_comment |-> 16, commit |-> 10,
   timeline |-> 8, pr_body |-> 5, repository_context |-> 4, diff |-> 2]

RankScore(item) ==
  10 + Preference[item.kind]
  + Points(item.kind = "review" /\ Says(item, {"changes_requested"}), 20)
  + Points(item.maintainer, 18)
  + Points(item.recent, 10)
  + Points(Says(item, {"because", "performance", "regression", "supersed", "duplicate"}), 5)

\* Items of one score keep their order.
Rank(items) == Ordered(items, DOMAIN items, [k \in DOMAIN items |-> -RankScore(items[k])])

-----------------------------------------------------------------------------
(* The prompt *)

\* The longest prefix of whole runes; every rune of an item has the same width.
Cut(length, limit, width) == IF length > limit THEN limit - (limit % width) ELSE length

\* Mutant: what is left of the budget is not looked at.
BodyMutant(item, used) == Cut(item.length, MaxBody, item.width)

Body(item, used) == Cut(Cut(item.length, MaxBody, item.width), MaxBytes - used, item.width)

\* Nothing of the phrases is left in an empty body.
Shortened(item, used) ==
  LET n == Body(item, used) IN
  [item EXCEPT !.length = n, !.phrases = IF n = 0 THEN {} ELSE @]

\* used never falls: what is taken comes first.
ForAnalysis(items) ==
  LET ranked == Rank(items)
      used[k \in 0..Len(ranked)] ==
        IF k = 0 THEN 0 ELSE LET before == used[k - 1] IN before + Body(ranked[k], before) IN
  [k \in {k \in DOMAIN ranked : k <= MaxItems /\ used[k - 1] < MaxBytes} |->
     Shortened(ranked[k], used[k - 1])]

-----------------------------------------------------------------------------
(* Confidence *)

IsStrong(item) ==
  Says(item, {"because"}) \/ item.kind \in {"review", "review_comment"}

Weight(item) ==
  Points(Says(item, {"because"}), 40)
  + Points(item.kind = "review" /\ Says(item, {"changes_requested"}), 20)
  + Points(item.maintainer, 10)
  + Points(item.kind = "issue_comment" /\ Says(item, {"close"}), 15)
  + Points(Says(item, {"performance", "slow"}), 5)
  - Points(Says(item, {"maybe"}), 20)
  - Points(Says(item, {"conflict"}), 30)

\* evidenceByID: the last item of an id.
ItemOf(items, id) == items[SelectLastInSeq(items, LAMBDA item : item.id = id)]

Clamped(value) == IF value < 0 THEN 0 ELSE IF value > 100 THEN 100 ELSE value

\* Every id is one of items: callers have dropped the others.
Score(items, ids) ==
  LET cited == {ItemOf(items, id) : id \in ToSet(ids)}
      sum   == SumOf([k \in DOMAIN ids |-> Weight(ItemOf(items, ids[k]))]) IN
  Clamped(sum + Points(Len(ids) > 1, 15)
              - Points(~\E item \in cited : IsStrong(item), 20)
              - Points(~\E item \in cited : item.maintainer, 10))

-----------------------------------------------------------------------------
(* The gate *)

Known(items) == {items[k].id : k \in DOMAIN items}

\* Mutant: ids are looked at, but not dropped.
CheckedMutant(claim, items) ==
  IF ToSet(claim.ids) \cap Known(items) = {} THEN [claim EXCEPT !.ids = <<>>] ELSE claim

Checked(claim, items) ==
  LET ids == Kept(claim.ids, {k \in DOMAIN claim.ids : claim.ids[k] \in Known(items)}) IN
  [claim EXCEPT !.ids = ids,
                !.confidence = IF ids = <<>> THEN @ ELSE Score(items, ids)]

Filtered(claims, items, unsaid) ==
  LET checked == [k \in DOMAIN claims |-> Checked(claims[k], items)] IN
  Kept(checked, {k \in DOMAIN claims : checked[k].ids # <<>> /\ checked[k].text \notin unsaid})

\* A blank text passes here,
VerifyResult(claims, items) == [c \in Categories |-> Filtered(claims[c], items, {"empty"})]

\* but not here: the check of the analyzers that ask a language model.
verifyClaims(claims, items) ==
  [c \in Categories |-> Filtered(claims[c], items, {"empty", "blank"})]

VerifiedOutcomes(values) ==
  LET out == Firsts(values, Allowed) IN
  IF out = <<>> THEN <<"unknown">> ELSE out

Upto(seq, n) == SubSeq(seq, 1, IF Len(seq) < n THEN Len(seq) ELSE n)

\* Mutant: the bound is looked at before the answer is sifted.
verifiedAreasMutant(values, names) ==
  LET out == Firsts(Upto(values, MaxAreas), ToSet(names)) IN
  IF out = <<>> THEN Upto(Firsts(names, ToSet(names)), MaxAreas) ELSE out

\* What is no changed file goes; if nothing is left, the files themselves.
verifiedAreas(values, names) ==
  LET out == Firsts(values, ToSet(names)) IN
  Upto(IF out = <<>> THEN Firsts(names, ToSet(names)) ELSE out, MaxAreas)

\* In whole hundredths, where the program keeps a fraction.
aggregateConfidence(claims) ==
  LET all == claims["attempted_approach"] \o claims["valuable_findings"]
             \o claims["rejected_or_questioned_approaches"]
             \o claims["unresolved_questions"] \o claims["suggested_future_direction"] IN
  IF all = <<>> THEN 0 ELSE SumOf([k \in DOMAIN all |-> all[k].confidence]) \div Len(all)

-----------------------------------------------------------------------------
(* The rules *)

isDecisionEvidence(item) ==
  item.kind \in {"review", "review_comment", "issue_comment", "timeline"}

matchedReason(item) == Says(item, {"performance", "regression", "missing test", "scope"})

\* The gate scores every claim again.
Claim(text, ids) == [text |-> text, ids |-> ids, confidence |-> 0]

Words(ids) == Claim("words", ids)

\* A finding repeats what its item says, cut by compact.
Finding(item) == Claim(IF Clipped(item, MaxFinding).whole THEN "words" ELSE "broken", <<item.id>>)

\* The outcomes that are looked for, in the order of the tests.
Tests == <<"superseded", "duplicate", "performance_concern", "regression_risk", "missing_tests">>

\* The outcomes an item speaks of.
OutcomesOf(item) ==
  LET decides == isDecisionEvidence(item)
      speaks  == decides \/ item.kind = "pr_body" IN
  {o \in ToSet(Tests) :
     \/ o = "superseded" /\ speaks /\ Says(item, {"supersed"})
     \/ o = "duplicate" /\ speaks /\ Says(item, {"duplicate"})
     \/ o = "performance_concern" /\ decides /\ Says(item, {"performance", "slow"})
     \/ o = "regression_risk" /\ decides /\ Says(item, {"regression"})
     \/ o = "missing_tests" /\ decides /\ Says(item, {"missing test"})}

\* Item by item, each outcome where it is met first.
Spotted(prompt) ==
  LET by(t)   == {k \in DOMAIN prompt : Tests[t] \in OutcomesOf(prompt[k])}
      spotted == {t \in DOMAIN Tests : by(t) # {}} IN
  Ordered(Tests, spotted, [t \in spotted |-> Min(by(t))])

LocalAnalyzer(items, names) ==
  LET prompt   == ForAnalysis(items)
      approach == IF PRBody \notin Known(prompt) /\ prompt # <<>> THEN prompt[1].id ELSE PRBody
      reasons  == Kept(prompt, {k \in DOMAIN prompt : isDecisionEvidence(prompt[k])
                                                      /\ matchedReason(prompt[k])})
      concerns == [k \in DOMAIN reasons |-> Words(<<reasons[k].id>>)]
      first    == Upto(prompt, 3)
      outcomes == Spotted(prompt) IN
  [summary  |-> "words",
   claims   |-> [NoClaims EXCEPT
                   !["attempted_approach"] = <<Words(<<approach>>)>>,
                   !["valuable_findings"]  = [k \in DOMAIN reasons |-> Finding(reasons[k])],
                   !["rejected_or_questioned_approaches"] = concerns,
                   !["unresolved_questions"] =
                      IF concerns = <<>> THEN <<Words([k \in DOMAIN first |-> first[k].id])>>
                                         ELSE <<>>],
   outcomes |-> IF outcomes = <<>> THEN <<"unknown">> ELSE outcomes,
   areas    |-> Upto(names, MaxAreas)]

-----------------------------------------------------------------------------
(* Process *)

\* All strings: the provers do not know that the program's own are among them.
String == STRING \cup Allowed \cup {PRBody}

\* Text that is whole ends with a rune.
EvidenceItem ==
  {item \in [id : String, kind : DOMAIN Preference, maintainer : BOOLEAN, recent : BOOLEAN,
             phrases : SUBSET String, length : Nat, width : Nat \ {0}, whole : BOOLEAN] :
     item.whole => item.length % item.width = 0}

Lists == [commits : Seq(EvidenceItem), body : EvidenceItem, reviews : Seq(EvidenceItem),
          reviewComments : Seq(EvidenceItem), issueComments : Seq(EvidenceItem),
          timeline : Seq(EvidenceItem), files : Seq([name : String, patch : EvidenceItem]),
          context : Seq(EvidenceItem)]

\* What a text says; one that is broken says something, but is not whole.
Texts == {"empty", "blank", "words", "broken"}

ClaimRecord    == [text : Texts, ids : Seq(String), confidence : Int]
AnalysisResult == [summary  : Texts,
                   claims   : [Categories -> Seq(ClaimRecord)],
                   outcomes : Seq(String),
                   areas    : Seq(String)]

\* What the decoders of GitHub's and of the model's JSON let through.
ASSUME InputAssumption  == Inputs \subseteq Lists
ASSUME AnswerAssumption ==
  \A lists \in Inputs : ModelAnswers(Rank(EvidenceOf(lists))) \subseteq AnalysisResult

VInit ==
  /\ snapshot \in Inputs
  /\ phase    = "fetched"
  /\ evidence = <<>>
  /\ answer   = NoResult
  /\ result   = NoResult
  /\ overall  = 0
  /\ saved    = NoRows

RankEvidence ==
  /\ phase = "fetched"
  /\ evidence' = Rank(EvidenceOf(snapshot))
  /\ phase'    = "ranked"
  /\ UNCHANGED <<snapshot, answer, result, overall, saved>>

AnalyzeByRules ==
  /\ phase = "ranked"
  /\ answer' = LocalAnalyzer(evidence, Names(snapshot.files))
  /\ result' = answer'
  /\ phase'  = "analyzed"
  /\ UNCHANGED <<snapshot, evidence, overall, saved>>

\* The answer is sifted once by the analyzer itself.
AnalyzeByModel(a) ==
  /\ phase = "ranked"
  /\ answer' = a
  /\ result' = [a EXCEPT !.claims   = verifyClaims(@, evidence),
                         !.outcomes = IF @ = <<>> THEN <<"unknown">> ELSE @]
  /\ phase'  = "analyzed"
  /\ UNCHANGED <<snapshot, evidence, overall, saved>>

Verify ==
  /\ phase = "analyzed"
  /\ result'  = [summary  |-> result.summary,
                 claims   |-> VerifyResult(result.claims, evidence),
                 outcomes |-> VerifiedOutcomes(result.outcomes),
                 areas    |-> verifiedAreas(result.areas, Names(snapshot.files))]
  /\ overall' = aggregateConfidence(result'.claims)
  /\ phase'   = "verified"
  /\ UNCHANGED <<snapshot, evidence, answer, saved>>

\* Mutant: a repeated id is inserted again.
CitedMutant(claim) == claim.ids

\* seenEvidence
Cited(claim) == Firsts(claim.ids, ToSet(claim.ids))

\* The id that every event of a timeline gets to which GitHub gives no number.
Unnumbered == "timeline:0"

\* No entry of a list has a key that another has: GitHub may repeat an entry that
\* moves while pages are read, and events without a number have one id.
NoTwins ==
  /\ Distinct(Names(snapshot.files))
  /\ Distinct([k \in DOMAIN snapshot.commits |-> snapshot.commits[k].id])
  /\ Distinct([k \in DOMAIN evidence |-> evidence[k].id])

\* The primary key of claim_evidence, and the foreign key to evidence_items.
CitationsHold ==
  \A c \in Categories : \A k \in DOMAIN result.claims[c] :
    LET cited == Cited(result.claims[c][k]) IN
    Distinct(cited) /\ ToSet(cited) \subseteq Known(evidence)

\* The summary and the claims, as TEXT and in the JSONB of the result.
TextsWhole ==
  /\ result.summary # "broken"
  /\ \A c \in Categories : \A k \in DOMAIN result.claims[c] : result.claims[c][k].text # "broken"

\* The text of a diff is not stored.
EvidenceWhole == \A k \in DOMAIN evidence : evidence[k].kind = "diff" \/ evidence[k].whole

\* The database takes keys once, and texts that are whole.
TablesTake == NoTwins /\ CitationsHold /\ TextsWhole /\ EvidenceWhole

\* One transaction.
SaveAnalysis ==
  /\ phase = "verified"
  /\ IF TablesTake
       THEN /\ saved' = [evidence |-> Known(evidence),
                         cited    |-> [c \in Categories |->
                                         [k \in DOMAIN result.claims[c] |->
                                            ToSet(Cited(result.claims[c][k]))]]]
            /\ phase' = "saved"
       ELSE /\ phase' = "failed"
            /\ UNCHANGED saved
  /\ UNCHANGED <<snapshot, evidence, answer, result, overall>>

VNext ==
  \/ RankEvidence
  \/ AnalyzeByRules
  \/ \E a \in ModelAnswers(evidence) : AnalyzeByModel(a)
  \/ Verify
  \/ SaveAnalysis

VSpec == VInit /\ [][VNext]_vvars

-----------------------------------------------------------------------------
(* Properties *)

VTypeOK ==
  /\ phase \in {"fetched", "ranked", "analyzed", "verified", "saved", "failed"}
  /\ \A c \in Categories : \A k \in DOMAIN result.claims[c] :
       result.claims[c][k].confidence \in 0..100
  /\ overall \in 0..100
  /\ ToSet(result.areas) \subseteq ToSet(answer.areas) \cup ToSet(Names(snapshot.files))
  /\ saved.evidence \in {{}, Known(evidence)}

IsVerified == phase \in {"verified", "saved", "failed"}

\* The claim says something, and cites some item of the evidence.
IsFounded(claim) ==
  claim.text \notin {"empty", "blank"} /\ ToSet(claim.ids) \cap Known(evidence) # {}

\* "Claims that cannot be linked to real evidence are discarded", and no others:
\* the verified claims are the founded ones of the analyzer, in their order, each
\* with its text and the items among its citations; sifting twice does no harm.
FoundedClaimsOnly ==
  IsVerified =>
    \A c \in Categories :
      LET said    == answer.claims[c]
          founded == {k \in DOMAIN said : IsFounded(said[k])}
          kept    == result.claims[c]
          place(k) == Cardinality({j \in founded : j <= k}) IN
      /\ Len(kept) = Cardinality(founded)
      /\ \A k \in founded :
           /\ kept[place(k)].text = said[k].text
           /\ ToSet(kept[place(k)].ids) = ToSet(said[k].ids) \cap Known(evidence)

\* A number, a name or a SHA that a list of GitHub holds twice.
ListsRepeat ==
  \/ ~Distinct(Names(snapshot.files))
  \/ ~Distinct([k \in DOMAIN snapshot.commits |-> snapshot.commits[k].id])
  \/ \E j, k \in DOMAIN evidence :
       j # k /\ evidence[j].id = evidence[k].id /\ evidence[k].id # Unnumbered

\* The program's own doing: two events without a number.
EventsCollide ==
  \E j, k \in DOMAIN evidence : j # k /\ evidence[j].id = Unnumbered /\ evidence[k].id = Unnumbered

\* The tables refuse a result for one of these causes and no other, and always
\* for each of them: an entry that GitHub lists twice; two events without a
\* number; an item that is not whole; a summary, or a founded claim, that is not.
\* No claim that the gates drop and no citation, invented or repeated, matters,
\* although each would break a key, a foreign key or a text.
RefusedForCause ==
  phase \in {"saved", "failed"} =>
    (phase = "failed" <=>
       \/ ListsRepeat \/ EventsCollide \/ ~EvidenceWhole
       \/ answer.summary = "broken"
       \/ \E c \in Categories : \E k \in DOMAIN answer.claims[c] :
            answer.claims[c][k].text = "broken" /\ IsFounded(answer.claims[c][k]))

\* "Context files are optional and should never block preservation of the pull
\* request itself": a result that is not saved would not have been saved
\* without them either.
ContextNeverBlocks ==
  phase = "failed" =>
    \/ ~NoTwins \/ ~TextsWhole
    \/ \E k \in DOMAIN evidence :
         evidence[k].kind # "repository_context" /\ ~evidence[k].whole

\* The outcomes of a result are the known ones among those the analyzer named,
\* each once, and "unknown" if there is none.
OutcomesOfTheVocabulary ==
  IsVerified =>
    /\ Distinct(result.outcomes)
    /\ ToSet(result.outcomes) = IF ToSet(answer.outcomes) \cap Allowed = {} THEN {"unknown"}
                                ELSE ToSet(answer.outcomes) \cap Allowed

\* The areas of a result are changed files, each once, at most as many as the
\* bound allows; a file that the analyzer named is left out only for the bound.
AreasAreFiles ==
  IsVerified =>
    LET files == Names(snapshot.files)
        named == ToSet(answer.areas) \cap ToSet(files)
        pool  == IF named = {} THEN ToSet(files) ELSE named IN
    /\ Distinct(result.areas) /\ ToSet(result.areas) \subseteq pool
    /\ Len(result.areas) = IF Cardinality(pool) < MaxAreas THEN Cardinality(pool) ELSE MaxAreas

\* What the two say of a result, whatever was answered, and its types.
ResultIsWellFormed == VTypeOK /\ OutcomesOfTheVocabulary /\ AreasAreFiles

\* The prompt keeps its budget and its order: its items are the first of the
\* ranked ones, cut between runes if they were whole, nothing that is left out
\* ranks higher, and that only when items or bytes are used up.
PromptWithinBudget ==
  LET prompt == ForAnalysis(evidence)
      bytes  == SumOf([k \in DOMAIN prompt |-> prompt[k].length]) IN
  /\ Len(prompt) <= MaxItems /\ bytes <= MaxBytes
  /\ \A k \in DOMAIN prompt :
       /\ prompt[k].id = evidence[k].id /\ prompt[k].length <= MaxBody
       /\ evidence[k].whole => prompt[k].length % prompt[k].width = 0
       /\ \A j \in (Len(prompt) + 1)..Len(evidence) :
            RankScore(evidence[j]) <= RankScore(evidence[k])
  /\ Len(prompt) < Len(evidence) => Len(prompt) = MaxItems \/ bytes = MaxBytes
=============================================================================
