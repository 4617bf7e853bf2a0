--------------------------- MODULE MCVerification ---------------------------
(* Instances of Verification for TLC.  Four families of inputs: evidence   *)
(* of all kinds of weight, with what a language model may say about it;    *)
(* bodies of many lengths; files; and what the database may not take.      *)
EXTENDS Verification

Item(id, kind, maintainer, phrases, length, width) ==
  [id |-> id, kind |-> kind, maintainer |-> maintainer, recent |-> FALSE, phrases |-> phrases,
   length |-> length, width |-> width, whole |-> TRUE]

Patch(name, length, width) == Item("diff:" \o name, "diff", FALSE, {}, length, width)
File(name, length, width)  == [name |-> name, patch |-> Patch(name, length, width)]

\* A pull request that nobody has said anything about.
Bare == [commits |-> <<>>, body |-> Item(PRBody, "pr_body", FALSE, {"supersed"}, 2, 1),
         reviews |-> <<>>, reviewComments |-> <<>>, issueComments |-> <<>>, timeline |-> <<>>,
         files |-> <<File("a", 0, 1), File("b", 0, 1)>>, context |-> <<>>]

Optional(items) == {<<>>} \cup {<<item>> : item \in items}

Reviews == {Item("review:1", "review", TRUE, p, 2, 2) :
              p \in {{"because", "changes_requested", "performance"}, {"maybe"}, {"scope"}}}
Remarks == {[Item("comment:1", "issue_comment", m, p, 2, 1) EXCEPT !.recent = TRUE] :
              m \in BOOLEAN, p \in {{"close", "slow", "duplicate"}, {"conflict", "regression"}}}
Events  == {Item(id, "timeline", FALSE, p, 2, 1) :
              id \in {"timeline:0", "timeline:7"}, p \in {{}, {"missing test"}}}

Discussions ==
  {[Bare EXCEPT !.reviews = r, !.issueComments = c] :
     r \in Optional(Reviews), c \in Optional(Remarks)}
  \cup {[Bare EXCEPT !.timeline = e] : e \in Optional(Events) \cup (Events \X Events)}

Lengthy ==
  {[Bare EXCEPT !.files = <<File("a", l, w), File("b", m, w), File("c", n, 1)>>] :
     l, m, n \in {2, 4, 6}, w \in {1, 2}}
  \cup {[Bare EXCEPT !.issueComments = <<Item("comment:1", "issue_comment", FALSE, {"scope"}, l, 2)>>,
                     !.files = <<File("a", m, 1)>>] : l \in {2, 4, 6}, m \in {2, 4, 6}}

Filed == {[Bare EXCEPT !.files = [k \in DOMAIN s |-> File(s[k], 0, 1)]] :
            s \in BoundedSeq({"a", "b", "c"}, 4)}

Commit(sha) == Item("commit:" \o sha, "commit", FALSE, {}, 0, 1)
Guide(length, width, whole) ==
  [Item("repository_context:CONTRIBUTING.md", "repository_context", FALSE, {}, length, width)
     EXCEPT !.whole = whole]

Doubtful ==
  {[Bare EXCEPT !.commits = s] : s \in {<<Commit("x"), Commit("y")>>, <<Commit("x"), Commit("x")>>}}
  \cup {[Bare EXCEPT !.issueComments = <<[Item("comment:1", "issue_comment", FALSE, p, 2, 1)
                                            EXCEPT !.whole = v]>>] :
           p \in {{}, {"scope"}}, v \in BOOLEAN}
  \cup {[Bare EXCEPT !.context = <<Guide(l, w, v)>>] : l \in {2, 4, 6}, w \in {1, 2}, v \in BOOLEAN}

MCInputs == Discussions \cup Lengthy \cup Filed \cup Doubtful

Citations == {<<>>, <<"review:1">>, <<"comment:1", "review:9">>, <<"review:9">>,
              <<"review:1", "review:1">>, <<"comment:1", PRBody, "review:1">>}

Statements == [text : Texts, ids : Citations, confidence : {100}]

ClaimAnswers ==
  {[NoResult EXCEPT !.claims = [NoClaims EXCEPT !["valuable_findings"] = <<s>>,
                                                !["attempted_approach"] = <<t, s>>]] :
     s, t \in Statements}

OtherAnswers ==
  {[NoResult EXCEPT !.summary = t] : t \in Texts} \cup
  {[NoResult EXCEPT !.outcomes = o, !.areas = a] :
     o \in BoundedSeq({"superseded", "invented"}, 3),
     a \in BoundedSeq({"a", "c", "invented"}, 3)}

Discussed == {Rank(EvidenceOf(lists)) : lists \in Discussions}

\* The lengths, and what is doubtful, are for the rules alone.
MCAnswers(items) ==
  IF items = <<Bare.body>> THEN OtherAnswers
  ELSE IF items \in Discussed THEN ClaimAnswers
  ELSE {}
=============================================================================
