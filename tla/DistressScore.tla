---------------------------- MODULE DistressScore ----------------------------
(***************************************************************************)
(* The points of a parcel (scout/scorer.py): what its records say of the   *)
(* owner's motive, what the deal is worth, how near the owner is to a      *)
(* move, and the sum of the three, which decides who is called.            *)
(***************************************************************************)
EXTENDS Integers

Least(m, n) == IF m < n THEN m ELSE n
Positive(n) == IF n > 0 THEN n ELSE 0
Unknown == -1

\* A parcel's evidence: distress, one word of its list; facts; the years it is owned (or
\* Unknown) and the years its tax is overdue.
Fact == {"nts", "preForeclosure", "nod", "owed", "lien", "largeLien", "vacant", "outOfState",
         "absentee", "clear", "equity", "reduced", "auction", "listed", "dropped"}

Has(e, fact) == fact \in e.facts
NoticeOfSale(e) == Has(e, "nts") \/ e.distress = "nts_filed"
PreForeclosure(e) ==
    Has(e, "preForeclosure") \/ e.distress \in {"pre_foreclosure", "notice_of_default"}
TaxDue(e) == e.taxYears > 0 \/ Has(e, "owed") \/ e.distress = "tax_delinquent"
Absentee(e) == Has(e, "absentee") \/ e.distress = "absentee_owner"
Clear(e) == Has(e, "clear") \/ e.distress = "free_and_clear"
Lien(e) == Has(e, "lien") \/ Has(e, "largeLien")

\* _motivation_score: what every sign is worth, alone and with another.
Adds(sign, points) == IF sign THEN points ELSE 0

Signs(e) ==
    Adds(NoticeOfSale(e), 65) + Adds(PreForeclosure(e), 55)
    + Adds(Has(e, "nod") /\ ~ PreForeclosure(e), 55)
    + Adds(e.taxYears >= 3, 45) + Adds(e.taxYears \in {1, 2}, 30)
    + Adds(Has(e, "largeLien"), 25) + Adds(e.distress = "code_violation", 18)
    + Adds(Has(e, "vacant"), 42) + Adds(Has(e, "outOfState"), 30) + Adds(Absentee(e), 22)
    + Adds(Clear(e), 15) + Adds(Has(e, "reduced"), 15)

Pairs(e) ==
    Adds(Has(e, "vacant") /\ Absentee(e), 22) + Adds(Has(e, "vacant") /\ PreForeclosure(e), 28)
    + Adds(Has(e, "vacant") /\ Clear(e), 18) + Adds(Absentee(e) /\ TaxDue(e), 20)
    + Adds(PreForeclosure(e) /\ Has(e, "equity"), 22) + Adds(TaxDue(e) /\ Clear(e), 20)

Tenure(years) ==
    IF years >= 20 THEN 20 ELSE IF years >= 15 THEN 16 ELSE IF years >= 10 THEN 12
    ELSE IF years >= 7 THEN 8 ELSE IF years >= 5 THEN 5 ELSE IF years >= 2 THEN 2 ELSE 0

Foreclosure(e) == NoticeOfSale(e) \/ PreForeclosure(e) \/ Has(e, "nod")
Signals(e) ==
    Adds(Foreclosure(e), 1) + Adds(TaxDue(e), 1) + Adds(Has(e, "auction"), 1) + Adds(Lien(e), 1)
    + Adds(Has(e, "vacant"), 1) + Adds(Absentee(e), 1)
ExactlyThree(n) == IF n = 3 THEN 15 ELSE 0    \* mutant: more than three signals count nothing
FromThree(n) == IF n >= 4 THEN 25 ELSE IF n = 3 THEN 15 ELSE 0
Several(n) == FromThree(n)

Motivation(e) == Least(Signs(e) + Pairs(e) + Tenure(e.years) + Several(Signals(e)), 100)

\* _move_score
Move(e) ==
    Least((IF e.distress \in {"probate", "inherited", "estate"} THEN 8 ELSE 0)
          + (IF e.distress \in {"divorce", "separation"} THEN 6 ELSE 0)
          + (IF e.distress \in {"pre_foreclosure", "notice_of_default", "nts_filed"} THEN 6 ELSE 0)
          + (IF e.years >= 7 THEN 4 ELSE 0)
          + (IF {"listed", "dropped"} \subseteq e.facts THEN 15
             ELSE IF {"listed", "dropped"} \cap e.facts # {} THEN 5 ELSE 0), 30)

\* _deal_score: the standing of a parcel is what equity, type and year of building give;
\* the value, in thousands of dollars, counts by its band.
Band(v) == IF v \in 300 .. 450 THEN 25
           ELSE IF v \in (250 .. 299) \cup (451 .. 525) THEN 18
           ELSE IF v \in 200 .. 249 THEN 10 ELSE IF v \in 150 .. 199 THEN 5 ELSE 0
Deal(standing, v) == Least(standing + Band(v), 100)

EvenWeights(motive, deal, move) == Least((50 * motive + 50 * deal + 10 * move) \div 100, 100)
    \* mutant: the deal weighs as much as the motive

\* The sum of calculate_distress_score and of rescore_with_arv.
Weighed(motive, deal, move) == Least((65 * motive + 35 * deal + 10 * move) \div 100, 100)
Score(motive, deal, move) == Weighed(motive, deal, move)

\* MAO: 70 % of the value less 25 thousand.
Mao(v) == IF v = Unknown THEN Unknown ELSE Positive((70 * v) \div 100 - 25)

\* _check_disqualifiers: an unsound parcel is land, a lot, commercial or without rooms.
Unfit(e) == ~ e.sound \/ e.years = 0

\* calculate_distress_score, for the estimate that the comparables gave or Unknown.
Assessed(e, standing, v) ==
    IF Unfit(e) THEN [viable |-> FALSE, motive |-> 0, move |-> Unknown, value |-> 0, mao |-> 0,
                      score |-> 0]
    ELSE LET motive == Motivation(e)
         IN  [viable |-> TRUE, motive |-> motive, move |-> Move(e), value |-> v, mao |-> Mao(v),
              score |-> Score(motive, Deal(standing, v), Move(e))]

\* rescore_with_arv, from the columns of a row that was scored before.
Rescored(row, standing, v) ==
    Score(row.motive, Deal(standing, v), IF row.move = Unknown THEN 0 ELSE row.move)
=============================================================================
