--------------------------- MODULE ScoredEvidence ---------------------------
(***************************************************************************)
(* The evidence of one parcel as the sources bring it: facts are added to  *)
(* its row and taxes get older; each time it is scored again.              *)
(***************************************************************************)
EXTENDS DistressScore, FiniteSets

CONSTANTS
    Distress,  \* words of distress_type that a list may bring
    Years,     \* years of ownership
    Standings, \* points of the deal without the value
    Estimate,  \* estimates in thousands of dollars
    MaxFacts   \* bound of the model: facts of one parcel

\* What the module takes of its constants; the module that instances it assumes it.
EvidenceAssumption ==
    Years \subseteq Int /\ Standings \cup Estimate \cup {MaxFacts} \subseteq Nat

VARIABLE evidence

Init ==
    evidence \in [distress : Distress, facts : {{}}, years : Years, taxYears : {0}, sound : BOOLEAN]

\* The next list or the enrichment adds a fact to the row.
Learn(fact) ==
    /\ Cardinality(evidence.facts) < MaxFacts /\ ~ Has(evidence, fact)
    /\ evidence' = [evidence EXCEPT !.facts = @ \cup {fact}]

\* _tax_delinquent_years: the tax year of the row moves away.
NewYear == evidence.taxYears < 3 /\ evidence' = [evidence EXCEPT !.taxYears = @ + 1]

\* A row without news is scored as it was.
Same == UNCHANGED evidence

Next == NewYear \/ Same \/ \E fact \in Fact : Learn(fact)
Spec == Init /\ [][Next]_evidence
-----------------------------------------------------------------------------
TypeOK ==
    evidence \in [distress : Distress, facts : SUBSET Fact, years : Years, taxYears : 0 .. 3,
                  sound : BOOLEAN]

\* The loop of get_leads_for_outbound takes leads from 50 points on: no deal, however good,
\* brings a parcel there without a motive of its owner, nor one that is disqualified.
CalledHasMotive ==
    \A s \in Standings :
        LET row == Assessed(evidence, s, Unknown)
        IN  (\E v \in Estimate : Rescored(row, s, v) >= 50 \/ row.score >= 50)
                => row.motive > 0 /\ row.viable

\* The paid value, put on a row that was scored without one, gives the points that the row
\* would have got had the comparables found that value.
RescoreAgrees ==
    \A s \in Standings, v \in Estimate :
        ~ Unfit(evidence) =>
            Rescored(Assessed(evidence, s, Unknown), s, v) = Assessed(evidence, s, v).score

EvidenceInv == TypeOK /\ CalledHasMotive /\ RescoreAgrees

\* More evidence of distress never makes the owner's motive weaker.
MoreIsNotLess == Motivation(evidence') >= Motivation(evidence)
=============================================================================
