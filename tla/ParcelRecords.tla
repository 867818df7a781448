---------------------------- MODULE ParcelRecords ----------------------------
(***************************************************************************)
(* The row of one parcel (its APN) and its lead, and everyone who writes   *)
(* them: the county lists and the sheets an operator uploads, the listing  *)
(* scrapers, the enrichment of a lead, the paid valuation, the operator    *)
(* who activates a lead.  Each reads, computes and writes without a lock;  *)
(* only create_canonical_lead takes one.  Beside them, the candidates that *)
(* a source without a parcel leaves for an operator's review.              *)
(***************************************************************************)
EXTENDS DistressScore, Functions

CONSTANTS
    Writer,     \* threads and requests
    Price,      \* estimates in thousands of dollars
    Motive,     \* points of _motivation_score
    Standing,   \* points of _deal_score for equity, type and year
    Threshold,  \* MIN_ALERT_SCORE, or min_score of the upload
    Payload,    \* fingerprints of the candidate's payload
    MaxJobs     \* bound of the model: jobs begun

\* What the module takes of its constants; the module that instances it assumes it.
RecordAssumption ==
    /\ Price \cup Motive \subseteq Nat \ {0} /\ {Standing, Threshold, MaxJobs} \subseteq Nat

VARIABLES
    parcel,   \* the row of properties, or NoParcel
    leads,    \* rows of leads for it
    contact,  \* callable and dnc_blocked of the lead
    candidate,\* the row of source_candidates; history: "on", what its review was shown
    job,      \* [Writer -> what it has read and is to write]
    begun

recordVars == <<parcel, leads, contact, candidate, job, begun>>

Value == Price \cup {0, Unknown}
Trust == {"none", "needs_comps", "comps", "rentcast_avm", "rentcast_no_data"}

Points(motive, v) == Score(motive, Deal(Standing, v), 0)

NoParcel == [value |-> Unknown, mao |-> Unknown, trust |-> "none", motive |-> Unknown,
             score |-> 0, viable |-> TRUE, phones |-> "none", saved |-> FALSE]
Parcel == [value : Value, mao : {Mao(v) : v \in Value}, trust : Trust,
           motive : Motive \cup {0, Unknown}, score : 0 .. 100, viable : BOOLEAN,
           phones : {"none", "scrubbed", "operator"}, saved : BOOLEAN]

\* _compute_arv: what the sales nearby give, or nothing.
Comps == Price \cup {Unknown}

\* calculate_distress_score: what it sets in the row it is given.
Disqualified == [viable |-> FALSE, motive |-> 0, value |-> 0, mao |-> 0, score |-> 0]
Scored == {[viable |-> TRUE, motive |-> m, value |-> v, mao |-> Mao(v), score |-> Points(m, v),
            trust |-> IF v = Unknown THEN "needs_comps" ELSE "comps"] : m \in Motive, v \in Comps}
Assessments == {Disqualified} \cup Scored

\* The columns that come replace those of the row.
Over(row, new) == [c \in DOMAIN row |-> IF c \in DOMAIN new THEN new[c] ELSE row[c]]

\* upsert_property: a row without an estimate leaves the stored one alone.
KeepsTheMao(new) ==
    [Over(parcel, IF new.value = Unknown THEN Restrict(new, DOMAIN new \ {"value", "trust"}) ELSE new)
        EXCEPT !.saved = TRUE]
    \* mutant: only the estimate itself is left alone

KeepsTheTrust(new) ==
    [Over(parcel, IF new.value = Unknown THEN Restrict(new, DOMAIN new \ {"value", "mao"}) ELSE new)
        EXCEPT !.saved = TRUE]
    \* mutant: what was found of the value is written without it

WritesAll(new) == [Over(parcel, new) EXCEPT !.saved = TRUE]
    \* mutant: the empty estimate is written

Upserted(new) ==
    [Over(parcel, IF new.value = Unknown
                  THEN Restrict(new, DOMAIN new \ {"value", "mao", "trust"}) ELSE new)
        EXCEPT !.saved = TRUE]

Free == [at |-> "free"]
Job == {Free} \cup [at : {"looking", "creating", "storing"}, sheet : BOOLEAN]
    \cup [at : {"listing"}, known : BOOLEAN]
    \cup [at : {"enriching"}, copy : Parcel] \cup [at : {"enriched"}, callable : BOOLEAN, dnc : BOOLEAN]
    \cup [at : {"valuing"}] \cup [at : {"rescoring"}, motive : Motive \cup {0}, value : Price]
    \cup [at : {"activating"}] \cup [at : {"reviewing"}, print : Payload]

Init ==
    /\ parcel = NoParcel /\ leads = 0 /\ contact = [callable |-> FALSE, dnc |-> FALSE]
    /\ candidate = [status |-> "none"] /\ job = [w \in Writer |-> Free] /\ begun = 0

Begins(w, next) ==
    /\ job[w] = Free /\ begun < MaxJobs /\ begun' = begun + 1 /\ job' = [job EXCEPT ![w] = next]
Goes(w, next) == job' = [job EXCEPT ![w] = next] /\ UNCHANGED begun
-----------------------------------------------------------------------------
(***************************************************************************)
(* A row of a list: run_scout, or an upload (sheet).                       *)
(***************************************************************************)
Import(w) ==
    /\ \E new \in Assessments, sheet \in BOOLEAN :
        /\ parcel' = Upserted(new)
        /\ Begins(w, IF new.score < Threshold THEN Free ELSE [at |-> "looking", sheet |-> sheet])
    /\ UNCHANGED <<leads, contact, candidate>>

\* get_lead_by_property; a request to create the lead begins here.
Look(w) ==
    /\ \/ job[w].at = "looking"
          /\ Goes(w, IF leads > 0 THEN Free ELSE [job[w] EXCEPT !.at = "creating"])
       \/ parcel.saved /\ leads = 0 /\ Begins(w, [at |-> "creating", sheet |-> FALSE])
    /\ UNCHANGED <<parcel, leads, contact, candidate>>

AnotherLead == leads + 1  \* mutant: inserts without looking

\* create_canonical_lead, with the parcel's row locked.
Canonical == IF leads = 0 THEN 1 ELSE leads

Create(w) ==
    /\ job[w].at = "creating" /\ leads' = Canonical
    /\ Goes(w, IF job[w].sheet THEN [job[w] EXCEPT !.at = "storing"] ELSE Free)
    /\ UNCHANGED <<parcel, contact, candidate>>

\* The upload's phone makes the lead callable; a failure is logged and not tried again.
StoreContacts(w) ==
    /\ job[w].at = "storing" /\ Goes(w, Free)
    /\ \E callable \in {contact.callable, TRUE} : contact' = [contact EXCEPT !.callable = callable]
    /\ UNCHANGED <<parcel, leads, candidate>>
-----------------------------------------------------------------------------
(***************************************************************************)
(* A listing: _upsert_distress, persist_mls_candidate and                  *)
(* upsert_listing_candidate; a new parcel gets the points of its source.   *)
(***************************************************************************)
ListingScores == {50, 57, 65, 75}

FindListed(w) ==
    /\ Begins(w, [at |-> "listing", known |-> parcel.saved])
    /\ UNCHANGED <<parcel, leads, contact, candidate>>

SaveListed(w) ==
    /\ job[w].at = "listing"
    /\ \E score \in ListingScores : parcel' =
        IF job[w].known THEN parcel
        ELSE [parcel EXCEPT !.score = score, !.viable = FALSE, !.saved = TRUE]
    /\ Goes(w, [at |-> "looking", sheet |-> FALSE])
    /\ UNCHANGED <<leads, contact, candidate>>
-----------------------------------------------------------------------------
(***************************************************************************)
(* enrich_lead: the copy it was given, scored again, replaces the row;     *)
(* then the lead follows.                                                  *)
(***************************************************************************)
ReadForEnrichment(w) ==
    /\ leads > 0 /\ Begins(w, [at |-> "enriching", copy |-> parcel])
    /\ UNCHANGED <<parcel, leads, contact, candidate>>

\* scrub_phone: the verdict of each number that was found; a check that fails refuses it.
Verdict == {"callable", "dnc", "refused"}

SaveEnriched(w) ==
    /\ job[w].at = "enriching"
    /\ \E new \in Assessments, verdicts \in SUBSET Verdict :
        LET callable == "callable" \in verdicts
        IN  /\ parcel' = Upserted([Over(job[w].copy, new) EXCEPT
                                      !.phones = IF callable THEN "scrubbed" ELSE "none"])
            /\ Goes(w, [at |-> "enriched", callable |-> callable, dnc |-> "dnc" \in verdicts])
    /\ UNCHANGED <<leads, contact, candidate>>

SaveLead(w) ==
    /\ job[w].at = "enriched" /\ Goes(w, Free)
    /\ contact' = [callable |-> job[w].callable, dnc |-> job[w].dnc]
    /\ UNCHANGED <<parcel, leads, candidate>>
-----------------------------------------------------------------------------
(***************************************************************************)
(* The paid valuation.                                                     *)
(***************************************************************************)
Candidate ==
    leads > 0 /\ parcel.value = Unknown /\ parcel.viable /\ parcel.trust # "rentcast_no_data"

Choose(w) ==
    /\ Candidate /\ Begins(w, [at |-> "valuing"])
    /\ UNCHANGED <<parcel, leads, contact, candidate>>

\* The answer: nothing, or a value; then the points are read that it is scored with.
Answer(w) ==
    /\ job[w].at = "valuing"
    /\ \/ Goes(w, Free) /\ parcel' = [parcel EXCEPT !.trust = "rentcast_no_data"]
       \/ \E v \in Price, m \in Motive :
            Goes(w, [at |-> "rescoring", value |-> v,
                     motive |-> IF parcel.motive = Unknown THEN m ELSE parcel.motive])
          /\ UNCHANGED parcel
    /\ UNCHANGED <<leads, contact, candidate>>

WithOldMao(v, motive) == [parcel EXCEPT !.value = v, !.trust = "rentcast_avm",
                                        !.score = Points(motive, v)]
    \* mutant: the MAO is not moved

Valued(v, motive) == [parcel EXCEPT !.value = v, !.mao = Mao(v), !.trust = "rentcast_avm",
                                    !.score = Points(motive, v)]

SaveValue(w) ==
    /\ job[w].at = "rescoring" /\ Goes(w, Free)
    /\ parcel' = Valued(job[w].value, job[w].motive)
    /\ UNCHANGED <<leads, contact, candidate>>
-----------------------------------------------------------------------------
\* activate_lead with a phone; its second write, and bulk_activate_leads, are the next action.
SetPhone(w) ==
    /\ leads > 0 /\ Begins(w, [at |-> "activating"])
    /\ parcel' = [parcel EXCEPT !.phones = "operator"]
    /\ UNCHANGED <<leads, contact, candidate>>

Activate(w) ==
    /\ \/ job[w].at = "activating" /\ Goes(w, Free)
       \/ leads > 0 /\ Begins(w, Free)
    /\ contact' = [contact EXCEPT !.callable = TRUE]
    /\ UNCHANGED <<parcel, leads, candidate>>
-----------------------------------------------------------------------------
(***************************************************************************)
(* A candidate of a source: persist_source_candidate asks for a review     *)
(* again when the payload has changed, and review_source_candidate decides *)
(* what its operator was shown.                                            *)
(***************************************************************************)
Persist ==
    /\ \E p \in Payload : candidate' =
        IF candidate.status # "none" /\ candidate.print = p THEN candidate
        ELSE [status |-> "needs_property_review", print |-> p]
    /\ UNCHANGED <<parcel, leads, contact, job, begun>>

ShowCandidate(w) ==
    /\ candidate.status # "none" /\ Begins(w, [at |-> "reviewing", print |-> candidate.print])
    /\ UNCHANGED <<parcel, leads, contact, candidate>>

AnyPayload(print) == candidate.status = "needs_property_review"
    \* mutant: decides whatever the row holds

Reviewable(print) == candidate.status = "needs_property_review" /\ candidate.print = print

\* A link needs a lead; a decision on another payload, or a second one, is refused.
Review(w) ==
    /\ job[w].at = "reviewing" /\ Goes(w, Free)
    /\ \E verdict \in {"dismissed", "linked_to_reviewed_lead"} :
        /\ verdict = "linked_to_reviewed_lead" => leads > 0
        /\ candidate' = IF Reviewable(job[w].print)
                        THEN [status |-> verdict, print |-> candidate.print, on |-> job[w].print]
                        ELSE candidate
    /\ UNCHANGED <<parcel, leads, contact>>
-----------------------------------------------------------------------------
Next ==
    \/ Persist
    \/ \E w \in Writer :
        \/ Import(w) \/ Look(w) \/ Create(w) \/ StoreContacts(w) \/ FindListed(w) \/ SaveListed(w)
        \/ ReadForEnrichment(w) \/ SaveEnriched(w) \/ SaveLead(w)
        \/ Choose(w) \/ Answer(w) \/ SaveValue(w) \/ SetPhone(w) \/ Activate(w)
        \/ ShowCandidate(w) \/ Review(w)

Spec == Init /\ [][Next]_recordVars
-----------------------------------------------------------------------------
TypeOK ==
    /\ parcel \in Parcel /\ leads \in Nat /\ contact \in [callable : BOOLEAN, dnc : BOOLEAN]
    /\ candidate.status \in {"none", "needs_property_review", "dismissed", "linked_to_reviewed_lead"}
    /\ DOMAIN job = Writer /\ \A w \in Writer : job[w] \in Job
    /\ begun \in 0 .. MaxJobs

\* The MAO of the row is that of its estimate, whoever wrote either last and
\* however old the copy he wrote.
MaoFitsValue == parcel.mao = Mao(parcel.value)

\* Requests that create the parcel's lead at the same time get the same one.
OneLead == leads <= 1

\* mail_list prints a value when its confidence is not one of these.
Priced == parcel.value > 0 /\ parcel.trust \notin {"none", "needs_comps"}

\* A value that was found is never taken for one without comparables, nor the other way:
\* the letters print every value there is.
ValueIsVouched == parcel.value > 0 => Priced

\* What was decided of a candidate was decided of the payload it holds.
ReviewedAsShown ==
    candidate.status \in {"dismissed", "linked_to_reviewed_lead"} => candidate.on = candidate.print

RecordsInv == TypeOK /\ MaoFitsValue /\ ValueIsVouched /\ OneLead /\ ReviewedAsShown

\* A writer that has found no value, however old its copy of the row, never takes the value
\* of another away: a price gives way to a price, or to a disqualification of the parcel,
\* which writes 0 over it.  Nor does the row become one to be valued again for money.
PriceLostToVerdictOnly ==
    /\ parcel.value > 0 => parcel'.value > 0 \/ (parcel'.value = 0 /\ ~parcel'.viable)
    /\ parcel.value # Unknown => parcel'.value # Unknown
=============================================================================
