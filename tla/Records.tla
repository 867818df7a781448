------------------------------ MODULE Records ------------------------------
(***************************************************************************)
(* The records of the database side by side: the calls of CallLedger, the  *)
(* appointments, the approvals, the paid estimates, the parcels with their *)
(* scores and what a lead has answered.  They meet in no column the modules*)
(* have, so that a behaviour runs one of them, its part; the variables of  *)
(* the others are unused, but for those of CallLedger, which this module   *)
(* extends.                                                                *)
(***************************************************************************)
EXTENDS CallLedger

CONSTANTS Guest, Hour, HalfDay, Command, Reminder, MaxVersion, MaxTexts, LastHalfDay, \* LeadBookings
          Question, Property, NoProperty, Price, Operator, ReviewTime, MaxChanges, \* PriceReviews
          House, Batcher, Purchase, Cap, HardCap, Window,                       \* RentcastBudget
          Writer, Worth, Motive, Standing, Threshold, Payload, MaxJobs,          \* ParcelRecords
          Distress, Years, Standings, MaxFacts,                                 \* ScoredEvidence
          Recent, Lately, Once, LastDay, Distressed, Replier, MaxContacts       \* LeadEngagement

VARIABLES part,
          now, offered, reserved, guest, receipts, reminder, asked, sent, applied,
          house, changes, stopped, approval, desk, caller, decided, quoted,
          paid, worth, fruitless, batch, charged,
          parcel, leads, contact, candidate, job, begun,
          evidence,
          today, card, spoken, inbox, replying, refresh, contacts

bookings == <<now, offered, reserved, guest, receipts, reminder, asked, sent, applied>>
reviews == <<house, changes, stopped, approval, desk, caller, decided, quoted>>
budget == <<paid, worth, fruitless, batch, charged>>
parcels == <<parcel, leads, contact, candidate, job, begun>>
engagement == <<today, card, spoken, inbox, replying, refresh, contacts>>
all == <<part, vars, bookings, reviews, budget, parcels, evidence, engagement>>

B == INSTANCE LeadBookings WITH Slot <- Hour
P == INSTANCE PriceReviews WITH Review <- Question
Q == INSTANCE RentcastBudget WITH Reservation <- Purchase
R == INSTANCE ParcelRecords WITH Price <- Worth
E == INSTANCE ScoredEvidence WITH Estimate <- Worth
G == INSTANCE LeadEngagement WITH Points <- Distressed

ASSUME RecordsAssumption ==
    /\ B!BookingAssumption /\ P!ReviewAssumption /\ Q!BudgetAssumption
    /\ R!RecordAssumption /\ E!EvidenceAssumption /\ G!EngagementAssumption
-----------------------------------------------------------------------------
Unused == "unused"
NoBookings ==
    /\ now = Unused /\ offered = Unused /\ reserved = Unused /\ guest = Unused
    /\ receipts = Unused /\ reminder = Unused /\ asked = Unused /\ sent = Unused /\ applied = Unused
NoReviews ==
    /\ house = Unused /\ changes = Unused /\ stopped = Unused /\ approval = Unused
    /\ desk = Unused /\ caller = Unused /\ decided = Unused /\ quoted = Unused
NoBudget ==
    /\ paid = Unused /\ worth = Unused /\ fruitless = Unused /\ batch = Unused /\ charged = Unused
NoParcels ==
    /\ parcel = Unused /\ leads = Unused /\ contact = Unused
    /\ candidate = Unused /\ job = Unused /\ begun = Unused
NoEvidence == evidence = Unused
NoEngagement ==
    /\ today = Unused /\ card = Unused /\ spoken = Unused /\ inbox = Unused
    /\ replying = Unused /\ refresh = Unused /\ contacts = Unused

Part == {"calls", "bookings", "reviews", "budget", "parcels", "scores", "engagement"}

RecordsInit ==
    /\ Init /\ part \in Part
    /\ IF part = "bookings" THEN B!Init ELSE NoBookings
    /\ IF part = "reviews" THEN P!Init ELSE NoReviews
    /\ IF part = "budget" THEN Q!Init ELSE NoBudget
    /\ IF part = "parcels" THEN R!Init ELSE NoParcels
    /\ IF part = "scores" THEN E!Init ELSE NoEvidence
    /\ IF part = "engagement" THEN G!Init ELSE NoEngagement

RecordsNext ==
    \/ /\ part = "calls" /\ Next
       /\ UNCHANGED <<part, bookings, reviews, budget, parcels, evidence, engagement>>
    \/ /\ part = "bookings" /\ B!Next
       /\ UNCHANGED <<part, vars, reviews, budget, parcels, evidence, engagement>>
    \/ /\ part = "reviews" /\ P!Next
       /\ UNCHANGED <<part, vars, bookings, budget, parcels, evidence, engagement>>
    \/ /\ part = "budget" /\ Q!Next
       /\ UNCHANGED <<part, vars, bookings, reviews, parcels, evidence, engagement>>
    \/ /\ part = "parcels" /\ R!Next
       /\ UNCHANGED <<part, vars, bookings, reviews, budget, evidence, engagement>>
    \/ /\ part = "scores" /\ E!Next
       /\ UNCHANGED <<part, vars, bookings, reviews, budget, parcels, engagement>>
    \/ /\ part = "engagement" /\ G!Next
       /\ UNCHANGED <<part, vars, bookings, reviews, budget, parcels, evidence>>

RecordsSpec == RecordsInit /\ [][RecordsNext]_all
-----------------------------------------------------------------------------
\* LeadBookings: no hour is promised twice, and what is shown is confirmed.
BookingsSound == part = "bookings" => B!BookingsSound

\* PriceReviews: a price is told only if an operator approved it for that property.
ReviewsSound == part = "reviews" => P!ReviewsSound

\* RentcastBudget: the provider is never asked beyond the cap, whoever batches.
BudgetSound == part = "budget" => Q!BudgetSound

\* ParcelRecords, ScoredEvidence and LeadEngagement: one lead a parcel, an offer that fits a
\* vouched value, which nobody who has found none takes away; a score that any order of the
\* facts ends in and that no further fact in favour lowers, nor any contact that of the lead.
RecordsSound ==
    /\ [](part = "parcels" => R!RecordsInv) /\ [](part = "scores" => E!EvidenceInv)
    /\ [](part = "engagement" => G!EngagementInv)
    /\ [][/\ part = "parcels" => R!PriceLostToVerdictOnly
          /\ part = "scores" => E!MoreIsNotLess
          /\ part = "engagement" => G!ContactsCount]_all
=============================================================================
