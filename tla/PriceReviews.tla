---------------------------- MODULE PriceReviews ----------------------------
(***************************************************************************)
(* The approval of a price for one call, one lead and one of the four      *)
(* tools that tell a price: the request that the tool's gate files         *)
(* (request_source_price_review), the two ways an operator decides it      *)
(* (resolve_source_price_review, with what his page showed;                *)
(* resolve_approval_request, without) and the reads of approved_price_range*)
(* that let the tool speak.                                                *)
(***************************************************************************)
EXTENDS Integers, FiniteSets

CONSTANTS
    Review,       \* rows of approval_requests, in the order of their creation: 1 .. n
    Property,
    NoProperty,   \* no property is bound, or none was shown
    Price,        \* ranges of a price, from 1 on; 0 is an approval without one
    Operator,
    ReviewTime,   \* 2 minutes
    MaxChanges    \* bound of the model: changes of the lead

\* What the module takes of its constants; the module that instances it assumes it.
ReviewAssumption ==
    /\ Review \subseteq Nat \ {0} /\ Price \subseteq Nat \ {0}
    /\ NoProperty \notin Property /\ ReviewTime \in Nat \ {0} /\ MaxChanges \in Nat

VARIABLES
    house,      \* property_id of the lead
    changes,    \* changes of the lead so far: its property, its opt-out
    stopped,    \* the lead is opted out
    approval,   \* [Review -> its row]
    desk,       \* [Operator -> where his decision stands]
    caller,     \* where the tool stands
    decided,    \* history: decisions that were written
    quoted      \* history: prices told since the tool was last called

reviewVars == <<house, changes, stopped, approval, desk, caller, decided, quoted>>

NoRow == [status |-> "none", left |-> 0, house |-> NoProperty, price |-> 0]
Row == {NoRow} \cup
    [status : {"pending", "approved", "rejected"}, left : 0 .. ReviewTime,
     house : Property \cup {NoProperty}, price : Price \cup {0}]
Verdict == [status : {"approved"}, price : Price] \cup [status : {"rejected"}, price : {0}]
DirectVerdict == Verdict \cup [status : {"approved"}, price : {0}]

AtDesk == [at |-> "idle"]
Desk == {AtDesk}
    \cup [at : {"shown"}, review : Review, house : Property]
    \cup [at : {"checked"}, review : Review, shown : Property, house : Property]
    \cup [at : {"read"}, review : Review]
    \cup [at : {"bound"}, review : Review, house : Property \cup {NoProperty}, priced : BOOLEAN]
Quiet == [at |-> "idle"]
Caller == {Quiet} \cup [at : {"lead"}, pass : 1 .. 3]
                  \cup [at : {"rows"}, pass : 1 .. 3, house : Property]

Init ==
    /\ house \in Property \cup {NoProperty} /\ changes = 0 /\ stopped = FALSE
    /\ approval = [r \in Review |-> NoRow]
    /\ desk = [o \in Operator |-> AtDesk] /\ caller = Quiet
    /\ decided = {} /\ quoted = {}

Pending(r) == approval[r].status = "pending"
InTime(r) == approval[r].left > 0
-----------------------------------------------------------------------------
(***************************************************************************)
(* The tool: _preflight_gate twice, then _verified_offer_range.  Each of   *)
(* the three passes reads the lead and then the rows.                      *)
(***************************************************************************)
Ask == caller = Quiet /\ caller' = [at |-> "lead", pass |-> 1] /\ quoted' = {}
       /\ UNCHANGED <<house, changes, stopped, approval, desk, decided>>

ReadLead ==
    /\ caller.at = "lead"
    /\ caller' = IF house = NoProperty THEN Quiet
                 ELSE [at |-> "rows", pass |-> caller.pass, house |-> house]
    /\ UNCHANGED <<house, changes, stopped, approval, desk, decided, quoted>>

\* approved_price_range; of two approved rows neither counts.
AnyApproved(h) == {r \in Review : approval[r].status = "approved" /\ InTime(r)
                                  /\ approval[r].price > 0}    \* mutant: for whichever property
Approved(h) ==
    LET rows == {r \in Review : approval[r].status = "approved" /\ InTime(r)}
    IN  {r \in rows : rows = {r} /\ approval[r].house = h /\ approval[r].price > 0}

\* request_source_price_review: a pending row is reused.
AnsweredOne == \E r \in Review : approval[r].status = "approved"    \* mutant: an open request is no hindrance
Waiting == \E r \in Review : Pending(r) /\ InTime(r)

\* The gate refuses all the same where the request is not filed.
Request ==
    \/ UNCHANGED approval
    \/ /\ ~ stopped /\ house # NoProperty /\ ~ Waiting
       /\ \E r \in Review :
            /\ approval[r] = NoRow /\ \A q \in Review : q < r => approval[q] # NoRow
            /\ approval' = [approval EXCEPT ![r] =
                   [NoRow EXCEPT !.status = "pending", !.left = ReviewTime]]

\* A read that fails finds no approval.
ReadRows ==
    /\ caller.at = "rows"
    /\ \E rows \in {Approved(caller.house), {}} :
           IF rows = {}
           THEN /\ caller' = Quiet /\ UNCHANGED quoted
                /\ IF caller.pass < 3 THEN Request ELSE UNCHANGED approval
           ELSE /\ UNCHANGED approval
                /\ IF caller.pass < 3
                   THEN caller' = [at |-> "lead", pass |-> caller.pass + 1] /\ UNCHANGED quoted
                   ELSE /\ caller' = Quiet
                        /\ quoted' = {[review |-> r, house |-> caller.house,
                                        price |-> approval[r].price] : r \in rows}
    /\ UNCHANGED <<house, changes, stopped, desk, decided>>
-----------------------------------------------------------------------------
Decide(o, r, verdict, shown, bound) ==
    /\ approval' = [approval EXCEPT ![r] =
           [@ EXCEPT !.status = verdict.status,
                     !.house = IF verdict.price > 0 THEN bound ELSE approval[r].house,
                     !.price = verdict.price]]
    /\ decided' = decided \cup {[review |-> r, operator |-> o, verdict |-> verdict,
                                 shown |-> shown, house |-> bound]}

(***************************************************************************)
(* The page of price reviews.  The fingerprint it sends back stands for    *)
(* the row and the property it showed; the function in the database        *)
(* compares what the route has read with what is there, and answers the    *)
(* same decision of the same operator again.                               *)
(***************************************************************************)
Show(o, r) ==
    /\ desk[o] = AtDesk /\ Pending(r) /\ InTime(r) /\ house # NoProperty
    /\ desk' = [desk EXCEPT ![o] = [at |-> "shown", review |-> r, house |-> house]]
    /\ UNCHANGED <<house, changes, stopped, approval, caller, decided, quoted>>

Check(o) ==
    /\ desk[o].at = "shown"
    /\ desk' = [desk EXCEPT ![o] =
           IF house = NoProperty \/ (Pending(desk[o].review) /\ house # desk[o].house)
           THEN AtDesk
           ELSE [at |-> "checked", review |-> desk[o].review, shown |-> desk[o].house,
                 house |-> house]]
    /\ UNCHANGED <<house, changes, stopped, approval, caller, decided, quoted>>

Commits(o, verdict) ==
    LET d == desk[o]
    IN  /\ Pending(d.review) /\ InTime(d.review) /\ house = d.house
        /\ verdict.status = "approved" => ~ stopped

\* Here the verdict that came with the page counts for the first time.  The answer may be
\* lost: the operator has his page still and decides again.
Commit(o, verdict) ==
    /\ desk[o].at = "checked"
    /\ IF Commits(o, verdict)
       THEN Decide(o, desk[o].review, verdict, desk[o].shown, desk[o].house)
       ELSE UNCHANGED <<approval, decided>>
    /\ desk' \in {[desk EXCEPT ![o] = AtDesk],
                  [desk EXCEPT ![o] = [at |-> "shown", review |-> desk[o].review,
                                       house |-> desk[o].shown]]}
    /\ UNCHANGED <<house, changes, stopped, caller, quoted>>

(***************************************************************************)
(* resolve_approval_request: the property is the one that the lead has     *)
(* then, and the instant compared with expires_at is the first.            *)
(***************************************************************************)
Read(o, r) ==
    /\ desk[o] = AtDesk /\ Pending(r) /\ InTime(r)
    /\ desk' = [desk EXCEPT ![o] = [at |-> "read", review |-> r]]
    /\ UNCHANGED <<house, changes, stopped, approval, caller, decided, quoted>>

\* priced: the verdict is an approval with a price.
Bind(o, priced) ==
    /\ desk[o].at = "read"
    /\ desk' = [desk EXCEPT ![o] =
           IF priced /\ house = NoProperty THEN AtDesk
           ELSE [at |-> "bound", review |-> desk[o].review, house |-> house, priced |-> priced]]
    /\ UNCHANGED <<house, changes, stopped, approval, caller, decided, quoted>>

DirectCommit(o, verdict) ==
    /\ desk[o].at = "bound" /\ (verdict.price > 0 <=> desk[o].priced)
    /\ IF Pending(desk[o].review)
       THEN Decide(o, desk[o].review, verdict, NoProperty, desk[o].house)
       ELSE UNCHANGED <<approval, decided>>
    /\ desk' = [desk EXCEPT ![o] = AtDesk]
    /\ UNCHANGED <<house, changes, stopped, caller, quoted>>
-----------------------------------------------------------------------------
\* A correction in the database by hand: the code never changes a lead's property.
Relink(h) ==
    /\ changes < MaxChanges /\ h # house
    /\ house' = h /\ changes' = changes + 1
    /\ UNCHANGED <<stopped, approval, desk, caller, decided, quoted>>

Stop ==
    /\ changes < MaxChanges /\ changes' = changes + 1
    /\ ~ stopped /\ stopped' = TRUE
    /\ UNCHANGED <<house, approval, desk, caller, decided, quoted>>

Tick ==
    /\ \E r \in Review : InTime(r)
    /\ approval' = [r \in Review |-> IF InTime(r) THEN [approval[r] EXCEPT !.left = @ - 1]
                                     ELSE approval[r]]
    /\ UNCHANGED <<house, changes, stopped, desk, caller, decided, quoted>>

Next ==
    \/ Ask \/ ReadLead \/ ReadRows
    \/ \E o \in Operator :
        \/ \E r \in Review : Show(o, r) \/ Read(o, r)
        \/ Check(o) \/ \E verdict \in Verdict : Commit(o, verdict)
        \/ \E priced \in BOOLEAN : Bind(o, priced)
        \/ \E verdict \in DirectVerdict : DirectCommit(o, verdict)
    \/ \E h \in Property \cup {NoProperty} : Relink(h)
    \/ Stop \/ Tick

Spec == Init /\ [][Next]_reviewVars
-----------------------------------------------------------------------------
Decision ==
    [review : Review, operator : Operator, verdict : DirectVerdict,
     shown : Property \cup {NoProperty}, house : Property \cup {NoProperty}]
Quote == [review : Review, house : Property, price : Price]

TypeOK ==
    /\ house \in Property \cup {NoProperty} /\ changes \in 0 .. MaxChanges /\ stopped \in BOOLEAN
    /\ approval \in [Review -> Row] /\ desk \in [Operator -> Desk] /\ caller \in Caller
    /\ decided \subseteq Decision /\ quoted \subseteq Quote

\* However many gates ask at once, one request waits for the operator.
OnePending == Cardinality({r \in Review : Pending(r) /\ InTime(r)}) <= 1

\* Two operators, on either of the two routes, do not both decide a request.
DecidedOnce == \A d, e \in decided : d.review = e.review => d = e

\* Who decided from the page decided about the property that the page showed.
DecidedAsShown == \A d \in decided : d.shown \in {NoProperty, d.house}

\* A price told for a property is one that an operator approved for that property.
QuotedWasApproved ==
    \A q \in quoted : \E d \in decided :
        /\ d.review = q.review /\ d.verdict.status = "approved"
        /\ d.house = q.house /\ d.verdict.price = q.price

\* Between requests, decisions on two routes, corrections of the lead and expiry, a price
\* reaches a seller only as one operator approved it, for the property he had before him.
ReviewsSound == TypeOK /\ OnePending /\ DecidedOnce /\ DecidedAsShown /\ QuotedWasApproved
=============================================================================
