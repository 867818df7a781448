--------------------------- MODULE MCLeadContact ---------------------------
\* An instance of LeadContact for TLC.
EXTENDS LeadContact

\* Texts or mails: they share nothing but the lead's opt-out.
OneOfThem == {{"text"}, {"mail"}}

\* Two outcomes, or one and a request of the operator.
AnyTwo == {{"c1", "c2"}, {"c1", "o1"}}
=============================================================================
