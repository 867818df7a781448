--------------------------- MODULE MessageIntents ---------------------------
(***************************************************************************)
(* Texts and mails: send_sms and send_email, and the intents that keep     *)
(* them from sending one message twice (claim_message_intent and           *)
(* accept_message_intent, each one transaction of the journal).            *)
(*                                                                         *)
(* A message is the content an intent is the digest of: whoever sends the  *)
(* same content to the same address again meets the same intent.  The      *)
(* refusals before the claim that change nothing (hours, compliance, the   *)
(* STOP list, which ContactSuppression models) are left free.              *)
(***************************************************************************)
EXTENDS Integers

CONSTANTS
    Message,
    Mail,    \* the messages that are mails; the others are texts
    Sender   \* threads in send_sms or send_email

\* What the module takes of its constants; the module that instances it assumes it.
MessageAssumption == Mail \subseteq Message

VARIABLES
    intent,      \* [Message -> state in message_intents; "none": no row]
    acceptance,  \* messages with a row in message_acceptances
    bound,       \* messages with a row in delivery_bindings
    blocked,     \* mails whose address is suppressed
    sender,      \* [Sender -> where it stands in its call]
    smsRow,      \* texts with a row in sms_messages
    posted,      \* history: [Message -> times the provider took it; 2: or more]
    reported     \* history: messages that some call has reported as sent

vars == <<intent, acceptance, bound, blocked, sender, smsRow, posted, reported>>

Idle == [at |-> "idle"]
Call == {Idle} \cup [at : {"claimed", "bound", "answered", "logging"}, message : Message]

Init ==
    /\ intent = [m \in Message |-> "none"]
    /\ acceptance = {} /\ bound = {} /\ blocked = {} /\ smsRow = {}
    /\ sender = [s \in Sender |-> Idle]
    /\ posted = [m \in Message |-> 0]
    /\ reported = {}
-----------------------------------------------------------------------------
GoTo(s, at) == sender' = [sender EXCEPT ![s].at = at]
Return(s) == sender' = [sender EXCEPT ![s] = Idle]

\* mutant
UnlessAccepted(m) == intent[m] # "accepted"
Unclaimed(m) == intent[m] = "none"
\* mutant
ReportsAny(m) == TRUE
ReportsEarlier(m) == intent[m] = "accepted"

\* The suppression of the address is read first, then the intent is claimed.
\* A call that does not get it reports what the call that had it was told.
Claim(s, m) ==
    /\ sender[s] = Idle /\ m \notin blocked
    /\ \/ /\ Unclaimed(m)
          /\ intent' = [intent EXCEPT ![m] = "sending"]
          /\ sender' = [sender EXCEPT ![s] = [at |-> "claimed", message |-> m]]
          /\ UNCHANGED reported
       \/ /\ ~Unclaimed(m) /\ ReportsEarlier(m)
          /\ reported' = reported \cup {m}
          /\ UNCHANGED <<intent, sender>>
    /\ UNCHANGED <<acceptance, bound, blocked, smsRow, posted>>

\* mutant
SkipBinding(s) ==
    /\ sender[s].at = "claimed" /\ GoTo(s, "bound")
    /\ UNCHANGED <<intent, acceptance, bound, blocked, smsRow, posted, reported>>
\* bind_delivery_intent, before the request, so that a report finds its message.
\* A mail registers its thread before; either may raise.
Bind(s) ==
    /\ sender[s].at = "claimed"
    /\ \/ bound' = bound \cup {sender[s].message} /\ GoTo(s, "bound")
       \/ Return(s) /\ UNCHANGED bound
    /\ UNCHANGED <<intent, acceptance, blocked, smsRow, posted, reported>>

\* The request: refused, taken, or taken with its answer lost.
Post(s) ==
    /\ sender[s].at = "bound"
    /\ \/ Return(s) /\ UNCHANGED posted
       \/ /\ posted' = [posted EXCEPT ![sender[s].message] = IF @ < 2 THEN @ + 1 ELSE @]
          /\ GoTo(s, "answered") \/ Return(s)
    /\ UNCHANGED <<intent, acceptance, bound, blocked, smsRow, reported>>

\* mutant
LogsAll(m) == TRUE
Logs(m) == m \notin Mail

\* accept_message_intent, which may raise.  A text is logged before it is
\* reported as sent.
Accept(s) ==
    LET m == sender[s].message IN
    /\ sender[s].at = "answered"
    /\ \/ /\ intent' = [intent EXCEPT ![m] = "accepted"]
          /\ acceptance' = acceptance \cup {m}
          /\ IF Logs(m) THEN GoTo(s, "logging") /\ UNCHANGED reported
                        ELSE Return(s) /\ reported' = reported \cup {m}
       \/ Return(s) /\ UNCHANGED <<intent, acceptance, reported>>
    /\ UNCHANGED <<bound, blocked, smsRow, posted>>

\* insert_sms; a failure is only logged.
Log(s) ==
    LET m == sender[s].message IN
    /\ sender[s].at = "logging"
    /\ smsRow' \in {smsRow \cup {m}, smsRow}
    /\ reported' = reported \cup {m}
    /\ Return(s)
    /\ UNCHANGED <<intent, acceptance, bound, blocked, posted>>

Die(s) ==
    /\ sender[s] # Idle
    /\ Return(s)
    /\ UNCHANGED <<intent, acceptance, bound, blocked, smsRow, posted, reported>>

\* suppress_email_address, by an unsubscribe link or a provider's report.
Suppress(m) ==
    /\ m \in Mail
    /\ blocked' = blocked \cup {m}
    /\ UNCHANGED <<intent, acceptance, bound, sender, smsRow, posted, reported>>

Next ==
    \/ \E s \in Sender, m \in Message : Claim(s, m)
    \/ \E s \in Sender : Bind(s) \/ Post(s) \/ Accept(s) \/ Log(s) \/ Die(s)
    \/ \E m \in Message : Suppress(m)

Spec == Init /\ [][Next]_vars
-----------------------------------------------------------------------------
TypeOK ==
    /\ intent \in [Message -> {"none", "sending", "accepted"}]
    /\ acceptance \subseteq Message /\ bound \subseteq Message
    /\ blocked \subseteq Mail /\ smsRow \subseteq Message \ Mail
    /\ sender \in [Sender -> Call]
    /\ posted \in [Message -> 0 .. 2] /\ reported \subseteq Message

\* The provider is given a message once, whichever threads send it again and
\* wherever they die: an unknown outcome is not retried.
SentOnce == \A m \in Message : posted[m] <= 1

\* A call reports a message as sent only if the provider has taken it, also when
\* it finds the intent of another call, whose request may be under way or lost.
ReportedWasSent == \A m \in reported : posted[m] > 0

\* What the provider has taken is bound, so that its reports find their lead, and
\* what is accepted is on the way to the delivery journal.
SentIsTraceable ==
    \A m \in Message :
        /\ posted[m] > 0 => m \in bound
        /\ intent[m] = "accepted" <=> m \in acceptance

\* A message is sent once, reported truly and can be traced: alerts/sms.py 39-99,
\* alerts/email.py and the journal of lib/db.py, from the claim to the last row.
IntentsSound == TypeOK /\ SentOnce /\ ReportedWasSent /\ SentIsTraceable
=============================================================================
