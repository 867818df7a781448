---------------------------- MODULE LeadBookings ----------------------------
(***************************************************************************)
(* Walkthroughs of houses: the slots an operator offers, the reservations  *)
(* a call makes (reserve_voice_appointment), the commands an operator      *)
(* gives against the version of a lead that his page shows                 *)
(* (apply_source_operation, apply_source_callback) and the reminders of    *)
(* voice/appointment_scheduler.py.                                         *)
(*                                                                         *)
(* Instants are half days, the grain of the reminder windows.  Slots of    *)
(* one half day overlap as their lengths have it.                          *)
(***************************************************************************)
EXTENDS Integers, FiniteSets, Functions

CONSTANTS
    Guest,        \* leads
    Slot,         \* starting instants on offer, 1 .. n, by their order
    HalfDay,      \* [Slot -> the half day it falls in]
    Command,      \* identities of operator commands
    Reminder,     \* processes that run the reminder scheduler
    MaxVersion,   \* bound of the model: changes of the leads' rows that move updated_at
    MaxTexts,     \* bound of the model: texts with a row in message_intents
    LastHalfDay   \* bound of the model: the clock stops there

\* What the module takes of its constants; the module that instances it assumes it.
BookingAssumption ==
    /\ Slot \subseteq Nat \ {0} /\ HalfDay \in [Slot -> Nat]
    /\ MaxVersion \in Nat /\ MaxTexts \in Nat /\ LastHalfDay \in Nat

VARIABLES
    now,
    offered,     \* walkthrough_availability: [Slot -> none, short, long]
    reserved,    \* confirmed rows of voice_appointments: lead, slot and length
    guest,       \* [Guest -> its row in leads]
    receipts,    \* source_command_receipts: [Command -> none or the command]
    reminder,    \* [Reminder -> what its tick is doing]
    asked,       \* reminder texts with a row in message_intents
    sent,        \* of them those the provider accepted
    applied      \* history: [Command -> times its effect was written]

vars == <<now, offered, reserved, guest, receipts, reminder, asked, sent, applied>>
messages == <<reminder, asked, sent>>

None == [action |-> "none"]
Kind == {"day_before", "morning", "no_show"}
Walkthrough == {"none", "cancelled"}     \* of its states those the reminders tell apart
Length == {"short", "long"}
Reservation == [lead : Guest, slot : Slot, length : Length]
\* A command names the version of the row its author has seen.
Order == [action : {"cancel_walkthrough"}, lead : Guest, expected : 0 .. MaxVersion, slot : Slot]
    \cup [action : {"set_disposition", "draft_offer", "schedule_callback"}, lead : Guest,
          expected : 0 .. MaxVersion]
Text == [lead : Guest, kind : Kind, slot : Slot]
Idle == [at |-> "idle"]
Job == {Idle} \cup [at : {"read", "sent"}, lead : Guest, kind : Kind, slot : Slot]

Init ==
    /\ now = 0 /\ reserved = {} /\ asked = {} /\ sent = {}
    /\ offered = [s \in Slot |-> "none"]
    /\ guest = [l \in Guest |-> [version |-> 0, appointment |-> 0, flags |-> {},
                                 walkthrough |-> "none", optedOut |-> FALSE]]
    /\ receipts = [c \in Command |-> None]
    /\ reminder = [r \in Reminder |-> Idle]
    /\ applied = [c \in Command |-> 0]

Begins(s) == HalfDay[s]
Future(s) == Begins(s) > now
\* Slots of the same half day overlap when the earlier one is long.
Overlaps(s, length, t, other) ==
    \/ s = t
    \/ Begins(s) = Begins(t) /\ (IF s < t THEN length ELSE other) = "long"

Bump(l) == guest[l].version + 1
MayChange == FoldFunction(LAMBDA row, total : row.version + total, 0, guest) < MaxVersion
-----------------------------------------------------------------------------
\* POST /appointments/availability: an upsert, so the length of a slot may change.
Offer(s, length) ==
    /\ Future(s)
    /\ offered' = [offered EXCEPT ![s] = length]
    /\ UNCHANGED <<now, reserved, guest, receipts, messages, applied>>

\* The exclusion constraint of voice_appointments.
NeverClashes(s, length) == FALSE    \* mutant: no constraint but the unique start
Clashes(s, length) == \E r \in reserved : Overlaps(s, length, r.slot, r.length)

\* reserve_voice_appointment; a reservation that is there already is returned as it is.
Reserve(l, s) ==
    /\ Future(s) /\ offered[s] # "none"
    /\ \A r \in reserved : r.lead = l => r.slot # s
    /\ ~ Clashes(s, offered[s])
    /\ MayChange
    /\ reserved' = reserved \cup {[lead |-> l, slot |-> s, length |-> offered[s]]}
    /\ guest' = [guest EXCEPT ![l] = [@ EXCEPT !.appointment = s, !.version = Bump(l), !.flags = {}]]
    /\ UNCHANGED <<now, offered, receipts, messages, applied>>
-----------------------------------------------------------------------------
(***************************************************************************)
(* Operator commands.  One with a receipt is answered from it when it is   *)
(* the same, and refused when it is not; a new one must name the present   *)
(* version of the row.                                                     *)
(***************************************************************************)
Replay(c) == receipts[c] # None

Executes(order) ==
    LET l == order.lead
    IN  CASE order.action = "cancel_walkthrough" ->
                /\ \E r \in reserved : r.lead = l /\ r.slot = order.slot
                /\ reserved' = {r \in reserved : r.lead # l \/ r.slot # order.slot}
                /\ guest' = [guest EXCEPT ![l] = [@ EXCEPT
                                 !.appointment = IF guest[l].appointment = order.slot THEN 0
                                                ELSE guest[l].appointment,
                                 !.version = Bump(l)]]
          [] OTHER ->
                /\ order.action # "set_disposition" => ~ guest[l].optedOut
                /\ guest' = [guest EXCEPT ![l] = [@ EXCEPT !.version = Bump(l)]]
                /\ UNCHANGED reserved

Submit(c, order) ==
    /\ ~ Replay(c)
    /\ MayChange /\ guest[order.lead].version = order.expected
    /\ Executes(order)
    /\ receipts' = [receipts EXCEPT ![c] = order]
    /\ applied' = [applied EXCEPT ![c] = @ + 1]
    /\ UNCHANGED <<now, offered, messages>>
-----------------------------------------------------------------------------
\* Other writers of the row.  An opt-out does not move updated_at.
UpdateWalkthrough(l, state) ==
    /\ MayChange
    /\ guest' = [guest EXCEPT ![l] = [@ EXCEPT !.walkthrough = state, !.version = Bump(l)]]
    /\ UNCHANGED <<now, offered, reserved, receipts, messages, applied>>

OptOut(l) ==
    /\ guest' = [guest EXCEPT ![l] = [@ EXCEPT !.optedOut = TRUE]]
    /\ UNCHANGED <<now, offered, reserved, receipts, messages, applied>>
-----------------------------------------------------------------------------
(***************************************************************************)
(* Reminders.  A tick reads every lead with a confirmed appointment and    *)
(* works on what it has read.                                              *)
(***************************************************************************)
Confirmed(l) == \E r \in reserved : r.lead = l /\ r.slot = guest[l].appointment

\* The first reminder whose window is open: 12 to 36 hours before, up to 12 hours
\* before, 2 to 48 hours after.
Open(kind, s) ==
    CASE kind = "day_before" -> Begins(s) - now \in 1 .. 3
      [] kind = "morning" -> Begins(s) - now = 1
      [] OTHER -> now - Begins(s) \in 1 .. 4
DueKind(kind, s, flags) ==
    /\ kind \notin flags /\ Open(kind, s)
    /\ kind = "morning" => ~ (Open("day_before", s) /\ "day_before" \notin flags)

Read(r) ==
    /\ reminder[r] = Idle
    /\ \E l \in Guest, kind \in Kind :
        /\ guest[l].appointment # 0 /\ Confirmed(l)
        /\ ~ guest[l].optedOut /\ guest[l].walkthrough = "none"
        /\ DueKind(kind, guest[l].appointment, guest[l].flags)
        /\ reminder' = [reminder EXCEPT ![r] =
                         [at |-> "read", lead |-> l, kind |-> kind, slot |-> guest[l].appointment]]
    /\ UNCHANGED <<now, offered, reserved, guest, receipts, asked, sent, applied>>

TextOf(job) == [lead |-> job.lead, kind |-> job.kind, slot |-> job.slot]
GoTo(r, place) == reminder' = [reminder EXCEPT ![r] = [at |-> place, lead |-> @.lead, kind |-> @.kind,
                                                       slot |-> @.slot]]

\* send_drip_sms: refused, posted (and its answer known or not), or found accepted.
Send(r) ==
    /\ reminder[r].at = "read"
    /\ LET text == TextOf(reminder[r])
       IN  \/ reminder' = [reminder EXCEPT ![r] = Idle] /\ UNCHANGED <<asked, sent>>
           \/ /\ text \notin asked /\ Cardinality(asked) < MaxTexts /\ asked' = asked \cup {text}
              /\ \/ sent' = sent \cup {text} /\ GoTo(r, "sent")
                 \/ reminder' = [reminder EXCEPT ![r] = Idle] /\ UNCHANGED sent
           \/ text \in sent /\ GoTo(r, "sent") /\ UNCHANGED <<asked, sent>>
    /\ UNCHANGED <<now, offered, reserved, guest, receipts, applied>>

\* update_appt_reminder_flags, which does not move updated_at, and may fail.
Flag(r) ==
    /\ reminder[r].at = "sent"
    /\ reminder' = [reminder EXCEPT ![r] = Idle]
    /\ \/ guest' = [guest EXCEPT ![reminder[r].lead] =
                            [@ EXCEPT !.flags = guest[reminder[r].lead].flags \cup {reminder[r].kind}]]
       \/ UNCHANGED guest
    /\ UNCHANGED <<now, offered, reserved, receipts, asked, sent, applied>>

Tick ==
    /\ now' = IF now < LastHalfDay THEN now + 1 ELSE now
    /\ UNCHANGED <<offered, reserved, guest, receipts, messages, applied>>

Next ==
    \/ Tick
    \/ \E s \in Slot, length \in Length : Offer(s, length)
    \/ \E l \in Guest, s \in Slot : Reserve(l, s)
    \/ \E c \in Command, order \in Order : Submit(c, order)
    \/ \E l \in Guest, state \in Walkthrough : UpdateWalkthrough(l, state)
    \/ \E l \in Guest : OptOut(l)
    \/ \E r \in Reminder : Read(r) \/ Send(r) \/ Flag(r)

Spec == Init /\ [][Next]_vars
-----------------------------------------------------------------------------
TypeOK ==
    /\ now \in 0 .. LastHalfDay
    /\ offered \in [Slot -> Length \cup {"none"}]
    /\ reserved \subseteq Reservation
    /\ guest \in [Guest -> [version : Nat, appointment : Slot \cup {0},
                            flags : SUBSET Kind, walkthrough : Walkthrough,
                            optedOut : BOOLEAN]]
    /\ receipts \in [Command -> Order \cup {None}]
    /\ reminder \in [Reminder -> Job]
    /\ asked \subseteq Text /\ sent \subseteq asked
    /\ applied \in [Command -> Nat]

\* No two confirmed walkthroughs overlap, whatever becomes of the offered slots.
NoDoubleBooking ==
    \A r, q \in reserved : r # q => ~ Overlaps(r.slot, r.length, q.slot, q.length)

\* The appointment a lead's row shows, which reminders and calls speak of, is confirmed.
ShownIsConfirmed == \A l \in Guest : guest[l].appointment # 0 => Confirmed(l)

\* A command is carried out once, however often its author sends it.
CommandOnce == \A c \in Command : applied[c] = IF receipts[c] = None THEN 0 ELSE 1

(***************************************************************************)
(* Bookings, rebookings, cancellations and reminders in every order leave  *)
(* the calendar, the rows of the leads and the receipts of the operators'  *)
(* commands in agreement.                                                  *)
(***************************************************************************)
BookingsSound == TypeOK /\ NoDoubleBooking /\ ShownIsConfirmed /\ CommandOnce
=============================================================================
