------------------------- MODULE ContactSuppression -------------------------
(***************************************************************************)
(* How a STOP takes effect: the local suppression journal and its recovery *)
(* loop (src/backend/lib/db.py), the handlers that receive a STOP by text  *)
(* (alerts/drip.py) or on a call (voice/tools.py), and the senders (texts: *)
(* alerts/sms.py, dials: voice/outbound.py) that ask phone_is_do_not_call  *)
(* before they transmit.                                                   *)
(*                                                                         *)
(* The remote tables dnc_list and suppression_events are reached over the  *)
(* network: any request may fail, before or after it took effect.  Rows    *)
(* are never deleted.  One tenant.  Instants are modelled by the time left *)
(* to them.                                                                *)
(***************************************************************************)
EXTENDS Integers

CONSTANTS
    Phone,
    Handler,     \* requests that carry a STOP
    Sender,      \* threads that text or dial
    Worker,      \* recovery loops, one per process
    NoWorker,    \* the lease column is NULL
    LeaseTime,   \* 60 seconds
    MaxDelay     \* bound of the model: longest backoff (5 seconds to an hour)

ASSUME SuppressionAssumption ==
    /\ LeaseTime \in Nat \ {0} /\ MaxDelay \in Nat \ {0}
    /\ NoWorker \notin Worker

VARIABLES
    configured, \* CONTACT_SUPPRESSION_PATH is set, in every process alike
    row,        \* [Phone -> none | pending | recovered]: the journal
    due,        \* time left until the row may be tried
    holder,     \* lease: the worker that owns the token (a worker has one at a time)
    leaseLeft,  \* time left until leased_until
    dnc,        \* remote: phones on dnc_list
    evidence,   \* remote: phones whose journalled event is in suppression_events
    work,       \* [Worker -> where its loop body stands]
    stop,       \* [Handler -> where its STOP stands]
    send,       \* [Sender -> where its transmission stands]
    acked       \* history: phones whose owner was told that the STOP took effect

journal == <<configured, row, due, holder, leaseLeft>>
remote == <<dnc, evidence>>
vars == <<configured, row, due, holder, leaseLeft, dnc, evidence, work, stop, send, acked>>

Idle == [at |-> "idle"]
Work == {Idle} \cup [at : {"listing", "proving", "verifying"}, phone : Phone]
               \cup [at : {"finishing"}, phone : Phone, saved : BOOLEAN]
Stop == {Idle} \cup [at : {"staged", "listed"}, phone : Phone, by : {"sms", "voice"}, ok : BOOLEAN]
Send == {Idle} \cup [at : {"local", "remote", "clear"}, phone : Phone, stopped : BOOLEAN]

\* mutant
LeasedForever(p) == holder[p] # NoWorker
Leased(p) == leaseLeft[p] > 0
-----------------------------------------------------------------------------
Init ==
    /\ configured \in BOOLEAN
    /\ row = [p \in Phone |-> "none"]
    /\ due = [p \in Phone |-> 0]
    /\ holder = [p \in Phone |-> NoWorker]
    /\ leaseLeft = [p \in Phone |-> 0]
    /\ dnc = {}
    /\ evidence = {}
    /\ work = [w \in Worker |-> Idle]
    /\ stop = [h \in Handler |-> Idle]
    /\ send = [s \in Sender |-> Idle]
    /\ acked = {}

(***************************************************************************)
(* stage_contact_suppression: ON CONFLICT(phone) DO NOTHING.  It returns   *)
(* whether there is a journal.  When the write fails a text is answered    *)
(* with an error, while the call goes on to the remote writes.             *)
(***************************************************************************)
Staged(p) == IF row[p] = "none" THEN "pending" ELSE row[p]

Stage(h, p, by) ==
    /\ stop[h] = Idle
    /\ \/ /\ configured
          /\ row' = [row EXCEPT ![p] = Staged(p)]
          /\ stop' = [stop EXCEPT ![h] = [at |-> "staged", phone |-> p, by |-> by, ok |-> TRUE]]
       \/ /\ ~configured \/ by = "voice"
          /\ stop' = [stop EXCEPT ![h] = [at |-> "staged", phone |-> p, by |-> by, ok |-> FALSE]]
          /\ UNCHANGED row
    /\ UNCHANGED <<configured, due, holder, leaseLeft, remote, work, send, acked>>

\* add_to_dnc under try_write: a failure is noted, not raised.  A text is
\* safe if it is staged; a call is confirmed only by this remote write.
List(h) ==
    /\ stop[h].at = "staged"
    /\ LET p == stop[h].phone
       IN  \/ /\ dnc' = dnc \cup {p}
              /\ stop' = [stop EXCEPT ![h].at = "listed", ![h].ok = @ \/ stop[h].by = "voice"]
           \/ /\ dnc' \in {dnc, dnc \cup {p}}
              /\ stop' = [stop EXCEPT ![h].at = "listed", ![h].ok = @ /\ stop[h].by = "sms"]
    /\ UNCHANGED <<journal, evidence, work, send, acked>>

\* The answer.  A text that was not staged is acknowledged only if
\* phone_is_do_not_call reads it back (without a journal: from dnc_list).  A
\* call that could not flag the lead is not confirmed either, which is a crash
\* as far as this model goes.
\* mutant
AnswersAlways(h) == TRUE
MayAnswer(h) ==
    \/ stop[h].ok
    \/ stop[h].by = "sms" /\ stop[h].phone \in dnc

Answer(h) ==
    /\ stop[h].at = "listed"
    /\ \/ MayAnswer(h) /\ acked' = acked \cup {stop[h].phone}
       \/ ~stop[h].ok /\ UNCHANGED acked
    /\ stop' = [stop EXCEPT ![h] = Idle]
    /\ UNCHANGED <<journal, remote, work, send>>

(***************************************************************************)
(* phone_is_do_not_call, then the transmission.  A failing read refuses.   *)
(***************************************************************************)
StartSend(s, p) ==
    /\ send[s] = Idle
    /\ send' = [send EXCEPT ![s] = [at |-> "local", phone |-> p, stopped |-> p \in acked]]
    /\ UNCHANGED <<journal, remote, work, stop, acked>>

LocallySuppressed(p) == row[p] # "none"

CheckLocal(s) ==
    /\ send[s].at = "local"
    /\ \/ send' = [send EXCEPT ![s] = Idle]
       \/ /\ configured => ~LocallySuppressed(send[s].phone)
          /\ send' = [send EXCEPT ![s].at = "remote"]
    /\ UNCHANGED <<journal, remote, work, stop, acked>>

CheckRemote(s) ==
    /\ send[s].at = "remote"
    /\ \/ send' = [send EXCEPT ![s] = Idle]
       \/ /\ send[s].phone \notin dnc
          /\ send' = [send EXCEPT ![s].at = "clear"]
    /\ UNCHANGED <<journal, remote, work, stop, acked>>

Transmit(s) ==
    /\ send[s].at = "clear"
    /\ send' = [send EXCEPT ![s] = Idle]
    /\ UNCHANGED <<journal, remote, work, stop, acked>>

(***************************************************************************)
(* recover_contact_suppressions: lease a row, list the phone, prove the    *)
(* event, read both back, and mark the row, each in a request of its own.  *)
(***************************************************************************)
Claim(w) ==
    /\ configured
    /\ work[w] = Idle
    /\ \E p \in Phone :
        /\ row[p] = "pending" /\ due[p] = 0 /\ ~Leased(p)
        /\ holder' = [holder EXCEPT ![p] = w]
        /\ leaseLeft' = [leaseLeft EXCEPT ![p] = LeaseTime]
        /\ work' = [work EXCEPT ![w] = [at |-> "listing", phone |-> p]]
    /\ UNCHANGED <<configured, row, due, remote, stop, send, acked>>

GoOn(w, place) == work' = [work EXCEPT ![w] = [at |-> place, phone |-> work[w].phone]]
Conclude(w, saved) ==
    work' = [work EXCEPT ![w] = [at |-> "finishing", phone |-> work[w].phone, saved |-> saved]]

ListPhone(w) ==
    /\ work[w].at = "listing"
    /\ dnc' = dnc \cup {work[w].phone}
    /\ GoOn(w, "proving")
    /\ UNCHANGED <<journal, evidence, stop, send, acked>>

\* Inserts the event under its journalled id unless it is already there.
ProveEvent(w) ==
    /\ work[w].at = "proving"
    /\ evidence' = evidence \cup {work[w].phone}
    /\ GoOn(w, "verifying")
    /\ UNCHANGED <<journal, dnc, stop, send, acked>>

Verify(w) ==
    /\ work[w].at = "verifying"
    /\ Conclude(w, work[w].phone \in dnc)
    /\ UNCHANGED <<journal, remote, stop, send, acked>>

\* Any of the requests fails; its write may have taken effect all the same.
\* mutant
FailureIsSaved(w) == TRUE
SavedAfterFailure(w) == FALSE
FailRequest(w) ==
    /\ work[w].at \in {"listing", "proving", "verifying"}
    /\ \/ UNCHANGED remote
       \/ /\ work[w].at = "listing"
          /\ dnc' = dnc \cup {work[w].phone} /\ UNCHANGED evidence
       \/ /\ work[w].at = "proving"
          /\ evidence' = evidence \cup {work[w].phone} /\ UNCHANGED dnc
    /\ Conclude(w, SavedAfterFailure(w))
    /\ UNCHANGED <<journal, stop, send, acked>>

\* mutant
OwnsUnfenced(w, p) == TRUE
Owns(w, p) == holder[p] = w /\ Leased(p)

Finish(w) ==
    /\ work[w].at = "finishing"
    /\ work' = [work EXCEPT ![w] = Idle]
    /\ LET p == work[w].phone
       IN  \/ ~Owns(w, p) /\ UNCHANGED journal
           \/ /\ Owns(w, p)
              /\ UNCHANGED configured
              /\ row' = [row EXCEPT ![p] = IF work[w].saved THEN "recovered" ELSE "pending"]
              /\ \E delay \in 1 .. MaxDelay : due' = [due EXCEPT ![p] = delay]
              /\ holder' = [holder EXCEPT ![p] = NoWorker]
              /\ leaseLeft' = [leaseLeft EXCEPT ![p] = 0]
    /\ UNCHANGED <<remote, stop, send, acked>>

\* A process dies; the journal and the remote tables survive.
Crash ==
    /\ \/ \E w \in Worker : work[w] # Idle /\ work' = [work EXCEPT ![w] = Idle]
                            /\ UNCHANGED <<stop, send>>
       \/ \E h \in Handler : stop[h] # Idle /\ stop' = [stop EXCEPT ![h] = Idle]
                             /\ UNCHANGED <<work, send>>
    /\ UNCHANGED <<journal, remote, acked>>

Less(f) == [p \in Phone |-> IF f[p] > 0 THEN f[p] - 1 ELSE 0]

Tick ==
    /\ \E p \in Phone : due[p] > 0 \/ leaseLeft[p] > 0
    /\ due' = Less(due)
    /\ leaseLeft' = Less(leaseLeft)
    /\ UNCHANGED <<configured, row, holder, remote, work, stop, send, acked>>

Next ==
    \/ \E h \in Handler :
        \/ \E p \in Phone, by \in {"sms", "voice"} : Stage(h, p, by)
        \/ List(h) \/ Answer(h)
    \/ \E s \in Sender :
        \/ \E p \in Phone : StartSend(s, p)
        \/ CheckLocal(s) \/ CheckRemote(s) \/ Transmit(s)
    \/ \E w \in Worker :
        Claim(w) \/ ListPhone(w) \/ ProveEvent(w) \/ Verify(w) \/ FailRequest(w) \/ Finish(w)
    \/ Crash
    \/ Tick

Spec == Init /\ [][Next]_vars

\* The recovery loop polls every five seconds; the remote store, however often
\* it fails, again and again answers each kind of request within the lease.
InTime(w) == Leased(work[w].phone) /\ holder[work[w].phone] = w
Busy(w) == ListPhone(w) \/ ProveEvent(w) \/ Verify(w) \/ FailRequest(w) \/ Finish(w)

Fairness ==
    /\ WF_vars(Tick)
    /\ \A w \in Worker :
        /\ WF_vars(Claim(w)) /\ WF_vars(Busy(w))
        /\ SF_vars(ListPhone(w) /\ InTime(w))
        /\ SF_vars(ProveEvent(w) /\ InTime(w))
        /\ SF_vars(Verify(w) /\ InTime(w))
        /\ SF_vars(Finish(w) /\ InTime(w) /\ work[w].saved)

FairSpec == Spec /\ Fairness
-----------------------------------------------------------------------------
TypeOK ==
    /\ configured \in BOOLEAN
    /\ row \in [Phone -> {"none", "pending", "recovered"}]
    /\ due \in [Phone -> Nat]
    /\ holder \in [Phone -> Worker \cup {NoWorker}]
    /\ leaseLeft \in [Phone -> Nat]
    /\ dnc \subseteq Phone
    /\ evidence \subseteq Phone
    /\ work \in [Worker -> Work]
    /\ stop \in [Handler -> Stop]
    /\ send \in [Sender -> Send]
    /\ acked \subseteq Phone

\* Once the owner of a phone has been told that the STOP took effect, no text
\* or dial that begins later gets past its checks, whatever fails, crashes or
\* is recovered in between.
NoContactAfterStop == \A s \in Sender : send[s].at = "clear" => ~send[s].stopped

\* The journal drops an event from recovery only when both remote tables hold it.
RecoveredIsRecorded ==
    \A p \in Phone : row[p] = "recovered" => p \in dnc /\ p \in evidence

\* What was recovered stays recovered: neither another STOP from the phone nor
\* a worker that lost its lease and failed puts it back.
RecoveredStays == [][\A p \in Phone : row[p] = "recovered" => row'[p] = "recovered"]_vars

\* A staged STOP reaches the remote tables in the end.
EveryStopIsRecovered == \A p \in Phone : row[p] = "pending" ~> row[p] = "recovered"
=============================================================================
