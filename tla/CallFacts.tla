----------------------------- MODULE CallFacts -----------------------------
(***************************************************************************)
(* What a seller has confirmed in a call, on its way to Bob: the pipeline  *)
(* processor that journals every new snapshot of the facts                 *)
(* (voice/processors/bob_fact_journal.py), the journal of lib/db.py        *)
(* (stage_bob_call_facts, flush_bob_call_fact_outbox) and the loop of      *)
(* voice/bob_recovery.py.                                                  *)
(*                                                                         *)
(* A snapshot is the whole set of facts at one moment, so the snapshots of *)
(* a call are numbered; the identity of its row is its content.  What Bob  *)
(* does with a snapshot is outside this repository: taken is what has been *)
(* accepted by bob_accept_call_facts.                                      *)
(***************************************************************************)
EXTENDS Integers

CONSTANTS
    LastFact,    \* bound of the model: snapshots of the call
    Flusher,     \* who runs flush_bob_call_fact_outbox
    Own,         \* of them, the task of the call's own processor
    NoFlusher,   \* the lease column is NULL
    Life,        \* 86400 s: a fact is not delivered after that
    Lease,       \* 120 s
    MaxLapses    \* bound of the model: deliveries that die or outlast their lease

\* What the module takes of its constants; the module that instances it assumes it.
FactAssumption ==
    /\ LastFact \in Nat \ {0} /\ Life \in Nat \ {0} /\ Lease \in Nat \ {0}
    /\ MaxLapses \in Nat /\ Own \in Flusher /\ NoFlusher \notin Flusher

Retries == 2     \* bound of the model: of the five attempts to journal a snapshot

VARIABLES
    verified,    \* call_ctx.bob_verified_facts, by its number; 0: nothing yet
    saved,       \* the processor's _saved
    writer,      \* its task: idle, staging or flushing
    ended,       \* the call is over
    row,         \* [snapshot -> none, pending, dead; deleted]
    owner,       \* the flusher whose lease the row bears
    leased,      \* time left of the lease
    backoff,     \* time left until due
    life,        \* time left until its oldest fact is too old
    flush,       \* [Flusher -> the row it is delivering]
    lapses,
    taken        \* snapshots Bob has accepted

vars == <<verified, saved, writer, ended, row, owner, leased, backoff, life, flush,
          lapses, taken>>
call == <<verified, saved, writer, ended>>
facts == <<row, owner, leased, backoff, life>>

Snapshot == 1 .. LastFact
Idle == [at |-> "idle"]
Flush == {Idle} \cup [at : {"claimed"}, row : Snapshot, expired : BOOLEAN]
                \cup [at : {"answered"}, row : Snapshot, expired : BOOLEAN, confirmed : BOOLEAN]
Writer == {Idle, [at |-> "flushing"]}
    \cup [at : {"staging"}, snapshot : Snapshot, retries : 0 .. Retries]

Init ==
    /\ verified = 0 /\ saved = 0 /\ writer = Idle /\ ended = FALSE
    /\ row = [v \in Snapshot |-> "none"]
    /\ owner = [v \in Snapshot |-> NoFlusher]
    /\ leased = [v \in Snapshot |-> 0]
    /\ backoff = [v \in Snapshot |-> 0]
    /\ life = [v \in Snapshot |-> 0]
    /\ flush = [f \in Flusher |-> Idle]
    /\ lapses = 0 /\ taken = {}
-----------------------------------------------------------------------------
\* The call.  A new fact changes the snapshot, whose oldest fact may be an earlier one.
Verify ==
    /\ ~ended /\ verified < LastFact
    /\ verified' = verified + 1
    /\ \E left \in {Life} \cup {life[v] : v \in {verified} \cap Snapshot} :
            life' = [life EXCEPT ![verified'] = left]
    /\ UNCHANGED <<saved, writer, ended, row, owner, leased, backoff, flush, lapses, taken>>

\* A tool that settles the next step journals the facts itself, which may fail.
RememberNextStep ==
    /\ ~ended /\ verified < LastFact
    /\ verified' = verified + 1
    /\ life' = [life EXCEPT ![verified'] = Life]
    /\ \/ /\ row[verified'] = "none"
          /\ row' = [row EXCEPT ![verified'] = "pending"]
       \/ UNCHANGED row
    /\ UNCHANGED <<saved, writer, ended, owner, leased, backoff, flush, lapses, taken>>

\* A frame passes: the processor starts its task unless the last one still runs.
Frame ==
    /\ ~ended /\ writer = Idle /\ verified # saved
    /\ writer' = [at |-> "staging", snapshot |-> verified, retries |-> 0]
    /\ UNCHANGED <<verified, saved, ended, facts, flush, lapses, taken>>

\* One transaction; a snapshot whose row is there is not written again.
Stage(v) ==
    /\ life[v] > 0
    /\ IF row[v] \in {"pending", "dead"} THEN UNCHANGED <<row, backoff>>
       ELSE row' = [row EXCEPT ![v] = "pending"] /\ backoff' = [backoff EXCEPT ![v] = 0]
    /\ UNCHANGED <<owner, leased, life>>

\* The task reads the facts anew after each success and after each failure.
ReadAgain(retries, nowSaved) ==
    writer' = IF verified = nowSaved THEN [at |-> "flushing"]
              ELSE [at |-> "staging", snapshot |-> verified, retries |-> retries]

Journal ==
    /\ writer.at = "staging"
    /\ \/ Stage(writer.snapshot) /\ saved' = writer.snapshot /\ ReadAgain(writer.retries, saved')
       \/ /\ IF writer.retries = Retries THEN writer' = Idle
             ELSE ReadAgain(writer.retries + 1, saved)
          /\ UNCHANGED <<saved, facts>>
    /\ UNCHANGED <<verified, ended, flush, lapses, taken>>

\* After the snapshots the task delivers one row.
FlushEnds ==
    /\ writer.at = "flushing" /\ flush[Own] = Idle
    /\ writer' = Idle
    /\ UNCHANGED <<verified, saved, ended, facts, flush, lapses, taken>>

\* The call ends: the task is cancelled (a transaction that has begun still commits),
\* and _handle_call_end journals the facts once more, which may fail.
EndCall ==
    /\ ~ended /\ ended' = TRUE /\ writer' = Idle
    /\ \/ verified # 0 /\ Stage(verified) /\ saved' = verified
       \/ writer.at = "staging" /\ Stage(writer.snapshot) /\ UNCHANGED saved
       \/ UNCHANGED <<saved, facts>>
    /\ UNCHANGED <<verified, flush, lapses, taken>>
-----------------------------------------------------------------------------
\* flush_bob_call_fact_outbox, once for each row it delivers.
Due(v) == row[v] = "pending" /\ backoff[v] = 0 /\ leased[v] = 0

Claim(f) ==
    /\ flush[f] = Idle
    /\ f = Own => writer.at = "flushing"
    /\ \E v \in Snapshot :
        /\ Due(v) /\ \A u \in Snapshot : Due(u) => v <= u
        /\ owner' = [owner EXCEPT ![v] = f]
        /\ leased' = [leased EXCEPT ![v] = Lease]
        /\ flush' = [flush EXCEPT ![f] = [at |-> "claimed", row |-> v, expired |-> life[v] = 0]]
    /\ UNCHANGED <<call, row, backoff, life, lapses, taken>>

\* What the request may have come to: <<accepted, the caller knows it>>.
Answers == {<<TRUE, TRUE>>, <<TRUE, FALSE>>, <<FALSE, FALSE>>}
AnyAnswerCounts == Answers \cup {<<FALSE, TRUE>>} \* mutant: the answer is not looked at

Possible == Answers

Deliver(f) ==
    /\ flush[f].at = "claimed"
    /\ \E answer \in (IF flush[f].expired THEN {<<FALSE, FALSE>>} ELSE Possible) :
        /\ taken' = IF answer[1] THEN taken \cup {flush[f].row} ELSE taken
        /\ flush' = [flush EXCEPT ![f] = [at |-> "answered", row |-> flush[f].row,
                                          expired |-> flush[f].expired, confirmed |-> answer[2]]]
    /\ UNCHANGED <<call, facts, lapses>>

NeverDead(expired) == "pending" \* mutant: an expired row is tried again
AfterFailure(expired) == IF expired THEN "dead" ELSE "pending"

\* The row is the flusher's only while it bears its lease.
Settle(f) ==
    LET v == flush[f].row
    IN  /\ flush[f].at = "answered"
        /\ flush' = [flush EXCEPT ![f] = Idle]
        /\ IF owner[v] # f THEN UNCHANGED facts
           ELSE /\ owner' = [owner EXCEPT ![v] = NoFlusher]
                /\ leased' = [leased EXCEPT ![v] = 0]
                /\ IF flush[f].confirmed
                   THEN row' = [row EXCEPT ![v] = "deleted"] /\ UNCHANGED backoff
                   ELSE /\ row' = [row EXCEPT ![v] = AfterFailure(flush[f].expired)]
                        /\ backoff' = [backoff EXCEPT ![v] = 1]
                /\ UNCHANGED life
        /\ UNCHANGED <<call, lapses, taken>>

Die(f) ==
    /\ flush[f] # Idle /\ lapses < MaxLapses
    /\ flush' = [flush EXCEPT ![f] = Idle]
    /\ lapses' = lapses + 1
    /\ UNCHANGED <<call, facts, taken>>

\* Once MaxLapses have, deliveries end within their lease.
Outlasts(v) == leased[v] = 1 /\ \E f \in Flusher : flush[f] # Idle /\ flush[f].row = v /\ owner[v] = f

Less(n) == IF n = 0 THEN 0 ELSE n - 1
Tick ==
    /\ \/ lapses' = lapses /\ \A v \in Snapshot : ~ Outlasts(v)
       \/ lapses' = lapses + 1 /\ lapses < MaxLapses /\ \E v \in Snapshot : Outlasts(v)
    /\ leased' = [v \in Snapshot |-> Less(leased[v])]
    /\ backoff' = [v \in Snapshot |-> Less(backoff[v])]
    /\ life' = [v \in Snapshot |-> Less(life[v])]
    /\ UNCHANGED <<call, row, owner, flush, taken>>

Step(f) == Claim(f) \/ Deliver(f) \/ Settle(f)
Next == \/ Verify \/ RememberNextStep \/ Frame \/ Journal \/ FlushEnds \/ EndCall \/ Tick
        \/ \E f \in Flusher : Step(f) \/ Die(f)

Spec == Init /\ [][Next]_vars

\* The loop of bob_recovery runs every 30 s for as long as the service does.
Fairness == WF_vars(Tick) /\ \A f \in Flusher : WF_vars(Step(f))
FairSpec == Spec /\ Fairness
-----------------------------------------------------------------------------
TypeOK ==
    /\ verified \in 0 .. LastFact /\ saved \in 0 .. LastFact /\ writer \in Writer
    /\ ended \in BOOLEAN
    /\ row \in [Snapshot -> {"none", "pending", "dead", "deleted"}]
    /\ owner \in [Snapshot -> Flusher \cup {NoFlusher}]
    /\ leased \in [Snapshot -> 0 .. Lease] /\ backoff \in [Snapshot -> 0 .. 1]
    /\ life \in [Snapshot -> 0 .. Life]
    /\ flush \in [Flusher -> Flush] /\ lapses \in 0 .. MaxLapses
    /\ taken \subseteq Snapshot

\* A row leaves the journal only when Bob has accepted it.
DeletedWasTaken == \A v \in Snapshot : row[v] = "deleted" => v \in taken

\* No snapshot is given up while its facts are fresh.
DeadWasExpired == \A v \in Snapshot : row[v] = "dead" => life[v] = 0

\* What the processor holds for saved is in the journal, delivered, or given up.
SavedIsJournalled == saved # 0 => row[saved] # "none"

(***************************************************************************)
(* No confirmed fact is lost between the call and Bob without a trace,     *)
(* whatever becomes of the answers, the leases and the processes: the      *)
(* three statements above, of lib/db.py 1646-1723.                         *)
(***************************************************************************)
FactsSound == TypeOK /\ DeletedWasTaken /\ DeadWasExpired /\ SavedIsJournalled

\* Every journalled snapshot is delivered or expires, also when its flusher dies.
Delivered == \A v \in Snapshot : row[v] # "pending"
FactsSettle == <>[]Delivered
=============================================================================
