--------------------------- MODULE RecordsProofs ---------------------------
(***************************************************************************)
(* Theorems about Records: for the ledger and for every other record an    *)
(* inductive invariant, for any leads, slots, operators, batches, writers, *)
(* facts, repliers and bounds, and from it the soundness that the part     *)
(* promises.                                                               *)
(***************************************************************************)
EXTENDS Records, FiniteSetTheorems, SequenceTheorems, TLAPS

(***************************************************************************)
(* CallLedger.  The ledger knows only calls that were placed, a lead shows *)
(* a call of the ledger, and no row ranks above the number of rows: they   *)
(* hold of the ledger alone (Spec), for any finite set of provider calls.  *)
(***************************************************************************)
Heard == {c \in Call : Recorded(c)}
HeardOf(l) == {c \in Call : Recorded(c) /\ call[c].lead = l}
Placed(c) == call[c].status \in {"live", "ended"}

\* As much of the types of CallSlots as the ledger depends on.
CallRec == {Slots!NoProviderCall} \cup [status : {"live", "ended"}, lead : Lead, left : Int,
                                        denied : BOOLEAN]
DialRec == {Slots!Idle} \cup [at : {"holding"}, lead : Lead, left : Int]
              \cup [at : {"placed", "accepted"}, lead : Lead, call : Call]
              \cup [at : {"failed"}, lead : Lead]
Shapes ==
    /\ call \in [Call -> CallRec] /\ dial \in [Dialer -> DialRec]
    /\ \A d \in Dialer : dial[d].at \in {"placed", "accepted"} => Placed(dial[d].call)

\* The ledger knows of placed calls only, and an announced call is in it.
KnownPlaced ==
    /\ \A c \in Call : c \in unsaid \/ Recorded(c) => Placed(c)
    /\ \A c \in announced : Recorded(c)

\* A lead shows a call of the ledger.
CurrentHeard == \A l \in Lead : current[l] # NoCall => Recorded(current[l])

\* A row that is inserted ranks after all others.
RanksBounded == \A c \in Call : created[c] <= Cardinality(Heard)

LedgerInv ==
    /\ TypeOK /\ Shapes /\ KnownPlaced /\ CurrentHeard /\ RanksBounded
    /\ CountedOnce /\ NewestCallStands

\* Steps of the slots, the dials and the provider keep the shapes, and a call
\* once placed belongs to its lead for good.
LEMMA ShapeStep ==
    ASSUME Shapes, [Next]_vars
    PROVE  /\ Shapes'
           /\ \A c \in Call : Placed(c) => Placed(c)' /\ call'[c].lead = call[c].lead
  <1> USE LedgerAssumption
  <1> DEFINE Kept == \A c \in Call : Placed(c) => Placed(c)' /\ call'[c].lead = call[c].lead
  <1>1. ASSUME UNCHANGED <<dial, call>> PROVE Shapes' /\ Kept
    BY <1>1 DEF Shapes, Placed
  <1>2. ASSUME NEW d \in Dialer, NEW l \in Lead, Slots!Acquire(d, l) PROVE Shapes' /\ Kept
    <2>1. call' = call /\ (dial' = dial \/ dial' = [dial EXCEPT ![d] =
                               [at |-> "holding", lead |-> l, left |-> DialTime]])
      BY <1>2 DEF Slots!Acquire
    <2> QED BY <2>1 DEF Shapes, Placed, DialRec
  <1>3. ASSUME NEW d \in Dialer, Slots!Place(d) PROVE Shapes' /\ Kept
    <2>1. dial[d] \in [at : {"holding"}, lead : Lead, left : Int]
      BY <1>3 DEF Slots!Place, Shapes, DialRec, Slots!Idle
    <2>2. PICK c \in Call :
             /\ call[c] = Slots!NoProviderCall
             /\ call' = [call EXCEPT ![c] = [status |-> "live", lead |-> dial[d].lead,
                                             left |-> CallTime, denied |-> FALSE]]
             /\ dial' = [dial EXCEPT ![d] = [at |-> "placed", lead |-> dial[d].lead, call |-> c]]
      BY <1>3 DEF Slots!Place
    <2>3. call' \in [Call -> CallRec] /\ Kept /\ Placed(c)'
      BY <2>1, <2>2 DEF Shapes, CallRec, Placed, Slots!NoProviderCall
    <2>4. dial' \in [Dialer -> DialRec]
      BY <2>1, <2>2 DEF Shapes, DialRec
    <2>5. ASSUME NEW e \in Dialer, dial'[e].at \in {"placed", "accepted"}
          PROVE  Placed(dial[e].call)'
      <3>1. CASE e = d
        <4>1. dial'[e].call = c BY <2>2, <3>1 DEF Shapes
        <4> QED BY <2>3, <4>1 DEF Placed
      <3>2. CASE e # d
        <4>1. dial'[e] = dial[e] BY <2>2, <3>2 DEF Shapes
        <4>2. dial[e].call \in Call /\ Placed(dial[e].call)
          BY <2>5, <4>1 DEF Shapes, DialRec, Slots!Idle
        <4> QED BY <2>3, <4>1, <4>2 DEF Placed
      <3> QED BY <3>1, <3>2
    <2> QED BY <2>3, <2>4, <2>5 DEF Shapes
  <1>4. ASSUME NEW d \in Dialer,
               Slots!Reject(d) \/ Slots!LoseAnswer(d) \/ Slots!Accept(d) \/ Slots!Release(d)
                 \/ Slots!Crash(d) \/ Slots!Bind(d)
        PROVE  Shapes' /\ Kept
    <2>1. /\ call' \in [Call -> CallRec] /\ Kept
          /\ \A e \in Dialer : dial[e].at \in {"placed", "accepted"} =>
                call'[dial[e].call].status \in {"live", "ended"}
      <3>1. CASE call' = call BY <3>1 DEF Shapes, Placed
      <3>2. CASE /\ dial[d].at = "placed"
                 /\ call' = [call EXCEPT ![dial[d].call].denied = TRUE]
        <4> DEFINE p == dial[d].call
        <4>1. p \in Call /\ Placed(p) BY <3>2 DEF Shapes, DialRec, Slots!Idle
        <4>2. call[p] \in [status : {"live", "ended"}, lead : Lead, left : Int, denied : BOOLEAN]
          BY <4>1 DEF Shapes, CallRec, Placed, Slots!NoProviderCall
        <4> DEFINE r == [call[p] EXCEPT !.denied = TRUE]
        <4>3. /\ r \in [status : {"live", "ended"}, lead : Lead, left : Int, denied : BOOLEAN]
              /\ r.status = call[p].status /\ r.lead = call[p].lead
          BY <4>2
        <4>4. call' = [call EXCEPT ![p] = r] BY <3>2
        <4>5. r \in CallRec BY <4>3 DEF CallRec
        <4> HIDE DEF r, p
        <4>6. call' \in [Call -> CallRec] BY <4>4, <4>5 DEF Shapes
        <4>7. \A c \in Call : call'[c] = IF c = p THEN r ELSE call[c] BY <4>4 DEF Shapes
        <4>8. \A c \in Call : Placed(c) => Placed(c)' /\ call'[c].lead = call[c].lead
          BY <4>3, <4>7 DEF Placed
        <4>9. \A e \in Dialer : dial[e].at \in {"placed", "accepted"} =>
                 dial[e].call \in Call /\ Placed(dial[e].call)
          BY DEF Shapes, DialRec, Slots!Idle
        <4>10. \A e \in Dialer : dial[e].at \in {"placed", "accepted"} =>
                  call'[dial[e].call].status \in {"live", "ended"}
          BY <4>8, <4>9 DEF Placed
        <4> QED BY <4>6, <4>8, <4>10
      <3> QED
        BY <1>4, <3>1, <3>2 DEF Slots!Reject, Slots!LoseAnswer, Slots!Accept, Slots!Release,
                                Slots!Crash, Slots!Bind
    <2>2. dial[d] \in DialRec BY DEF Shapes
    <2>3. ASSUME NEW r \in DialRec, dial' = [dial EXCEPT ![d] = r],
                 r.at \in {"placed", "accepted"} => dial[d].at = "placed" /\ r.call = dial[d].call
          PROVE  Shapes' /\ Kept
      BY <2>1, <2>3 DEF Shapes, Placed
    <2>4. CASE Slots!Accept(d)
      <3> DEFINE r == [dial[d] EXCEPT !.at = "accepted"]
      <3>1. dial' = [dial EXCEPT ![d] = r] /\ dial[d].at = "placed"
        BY <2>4 DEF Slots!Accept
      <3>2. dial[d] \in [at : {"placed", "accepted"}, lead : Lead, call : Call]
        BY <2>2, <3>1 DEF DialRec, Slots!Idle
      <3>3. r \in [at : {"placed", "accepted"}, lead : Lead, call : Call] /\ r.call = dial[d].call
        BY <3>2
      <3>4. r \in DialRec BY <3>3 DEF DialRec
      <3> HIDE DEF r
      <3> QED BY <2>3, <3>1, <3>3, <3>4
    <2>5. CASE Slots!Reject(d) \/ Slots!LoseAnswer(d)
      <3>1. dial[d].lead \in Lead
        BY <2>2, <2>5 DEF Slots!Reject, Slots!LoseAnswer, DialRec, Slots!Idle
      <3>2. PICK r \in {Slots!Idle, [at |-> "failed", lead |-> dial[d].lead]} :
               dial' = [dial EXCEPT ![d] = r]
        BY <2>5 DEF Slots!Reject, Slots!LoseAnswer
      <3>3. r \in DialRec /\ r.at \notin {"placed", "accepted"}
        BY <3>1 DEF DialRec, Slots!Idle
      <3> QED BY <2>3, <3>2, <3>3
    <2>6. CASE Slots!Release(d) \/ Slots!Crash(d) \/ Slots!Bind(d)
      <3>1. dial' = [dial EXCEPT ![d] = Slots!Idle]
        BY <2>6 DEF Slots!Release, Slots!Crash, Slots!Bind
      <3>2. Slots!Idle \in DialRec /\ Slots!Idle.at = "idle"
        BY DEF DialRec, Slots!Idle
      <3> QED BY <2>3, <3>1, <3>2
    <2> QED BY <1>4, <2>4, <2>5, <2>6
  <1>5. ASSUME NEW c \in Call, Slots!Renew(c) \/ Slots!Terminal(c) PROVE Shapes' /\ Kept
    BY <1>1, <1>5 DEF Slots!Renew, Slots!Terminal
  <1>6. ASSUME NEW c \in Call, Slots!End(c) PROVE Shapes' /\ Kept
    <2>1. call[c] \in [status : {"live", "ended"}, lead : Lead, left : Int, denied : BOOLEAN]
      BY <1>6 DEF Slots!End, Shapes, CallRec, Slots!NoProviderCall
    <2>2. call' = [call EXCEPT ![c] = [call[c] EXCEPT !.status = "ended"]] /\ dial' = dial
      BY <1>6 DEF Slots!End
    <2>3. call' \in [Call -> CallRec] /\ Kept
      BY <2>1, <2>2 DEF Shapes, CallRec, Placed
    <2>4. \A d \in Dialer : dial[d].at \in {"placed", "accepted"} => dial[d].call \in Call
      BY DEF Shapes, DialRec, Slots!Idle
    <2> QED BY <2>2, <2>3, <2>4 DEF Shapes
  <1>7. ASSUME Slots!Tick PROVE Shapes' /\ Kept
    <2>1. /\ call' = [c \in Call |-> IF call[c].status = "live"
                                     THEN [call[c] EXCEPT !.left = @ - 1] ELSE call[c]]
          /\ dial' = [d \in Dialer |-> IF dial[d].at = "holding"
                                       THEN [dial[d] EXCEPT !.left = @ - 1] ELSE dial[d]]
      BY <1>7 DEF Slots!Tick
    <2>2. call' \in [Call -> CallRec] /\ Kept
      BY <2>1 DEF Shapes, CallRec, Placed, Slots!NoProviderCall
    <2>3. dial' \in [Dialer -> DialRec]
      BY <2>1 DEF Shapes, DialRec, Slots!Idle
    <2>4. \A d \in Dialer : dial'[d].at \in {"placed", "accepted"} =>
             dial'[d] = dial[d] /\ dial[d].call \in Call
      BY <2>1 DEF Shapes, DialRec, Slots!Idle
    <2> QED BY <2>2, <2>3, <2>4 DEF Shapes
  <1>8. CASE Dialling BY <1>2, <1>3, <1>4, <1>5, <1>6, <1>7, <1>8 DEF Dialling
  <1>9. ASSUME NEW d \in Dialer, Bind(d) PROVE Shapes' /\ Kept BY <1>4, <1>9 DEF Bind
  <1>10. ASSUME NEW c \in Call,
                Announce(c) \/ MachineDetected(c) \/ StatusCallback(c) \/ ReleaseSlot(c)
         PROVE  Shapes' /\ Kept
    BY <1>1, <1>5, <1>10 DEF Announce, MachineDetected, StatusCallback, ReleaseSlot
  <1>11. CASE UNCHANGED vars BY <1>1, <1>11 DEF vars
  <1> QED BY <1>8, <1>9, <1>10, <1>11 DEF Next

-----------------------------------------------------------------------------
\* The ledger has heard of finitely many calls, and one more adds one.
LEMMA HeardFinite ==
    ASSUME TypeOK
    PROVE  /\ IsFiniteSet(Heard) /\ Cardinality(Heard) \in Nat
           /\ \A l : IsFiniteSet(HeardOf(l)) /\ Cardinality(HeardOf(l)) \in Nat
           /\ Cardinality(Heard) <= Cardinality(Call) /\ Cardinality(Call) \in Nat
  <1>1. Heard \subseteq Call /\ \A l : HeardOf(l) \subseteq Call
    BY DEF Heard, HeardOf
  <1> QED BY <1>1, FS_Subset, FS_CardinalityType, LedgerAssumption

\* record_provider_call_outcome preserves all that the ledger promises, whatever
\* it is told, and whether or not the call is announced by it.
LEMMA RecordStep ==
    ASSUME LedgerInv, NEW c \in Call, Placed(c), NEW outcome \in Outcome, Record(c, outcome),
           UNCHANGED call,
           announced' = announced \/ (outcome = "initiated" /\ announced' = announced \cup {c})
    PROVE  /\ event' \in [Call -> {"none"} \cup Outcome]
           /\ created' \in [Call -> 0 .. Cardinality(Call)]
           /\ current' \in [Lead -> Call \cup {NoCall}]
           /\ attempts' \in [Lead -> Nat]
           /\ announced' \subseteq Call
           /\ \A b \in Call : Recorded(b)' <=> Recorded(b) \/ b = c
           /\ \A b \in announced' : Recorded(b)'
           /\ CurrentHeard' /\ RanksBounded' /\ CountedOnce' /\ NewestCallStands'
  <1> USE LedgerAssumption
  <1>1. PICK l \in Lead : l = call[c].lead
    BY DEF LedgerInv, Shapes, CallRec, Placed, Slots!NoProviderCall
  <1>2. event' \in [Call -> {"none"} \cup Outcome] /\ event'[c] # "none"
    BY DEF Record, EventOutcome, LedgerInv, TypeOK, Outcome
  <1>3. \A b \in Call : Recorded(b)' <=> Recorded(b) \/ b = c
    BY <1>2 DEF Record, Recorded, LedgerInv, TypeOK
  <1>4. /\ IsFiniteSet(Heard) /\ Cardinality(Heard) \in Nat
        /\ \A m : IsFiniteSet(HeardOf(m)) /\ Cardinality(HeardOf(m)) \in Nat
        /\ Cardinality(Call) \in Nat
    BY HeardFinite DEF LedgerInv
  <1>5. /\ Heard' = Heard \cup {c}
        /\ HeardOf(l)' = HeardOf(l) \cup {c}
        /\ \A m \in Lead : m # l => HeardOf(m)' = HeardOf(m)
    BY <1>1, <1>3 DEF Heard, HeardOf
  <1>6. /\ Recorded(c) => Heard' = Heard /\ HeardOf(l)' = HeardOf(l)
        /\ ~Recorded(c) => /\ Cardinality(Heard') = Cardinality(Heard) + 1
                           /\ Cardinality(HeardOf(l)') = Cardinality(HeardOf(l)) + 1
    <2>1. (c \in Heard <=> Recorded(c)) /\ (c \in HeardOf(l) <=> Recorded(c))
      BY <1>1 DEF Heard, HeardOf
    <2>2. CASE Recorded(c) BY <1>5, <2>1, <2>2
    <2>3. CASE ~Recorded(c) BY <1>4, <1>5, <2>1, <2>3, FS_AddElement
    <2> QED BY <2>2, <2>3
  <1>7. Rank(c) = IF Recorded(c) THEN created[c] ELSE 1 + Cardinality(Heard)
    BY DEF Rank, Heard
  <1>8. Cardinality(Heard') \in Nat /\ Cardinality(Heard') <= Cardinality(Call)
    <2>1. Heard' \subseteq Call BY DEF Heard
    <2> QED BY <2>1, FS_Subset, FS_CardinalityType
  <1>9. created' = [created EXCEPT ![c] = Rank(c)] /\ created \in [Call -> 0 .. Cardinality(Call)]
    BY DEF Record, LedgerInv, TypeOK
  <1>10. Rank(c) \in Nat /\ Rank(c) <= Cardinality(Heard')
    BY <1>4, <1>6, <1>7, <1>9 DEF LedgerInv, RanksBounded
  <1>11. created' \in [Call -> 0 .. Cardinality(Call)]
    BY <1>4, <1>8, <1>9, <1>10
  <1>12. RanksBounded'
    BY <1>4, <1>6, <1>9, <1>10 DEF LedgerInv, RanksBounded
  <1>13. \A b \in Call : Recorded(b) => created'[b] = created[b]
    BY <1>7, <1>9
  <1>14. /\ current \in [Lead -> Call \cup {NoCall}]
         /\ current' = [current EXCEPT
                          ![l] = IF current[l] \notin {NoCall, c} /\ Overtaken(c, outcome)
                                 THEN current[l] ELSE c]
    BY <1>1 DEF Record, LedgerInv, TypeOK
  <1>15. current' \in [Lead -> Call \cup {NoCall}]
    BY <1>1, <1>14
  <1>16. CurrentHeard'
    <2> SUFFICES ASSUME NEW m \in Lead, current'[m] # NoCall PROVE Recorded(current[m])'
      BY DEF CurrentHeard
    <2>1. CASE current'[m] = c
      BY <1>2, <2>1 DEF Recorded
    <2>2. CASE current'[m] # c
      <3>1. current'[m] = current[m] BY <1>14, <2>2
      <3>2. current[m] \in Call /\ Recorded(current[m])
        BY <1>14, <3>1 DEF LedgerInv, CurrentHeard
      <3> QED BY <1>3, <3>1, <3>2 DEF Recorded
    <2> QED BY <2>1, <2>2
  <1>17. attempts' \in [Lead -> Nat] /\ CountedOnce'
    <2>1. /\ attempts \in [Lead -> Nat]
          /\ attempts' = [attempts EXCEPT ![l] = IF Recorded(c) THEN attempts[l]
                                                               ELSE attempts[l] + 1]
      BY <1>1 DEF Record, Counts, LedgerInv, TypeOK
    <2>2. \A m \in Lead : attempts[m] = Cardinality(HeardOf(m))
      BY DEF LedgerInv, CountedOnce, HeardOf
    <2>3. \A m \in Lead : attempts'[m] = Cardinality(HeardOf(m)')
      BY <1>5, <1>6, <2>1, <2>2
    <2>4. CountedOnce' BY <2>3 DEF CountedOnce, HeardOf
    <2> QED BY <1>4, <2>1, <2>4
  <1>18. announced' \subseteq Call /\ \A b \in announced' : Recorded(b)'
    BY <1>3 DEF LedgerInv, TypeOK, KnownPlaced
  <1>19. NewestCallStands'
    <2> SUFFICES ASSUME NEW a \in announced'
                 PROVE  /\ current'[call[a].lead] # NoCall
                        /\ created'[a] <= created'[current'[call[a].lead]]
      BY DEF NewestCallStands
    <2>1. a \in Call /\ Placed(a)
      BY <1>18 DEF LedgerInv, KnownPlaced, TypeOK
    <2>2. call[a].lead \in Lead
      BY <2>1 DEF LedgerInv, Shapes, CallRec, Placed, Slots!NoProviderCall
    <2>3. \A m \in Lead : current[m] # NoCall =>
              /\ current[m] \in Call
              /\ created'[current[m]] = created[current[m]] /\ created[current[m]] \in Nat
      BY <1>9, <1>13, <1>14 DEF LedgerInv, CurrentHeard
    <2>4. created'[c] = Rank(c) /\ c # NoCall
      BY <1>9
    <2>5. CASE a \in announced
      <3>1. /\ current[call[a].lead] # NoCall
            /\ created[a] <= created[current[call[a].lead]]
            /\ created'[a] = created[a] /\ created[a] \in Nat
        BY <1>9, <1>13, <2>1, <2>5 DEF LedgerInv, NewestCallStands, KnownPlaced
      <3>2. CASE current'[call[a].lead] = current[call[a].lead]
        BY <2>2, <2>3, <3>1, <3>2
      <3>3. CASE current'[call[a].lead] # current[call[a].lead]
        <4>1. call[a].lead = l /\ current'[l] = c
          BY <1>1, <1>14, <2>2, <3>3
        <4>2. ~Overtaken(c, outcome)
          BY <1>1, <1>14, <3>1, <3>3, <4>1
        <4>3. created[current[l]] <= Rank(c)
          BY <1>1, <1>10, <2>3, <3>1, <4>1, <4>2 DEF Overtaken
        <4> QED BY <1>1, <1>10, <2>3, <2>4, <3>1, <4>1, <4>3
      <3> QED BY <3>2, <3>3
    <2>6. CASE a \notin announced
      <3>1. a = c /\ outcome = "initiated"
        BY <2>6
      <3>2. CASE current'[l] = c
        BY <1>1, <1>10, <2>4, <3>1, <3>2
      <3>3. CASE current'[l] # c
        <4>1. current'[l] = current[l] /\ current[l] # NoCall /\ Overtaken(c, outcome)
          BY <1>1, <1>14, <3>3
        <4>2. created[current[l]] > Rank(c)
          BY <1>1, <3>1, <4>1 DEF Overtaken
        <4> QED BY <1>1, <1>10, <2>3, <2>4, <3>1, <4>1, <4>2
      <3> QED BY <3>2, <3>3
    <2> QED BY <2>5, <2>6
  <1> QED BY <1>2, <1>3, <1>11, <1>12, <1>15, <1>16, <1>17, <1>18, <1>19

-----------------------------------------------------------------------------
\* Every step preserves the invariant: those that record, by RecordStep; the
\* others leave the rows alone, and the calls in them keep their leads.
LEMMA RowsKept ==
    ASSUME LedgerInv, Shapes', UNCHANGED <<rows, announced>>,
           unsaid' \subseteq Call, reported' \subseteq Call,
           \A c \in unsaid' : Placed(c)',
           \A c \in Call : Placed(c) => Placed(c)' /\ call'[c].lead = call[c].lead
    PROVE  LedgerInv'
  <1>1. \A c \in Call : Recorded(c) => Placed(c)' /\ call'[c].lead = call[c].lead
    BY DEF LedgerInv, KnownPlaced
  <1>2. /\ event' = event /\ created' = created /\ current' = current
        /\ attempts' = attempts /\ announced' = announced
    BY DEF rows
  <1>3. \A c \in Call : Recorded(c)' <=> Recorded(c)
    BY <1>2 DEF Recorded
  <1>4. Heard' = Heard /\ \A l \in Lead : HeardOf(l)' = HeardOf(l)
    BY <1>1, <1>3 DEF Heard, HeardOf
  <1>5. TypeOK' BY <1>2 DEF LedgerInv, TypeOK
  <1>6. KnownPlaced'
    BY <1>1, <1>2, <1>3 DEF LedgerInv, KnownPlaced, TypeOK
  <1>7. CurrentHeard'
    BY <1>2 DEF LedgerInv, CurrentHeard, Recorded
  <1>8. RanksBounded'
    BY <1>2, <1>4 DEF LedgerInv, RanksBounded
  <1>9. CountedOnce'
    BY <1>2, <1>4 DEF LedgerInv, CountedOnce, HeardOf
  <1>10. NewestCallStands'
    <2>1. \A c \in announced : call'[c].lead = call[c].lead
      BY <1>1 DEF LedgerInv, KnownPlaced, TypeOK
    <2> QED BY <1>2, <2>1 DEF LedgerInv, NewestCallStands
  <1> QED BY <1>5, <1>6, <1>7, <1>8, <1>9, <1>10 DEF LedgerInv

LEMMA LedgerStep ==
    ASSUME LedgerInv, [Next]_vars
    PROVE  LedgerInv'
  <1>1. Shapes' /\ \A c \in Call : Placed(c) => Placed(c)' /\ call'[c].lead = call[c].lead
    BY ShapeStep DEF LedgerInv
  <1>2. unsaid \subseteq Call /\ reported \subseteq Call /\ announced \subseteq Call
    BY DEF LedgerInv, TypeOK
  <1>3. \A c \in Call : c \in unsaid \/ Recorded(c) => Placed(c)
    BY DEF LedgerInv, KnownPlaced
  <1>4. \A c \in unsaid : Placed(c)'
    BY <1>1, <1>2, <1>3
  <1>5. CASE Dialling \/ UNCHANGED vars
    BY <1>1, <1>2, <1>4, <1>5, RowsKept DEF Dialling, ledger, rows, vars
  <1>6. ASSUME NEW d \in Dialer, Bind(d) PROVE LedgerInv'
    <2>1. dial[d].at = "accepted" /\ unsaid' = unsaid \cup {dial[d].call}
      BY <1>6 DEF Bind, Slots!Bind
    <2>2. dial[d].call \in Call /\ Placed(dial[d].call)
      BY <2>1 DEF LedgerInv, Shapes, DialRec, Slots!Idle
    <2>3. unsaid' \subseteq Call /\ \A c \in unsaid' : Placed(c)'
      BY <1>1, <1>2, <1>4, <2>1, <2>2
    <2> QED BY <1>1, <1>2, <1>6, <2>3, RowsKept DEF Bind
  <1>7. ASSUME NEW c \in Call, NEW outcome \in Outcome, Record(c, outcome), Placed(c),
               UNCHANGED call, unsaid' \subseteq unsaid, reported' \subseteq Call,
               announced' = announced \/ (outcome = "initiated" /\ announced' = announced \cup {c})
        PROVE  LedgerInv'
    <2>1. /\ event' \in [Call -> {"none"} \cup Outcome]
          /\ created' \in [Call -> 0 .. Cardinality(Call)]
          /\ current' \in [Lead -> Call \cup {NoCall}]
          /\ attempts' \in [Lead -> Nat]
          /\ announced' \subseteq Call
          /\ \A b \in Call : Recorded(b)' <=> Recorded(b) \/ b = c
          /\ \A b \in announced' : Recorded(b)'
          /\ CurrentHeard' /\ RanksBounded' /\ CountedOnce' /\ NewestCallStands'
      BY <1>7, RecordStep
    <2>2. TypeOK' BY <1>2, <1>7, <2>1 DEF TypeOK
    <2>3. KnownPlaced' BY <1>1, <1>3, <1>7, <2>1 DEF KnownPlaced
    <2> QED BY <1>1, <2>1, <2>2, <2>3 DEF LedgerInv
  <1>8. ASSUME NEW c \in Call, Announce(c) PROVE LedgerInv'
    <2>1. CASE Record(c, "initiated") /\ announced' = announced \cup {c}
      BY <1>2, <1>3, <1>7, <1>8, <2>1 DEF Announce, Outcome
    <2>2. CASE UNCHANGED <<rows, announced>>
      BY <1>1, <1>2, <1>4, <1>8, <2>2, RowsKept DEF Announce
    <2> QED BY <1>8, <2>1, <2>2 DEF Announce
  <1>9. ASSUME NEW c \in Call, MachineDetected(c) PROVE LedgerInv'
    <2>1. /\ Record(c, "voicemail") /\ Placed(c) /\ UNCHANGED call
          /\ unsaid' \subseteq unsaid /\ reported' \subseteq Call /\ announced' = announced
      BY <1>2, <1>9 DEF MachineDetected, Placed
    <2> QED BY <1>7, <2>1 DEF Outcome
  <1>10. ASSUME NEW c \in Call, StatusCallback(c) PROVE LedgerInv'
    <2>1. PICK outcome \in {"answered", "missed"} : Record(c, outcome)
      BY <1>10 DEF StatusCallback
    <2>2. /\ Placed(c) /\ UNCHANGED call
          /\ unsaid' \subseteq unsaid /\ reported' \subseteq Call /\ announced' = announced
      BY <1>2, <1>10 DEF StatusCallback, Placed
    <2> QED BY <1>7, <2>1, <2>2 DEF Outcome
  <1>11. ASSUME NEW c \in Call, ReleaseSlot(c) PROVE LedgerInv'
    BY <1>1, <1>2, <1>4, <1>11, RowsKept DEF ReleaseSlot, ledger, rows
  <1> QED BY <1>5, <1>6, <1>8, <1>9, <1>10, <1>11 DEF Next

LEMMA LedgerInit == Init => LedgerInv
  <1> SUFFICES ASSUME Init PROVE LedgerInv
    OBVIOUS
  <1> USE LedgerAssumption
  <1>1. TypeOK
    <2>1. Cardinality(Call) \in Nat BY FS_CardinalityType
    <2> QED BY <2>1 DEF Init, TypeOK
  <1>2. Shapes
    BY DEF Init, Slots!Init, Shapes, CallRec, DialRec, Slots!Idle, Slots!NoProviderCall
  <1>3. \A c \in Call : ~Recorded(c) BY DEF Init, Recorded
  <1>4. KnownPlaced /\ CurrentHeard /\ NewestCallStands
    BY <1>3 DEF Init, KnownPlaced, CurrentHeard, NewestCallStands
  <1>5. RanksBounded
    <2>1. Cardinality(Heard) \in Nat BY <1>1, HeardFinite
    <2> QED BY <2>1 DEF Init, RanksBounded
  <1>6. CountedOnce
    <2>1. \A l \in Lead : {c \in Call : Recorded(c) /\ call[c].lead = l} = {}
      BY <1>3
    <2> QED BY <2>1, FS_EmptySet DEF Init, CountedOnce
  <1> QED BY <1>1, <1>2, <1>4, <1>5, <1>6 DEF LedgerInv

LEMMA LedgerInvariant == Spec => []LedgerInv
  <1>1. LedgerInv /\ [Next]_vars => LedgerInv' BY LedgerStep
  <1> QED BY LedgerInit, <1>1, PTL DEF Spec
-----------------------------------------------------------------------------
\* The rows, counters and histories of the ledger keep their types.
THEOREM TypeCorrect == Spec => []TypeOK
  <1>1. LedgerInv => TypeOK BY DEF LedgerInv
  <1> QED BY LedgerInvariant, <1>1, PTL

\* A lead's attempts are its calls of which the ledger has heard, whatever the
\* provider repeats, reorders or leaves out.
THEOREM CountedCorrectly == Spec => []CountedOnce
  <1>1. LedgerInv => CountedOnce BY DEF LedgerInv
  <1> QED BY LedgerInvariant, <1>1, PTL

\* No late word of an earlier call makes the lead show it, and measure its
\* cooldown from it, again.
THEOREM NewestCall == Spec => []NewestCallStands
  <1>1. LedgerInv => NewestCallStands BY DEF LedgerInv
  <1> QED BY LedgerInvariant, <1>1, PTL

\* A verdict once recorded stands, but for voicemail.
THEOREM VerdictsStand == Spec => OutcomesStand
  <1>1. ASSUME LedgerInv, [Next]_vars
        PROVE  [\A c \in Call :
                   event[c] \notin {"none", "initiated"} => event'[c] \in {event[c], "voicemail"}]_vars
    <2>1. ASSUME NEW c \in Call, NEW b \in Call, NEW outcome \in Outcome, Record(b, outcome),
                 event[c] \notin {"none", "initiated"}
          PROVE  event'[c] \in {event[c], "voicemail"}
      BY <1>1, <2>1 DEF Record, EventOutcome, LedgerInv, TypeOK
    <2>2. CASE event' = event BY <2>2
    <2>3. CASE \E b \in Call, outcome \in Outcome : Record(b, outcome) BY <2>1, <2>3
    <2>4. ASSUME Next PROVE event' = event \/ \E b \in Call, outcome \in Outcome : Record(b, outcome)
      BY <2>4 DEF Next, Dialling, Bind, Announce, MachineDetected, StatusCallback, ReleaseSlot,
                  ledger, rows, Outcome
    <2>5. CASE UNCHANGED vars BY <2>5
    <2> QED BY <1>1, <2>2, <2>3, <2>4, <2>5
  <1> QED BY LedgerInvariant, <1>1, PTL DEF Spec, OutcomesStand

\* The composition adds no step to the slots, the dials and the calls: what is
\* shown of CallSlots holds of its part here.
THEOREM SlotsRefined == Spec => Slots!Spec
  <1>1. Init => Slots!Init BY DEF Init
  <1>2. [Next]_vars => [Slots!Next]_Slots!vars
    <2>1. CASE Dialling BY <2>1 DEF Dialling, Slots!Next
    <2>2. ASSUME NEW d \in Dialer, Bind(d) PROVE Slots!Next BY <2>2 DEF Bind, Slots!Next
    <2>3. ASSUME NEW c \in Call, ReleaseSlot(c) PROVE Slots!Next
      BY <2>3 DEF ReleaseSlot, Slots!Next
    <2>4. ASSUME NEW c \in Call, Announce(c) \/ MachineDetected(c) \/ StatusCallback(c)
          PROVE  UNCHANGED Slots!vars
      BY <2>4 DEF Announce, MachineDetected, StatusCallback, Slots!vars
    <2>5. CASE UNCHANGED vars BY <2>5 DEF vars, Slots!vars
    <2> QED BY <2>1, <2>2, <2>3, <2>4, <2>5 DEF Next
  <1> QED BY <1>1, <1>2, PTL DEF Spec, Slots!Spec
-----------------------------------------------------------------------------

(***************************************************************************)
(* RentcastBudget.  A batch that holds a reservation holds it alone, and   *)
(* how far the batch has come says what was sent under the reservation and *)
(* what its row shows.                                                     *)
(***************************************************************************)
Holding == {"reserved", "answered"}

HeldAlone ==
    \A b, d \in Batcher :
        b # d /\ batch[b].at \in Holding /\ batch[d].at \in Holding => batch[b].call # batch[d].call

HeldIsOpen ==
    \A b \in Batcher :
        batch[b].at \in Holding =>
            /\ paid[batch[b].call].outcome = "reserved"
            /\ paid[batch[b].call].house = batch[b].house
            /\ charged[batch[b].call] = IF batch[b].at = "answered" THEN 1 ELSE 0

PaidFor(h) ==
    \E c \in Purchase :
        charged[c] = 1 /\ paid[c].house = h /\ paid[c].outcome \in {"ok", "no_data"}

SavedWasPaid == \A b \in Batcher : batch[b].at = "saving" => PaidFor(batch[b].house)

BudgetInv ==
    /\ Q!BudgetSound /\ HeldAlone /\ HeldIsOpen /\ SavedWasPaid
    /\ IsFiniteSet(Q!InWindow)

LEMMA BatchFields ==
    ASSUME NEW x \in Q!Batch
    PROVE  /\ x.at \in {"idle", "loop", "reserved", "answered", "saving"}
           /\ x.at = "idle" <=> x = Q!NoBatch
           /\ x.at # "idle" => x.todo \subseteq House
           /\ x.at \in {"reserved", "answered", "saving"} => x.house \in House
           /\ x.at \in Holding => x.call \in Purchase
           /\ x.at = "answered" => x.answer \in Q!Answer
           /\ x.at = "saving" => x.found \in BOOLEAN
  BY DEF Q!Batch, Q!NoBatch, Holding

LEMMA Continued ==
    ASSUME NEW todo \in SUBSET House
    PROVE  Q!Continues(todo) \in Q!Batch /\ Q!Continues(todo).at \in {"idle", "loop"}
  BY DEF Q!Continues, Q!Batch, Q!NoBatch

LEMMA RowFields ==
    ASSUME NEW x \in Q!Paid
    PROVE  /\ x = Q!NoPaid <=> x.outcome = "none"
           /\ x # Q!NoPaid => x \in [outcome : Q!Outcome, house : House, left : 0 .. Window]
  BY DEF Q!Paid, Q!NoPaid, Q!Outcome

\* The instances count with the operator of FiniteSets.
LEMMA SameCardinality ==
    ASSUME NEW S
    PROVE  /\ Q!Cardinality(S) = Cardinality(S) /\ P!Cardinality(S) = Cardinality(S)
           /\ G!Cardinality(S) = Cardinality(S)
  BY DEF Q!Cardinality, P!Cardinality, G!Cardinality, Cardinality

LEMMA BudgetInit == Q!Init => BudgetInv
  <1> SUFFICES ASSUME Q!Init PROVE BudgetInv
    OBVIOUS
  <1>1. Q!TypeOK
    <2>1. Q!NoPaid \in Q!Paid /\ Q!NoBatch \in Q!Batch /\ 0 \in 0 .. 2
      BY DEF Q!Paid, Q!Batch
    <2>2. QED
      BY <2>1 DEF Q!Init, Q!TypeOK
  <1>2. HeldAlone /\ HeldIsOpen /\ SavedWasPaid
    BY DEF Q!Init, HeldAlone, HeldIsOpen, SavedWasPaid, Holding, Q!NoBatch
  <1>3. Q!InWindow = {}
    BY DEF Q!Init, Q!InWindow
  <1>4. Q!WithinBudget
    <2>1. Q!Used = 0
      BY <1>3, FS_EmptySet, SameCardinality DEF Q!Used
    <2>2. Cap \in Nat /\ HardCap \in Nat
      <3>1. Q!BudgetAssumption
        BY RecordsAssumption
      <3>2. QED
        BY <3>1 DEF Q!BudgetAssumption
    <2>3. QED
      BY <2>1, <2>2 DEF Q!WithinBudget, Q!Least
  <1>5. Q!ReservedRequests /\ Q!RecordedWasPaid
    BY DEF Q!Init, Q!ReservedRequests, Q!RecordedWasPaid
  <1>6. IsFiniteSet(Q!InWindow)
    BY <1>3, FS_EmptySet
  <1>7. QED
    BY <1>1, <1>2, <1>4, <1>5, <1>6 DEF BudgetInv, Q!BudgetSound

\* A step of one batch that is left without a reservation, and that touches no row.
LEMMA BatchLeaves ==
    ASSUME BudgetInv, NEW b \in Batcher, NEW x \in Q!Batch,
           x.at \notin Holding, x.at = "saving" => PaidFor(x.house),
           batch' = [batch EXCEPT ![b] = x], UNCHANGED <<paid, charged>>,
           worth' \subseteq House, fruitless' \subseteq House,
           \A h \in worth' \cup fruitless' : PaidFor(h)
    PROVE  BudgetInv'
  <1>1. Q!TypeOK'
    BY DEF BudgetInv, Q!BudgetSound, Q!TypeOK
  <1>2. Q!InWindow' = Q!InWindow
    BY DEF Q!InWindow
  <1>3. Q!WithinBudget' /\ Q!ReservedRequests' /\ IsFiniteSet(Q!InWindow)'
    BY <1>2 DEF BudgetInv, Q!BudgetSound, Q!WithinBudget, Q!Used, Q!ReservedRequests
  <1>4. Q!RecordedWasPaid'
    BY DEF Q!RecordedWasPaid, PaidFor
  <1>5. \A d \in Batcher : batch'[d] = IF d = b THEN x ELSE batch[d]
    BY DEF BudgetInv, Q!BudgetSound, Q!TypeOK
  <1>6. HeldAlone' /\ HeldIsOpen'
    BY <1>5 DEF BudgetInv, HeldAlone, HeldIsOpen
  <1>7. SavedWasPaid'
    BY <1>5 DEF BudgetInv, SavedWasPaid, PaidFor
  <1>8. QED
    BY <1>1, <1>3, <1>4, <1>6, <1>7 DEF BudgetInv, Q!BudgetSound

LEMMA BudgetStart ==
    ASSUME BudgetInv, NEW b \in Batcher, Q!Start(b) PROVE BudgetInv'
  <1>1. PICK chosen \in SUBSET House : batch' = [batch EXCEPT ![b] = Q!Continues(chosen)]
    BY DEF Q!Start
  <1>2. \A h \in worth' \cup fruitless' : PaidFor(h)
    BY DEF Q!Start, BudgetInv, Q!BudgetSound, Q!RecordedWasPaid, PaidFor
  <1>3. worth' \subseteq House /\ fruitless' \subseteq House /\ UNCHANGED <<paid, charged>>
    BY DEF Q!Start, BudgetInv, Q!BudgetSound, Q!TypeOK
  <1> DEFINE x == Q!Continues(chosen)
  <1>4. x \in Q!Batch /\ x.at \notin Holding /\ x.at # "saving"
    BY Continued DEF Holding
  <1> HIDE DEF x
  <1>5. batch' = [batch EXCEPT ![b] = x]
    BY <1>1 DEF x
  <1>6. QED
    BY <1>2, <1>3, <1>4, <1>5, BatchLeaves

LEMMA BudgetCrash ==
    ASSUME BudgetInv, NEW b \in Batcher, Q!Crash(b) PROVE BudgetInv'
  <1>1. \A h \in worth' \cup fruitless' : PaidFor(h)
    BY DEF Q!Crash, BudgetInv, Q!BudgetSound, Q!RecordedWasPaid, PaidFor
  <1>2. worth' \subseteq House /\ fruitless' \subseteq House /\ UNCHANGED <<paid, charged>>
    BY DEF Q!Crash, BudgetInv, Q!BudgetSound, Q!TypeOK
  <1>3. Q!NoBatch \in Q!Batch /\ Q!NoBatch.at \notin Holding /\ Q!NoBatch.at # "saving"
    BY DEF Q!NoBatch, Q!Batch, Holding
  <1>4. batch' = [batch EXCEPT ![b] = Q!NoBatch]
    BY DEF Q!Crash
  <1>5. QED
    BY <1>1, <1>2, <1>3, <1>4, BatchLeaves

LEMMA BudgetSave ==
    ASSUME BudgetInv, NEW b \in Batcher, NEW saved \in BOOLEAN, Q!Save(b, saved) PROVE BudgetInv'
  <1> DEFINE step == batch[b]
             x == IF saved \/ step.found THEN Q!Continues(step.todo) ELSE Q!NoBatch
  <1>1. /\ step \in Q!Batch /\ step.at = "saving"
        /\ step.todo \in SUBSET House /\ step.house \in House
    BY BatchFields DEF Q!Save, BudgetInv, Q!BudgetSound, Q!TypeOK
  <1>2. PaidFor(step.house)
    BY <1>1 DEF BudgetInv, SavedWasPaid
  <1>3. /\ worth' \cup fruitless' \subseteq worth \cup fruitless \cup {step.house}
        /\ batch' = [batch EXCEPT ![b] = x]
        /\ UNCHANGED <<paid, charged>>
    BY DEF Q!Save
  <1>4. worth \subseteq House /\ fruitless \subseteq House
    BY DEF BudgetInv, Q!BudgetSound, Q!TypeOK
  <1>5. \A h \in worth \cup fruitless : PaidFor(h)
    BY DEF BudgetInv, Q!BudgetSound, Q!RecordedWasPaid, PaidFor
  <1>6. \A h \in worth' \cup fruitless' : PaidFor(h)
    BY <1>2, <1>3, <1>5
  <1>7. worth' \subseteq House /\ fruitless' \subseteq House
    BY <1>1, <1>3, <1>4
  <1>8. x \in Q!Batch /\ x.at \notin Holding /\ x.at # "saving"
    BY <1>1, Continued DEF Q!NoBatch, Q!Batch, Holding
  <1> HIDE DEF x, step
  <1>9. QED
    BY <1>3, <1>6, <1>7, <1>8, BatchLeaves

LEMMA BudgetReserve ==
    ASSUME BudgetInv, NEW b \in Batcher, NEW h \in House, Q!Reserve(b, h) PROVE BudgetInv'
  <1>0. Q!TypeOK /\ batch[b].at = "loop" /\ UNCHANGED <<worth, fruitless, charged>>
    BY DEF Q!Reserve, BudgetInv, Q!BudgetSound
  <1>1. CASE batch' = [batch EXCEPT ![b] = Q!NoBatch] /\ UNCHANGED paid
    <2>1. \A k \in worth' \cup fruitless' : PaidFor(k)
      BY <1>0 DEF BudgetInv, Q!BudgetSound, Q!RecordedWasPaid, PaidFor
    <2>2. Q!NoBatch \in Q!Batch /\ Q!NoBatch.at \notin Holding /\ Q!NoBatch.at # "saving"
      BY DEF Q!NoBatch, Q!Batch, Holding
    <2>3. worth' \subseteq House /\ fruitless' \subseteq House
      BY <1>0 DEF Q!TypeOK
    <2>4. QED
      BY <1>0, <1>1, <2>1, <2>2, <2>3, BatchLeaves
  <1>2. CASE ~(Q!Used >= Q!Least(Cap, HardCap))
    <2> DEFINE row == [outcome |-> "reserved", house |-> h, left |-> Window]
    <2>1. PICK c \in Purchase :
            /\ paid[c] = Q!NoPaid
            /\ paid' = [paid EXCEPT ![c] = row]
            /\ batch' = [batch EXCEPT ![b] =
                   [at |-> "reserved", todo |-> batch[b].todo \ {h}, house |-> h, call |-> c]]
      BY <1>2 DEF Q!Reserve
    <2> DEFINE x == [at |-> "reserved", todo |-> batch[b].todo \ {h}, house |-> h, call |-> c]
    <2>2. Window \in Nat \ {0} /\ Cap \in Nat /\ HardCap \in Nat
      <3>1. Q!BudgetAssumption
        BY RecordsAssumption
      <3>2. QED
        BY <3>1 DEF Q!BudgetAssumption
    <2>3. row \in Q!Paid /\ row.outcome = "reserved" /\ row.house = h /\ row # Q!NoPaid
          /\ row.left = Window
      <3>1. Window \in 0 .. Window
        BY <2>2
      <3>2. row \in [outcome : Q!Outcome, house : House, left : 0 .. Window]
        BY <3>1 DEF Q!Outcome
      <3>3. row \in Q!Paid /\ row.outcome # Q!NoPaid.outcome
        BY <3>2 DEF Q!Paid, Q!NoPaid
      <3>4. QED
        BY <3>3
    <2>4. x \in Q!Batch /\ x.at = "reserved" /\ x.house = h /\ x.call = c
      <3>1. batch[b] \in Q!Batch
        BY <1>0 DEF Q!TypeOK
      <3>2. batch[b].todo \subseteq House
        BY <1>0, <3>1, BatchFields
      <3>3. x \in [at : {"reserved"}, todo : SUBSET House, house : House, call : Purchase]
        BY <3>2
      <3>4. QED
        BY <3>3 DEF Q!Batch
    <2> HIDE DEF row, x
    <2>5. /\ paid' = [paid EXCEPT ![c] = row] /\ batch' = [batch EXCEPT ![b] = x]
      BY <2>1 DEF row, x
    <2>6. Q!TypeOK'
      BY <1>0, <2>3, <2>4, <2>5 DEF Q!TypeOK
    <2>7. \A d \in Batcher : batch'[d] = IF d = b THEN x ELSE batch[d]
      BY <1>0, <2>5 DEF Q!TypeOK
    <2>8. \A e \in Purchase : paid'[e] = IF e = c THEN row ELSE paid[e]
      BY <1>0, <2>5 DEF Q!TypeOK
    <2>9. paid[c].outcome = "none" /\ charged[c] = 0 /\ charged[c] # 1
      <3>1. charged[c] \in 0 .. 2
        BY <1>0 DEF Q!TypeOK
      <3>2. ~(charged[c] > 0)
        BY <2>1 DEF BudgetInv, Q!BudgetSound, Q!ReservedRequests
      <3>3. QED
        BY <2>1, <3>1, <3>2 DEF Q!NoPaid
    <2>10. \A d \in Batcher : batch[d].at \in Holding => batch[d].call # c /\ batch[d].call \in Purchase
      <3>1. \A d \in Batcher : batch[d] \in Q!Batch
        BY <1>0 DEF Q!TypeOK
      <3>2. QED
        BY <2>9, <3>1, BatchFields DEF BudgetInv, HeldIsOpen
    <2>11. HeldAlone'
      BY <2>4, <2>7, <2>10 DEF BudgetInv, HeldAlone
    <2>12. HeldIsOpen'
      BY <1>0, <2>3, <2>4, <2>7, <2>8, <2>9, <2>10 DEF BudgetInv, HeldIsOpen
    <2>13. \A k : PaidFor(k) => PaidFor(k)'
      BY <1>0, <2>8, <2>9 DEF PaidFor
    <2>14. SavedWasPaid'
      <3>1. \A d \in Batcher : batch'[d].at = "saving" => d # b /\ batch'[d] = batch[d]
        BY <2>4, <2>7
      <3>2. QED
        BY <2>13, <3>1 DEF BudgetInv, SavedWasPaid
    <2>15. Q!RecordedWasPaid'
      BY <1>0, <2>13 DEF BudgetInv, Q!BudgetSound, Q!RecordedWasPaid, PaidFor
    <2>16. Q!ReservedRequests'
      BY <1>0, <2>3, <2>8 DEF BudgetInv, Q!BudgetSound, Q!ReservedRequests
    <2>17. Q!InWindow' = Q!InWindow \cup {c} /\ c \notin Q!InWindow
      BY <2>1, <2>2, <2>3, <2>8 DEF Q!InWindow
    <2>18. /\ IsFiniteSet(Q!InWindow') /\ Cardinality(Q!InWindow') = Cardinality(Q!InWindow) + 1
           /\ Cardinality(Q!InWindow) \in Nat
      BY <2>17, FS_AddElement, FS_CardinalityType DEF BudgetInv
    <2>19. Q!WithinBudget'
      <3>1. Q!Least(Cap, HardCap) \in Nat
        BY <2>2 DEF Q!Least
      <3>2. Q!Used = Cardinality(Q!InWindow) /\ Q!Used' = Cardinality(Q!InWindow')
        BY SameCardinality DEF Q!Used
      <3>3. QED
        BY <1>2, <2>18, <3>1, <3>2 DEF Q!WithinBudget
    <2>20. QED
      BY <2>6, <2>11, <2>12, <2>14, <2>15, <2>16, <2>18, <2>19 DEF BudgetInv, Q!BudgetSound
  <1>3. QED
    BY <1>1, <1>2 DEF Q!Reserve

LEMMA BudgetRequest ==
    ASSUME BudgetInv, NEW b \in Batcher, NEW answer \in Q!Answer, Q!Request(b, answer)
    PROVE  BudgetInv'
  <1> DEFINE c == batch[b].call
             x == [at |-> "answered", todo |-> batch[b].todo, house |-> batch[b].house,
                   call |-> c, answer |-> answer]
  <1>0. Q!TypeOK /\ batch[b].at = "reserved" /\ UNCHANGED <<paid, worth, fruitless>>
    BY DEF Q!Request, BudgetInv, Q!BudgetSound
  <1>1. \A d \in Batcher : batch[d] \in Q!Batch
    BY <1>0 DEF Q!TypeOK
  <1>2. batch[b].todo \subseteq House /\ batch[b].house \in House /\ c \in Purchase
    BY <1>0, <1>1, BatchFields DEF Holding
  <1>3. /\ x \in Q!Batch /\ x.at = "answered" /\ x.house = batch[b].house /\ x.call = c
    <2>1. x \in [at : {"answered"}, todo : SUBSET House, house : House, call : Purchase,
                 answer : Q!Answer]
      BY <1>2
    <2>2. QED
      BY <2>1 DEF Q!Batch
  <1>4. /\ charged[c] = 0 /\ paid[c].outcome = "reserved" /\ paid[c].house = batch[b].house
    BY <1>0 DEF BudgetInv, HeldIsOpen, Holding
  <1>5. batch' = [batch EXCEPT ![b] = x]
    BY DEF Q!Request
  <1>6. \A e \in Purchase : charged'[e] = IF e = c THEN 1 ELSE charged[e]
    <2>1. charged' = [charged EXCEPT ![c] = Q!Least(charged[c] + 1, 2)]
      BY DEF Q!Request
    <2>2. Q!Least(charged[c] + 1, 2) = 1
      BY <1>4 DEF Q!Least
    <2>3. charged' = [charged EXCEPT ![c] = 1]
      BY <2>1, <2>2
    <2>4. QED
      BY <1>0, <2>3 DEF Q!TypeOK
  <1>7. charged' \in [Purchase -> 0 .. 2]
    <2>1. DOMAIN charged' = Purchase /\ charged' = [e \in DOMAIN charged' |-> charged'[e]]
      BY <1>0 DEF Q!TypeOK, Q!Request
    <2>2. \A e \in Purchase : charged'[e] \in 0 .. 2
      BY <1>0, <1>6 DEF Q!TypeOK
    <2>3. QED
      BY <2>1, <2>2
  <1> HIDE DEF x, c
  <1>8. Q!TypeOK'
    BY <1>0, <1>3, <1>5, <1>7 DEF Q!TypeOK
  <1>9. \A d \in Batcher : batch'[d] = IF d = b THEN x ELSE batch[d]
    BY <1>0, <1>5 DEF Q!TypeOK
  <1>10. \A d \in Batcher : d # b /\ batch[d].at \in Holding =>
             batch[d].call # c /\ batch[d].call \in Purchase
    BY <1>0, <1>1, BatchFields DEF BudgetInv, HeldAlone, Holding, c
  <1>11. HeldAlone'
    BY <1>3, <1>9, <1>10 DEF BudgetInv, HeldAlone
  <1>12. HeldIsOpen'
    <2>1. ASSUME NEW d \in Batcher, batch'[d].at \in Holding
          PROVE  /\ paid'[batch'[d].call].outcome = "reserved"
                 /\ paid'[batch'[d].call].house = batch'[d].house
                 /\ charged'[batch'[d].call] = IF batch'[d].at = "answered" THEN 1 ELSE 0
      <3>1. CASE d = b
        BY <1>0, <1>2, <1>3, <1>4, <1>6, <1>9, <3>1 DEF c
      <3>2. CASE d # b
        <4>1. batch'[d] = batch[d] /\ charged'[batch[d].call] = charged[batch[d].call]
          BY <1>6, <1>9, <1>10, <2>1, <3>2
        <4>2. QED
          BY <1>0, <2>1, <4>1 DEF BudgetInv, HeldIsOpen
      <3>3. QED
        BY <3>1, <3>2
    <2>2. QED
      BY <2>1 DEF HeldIsOpen
  <1>13. \A k : PaidFor(k) => PaidFor(k)'
    BY <1>0, <1>6 DEF PaidFor
  <1>14. SavedWasPaid'
    <2>1. \A d \in Batcher : batch'[d].at = "saving" => d # b /\ batch'[d] = batch[d]
      BY <1>3, <1>9
    <2>2. QED
      BY <1>13, <2>1 DEF BudgetInv, SavedWasPaid
  <1>15. Q!RecordedWasPaid'
    BY <1>0, <1>13 DEF BudgetInv, Q!BudgetSound, Q!RecordedWasPaid, PaidFor
  <1>16. Q!ReservedRequests'
    <2>1. paid[c] # Q!NoPaid
      BY <1>4 DEF Q!NoPaid
    <2>2. QED
      BY <1>0, <1>6, <2>1 DEF BudgetInv, Q!BudgetSound, Q!ReservedRequests
  <1>17. Q!InWindow' = Q!InWindow
    BY <1>0 DEF Q!InWindow
  <1>18. Q!WithinBudget' /\ IsFiniteSet(Q!InWindow)'
    BY <1>17 DEF BudgetInv, Q!BudgetSound, Q!WithinBudget, Q!Used
  <1>19. QED
    BY <1>8, <1>11, <1>12, <1>14, <1>15, <1>16, <1>18 DEF BudgetInv, Q!BudgetSound

\* An answer that cannot be saved is dropped, and its reservation stays as it is.
LEMMA BudgetDrop ==
    ASSUME BudgetInv, NEW b \in Batcher, Q!Finish(b, FALSE) PROVE BudgetInv'
  <1> DEFINE x == Q!Continues(batch[b].todo)
  <1>1. batch[b].todo \in SUBSET House
    BY BatchFields DEF Q!Finish, BudgetInv, Q!BudgetSound, Q!TypeOK
  <1>2. x \in Q!Batch /\ x.at \notin Holding /\ x.at # "saving"
    BY <1>1, Continued DEF Holding
  <1>3. batch' = [batch EXCEPT ![b] = x] /\ UNCHANGED <<paid, worth, fruitless, charged>>
    BY DEF Q!Finish
  <1>4. \A h \in worth' \cup fruitless' : PaidFor(h)
    BY <1>3 DEF BudgetInv, Q!BudgetSound, Q!RecordedWasPaid, PaidFor
  <1>5. worth' \subseteq House /\ fruitless' \subseteq House
    BY <1>3 DEF BudgetInv, Q!BudgetSound, Q!TypeOK
  <1> HIDE DEF x
  <1>6. QED
    BY <1>2, <1>3, <1>4, <1>5, BatchLeaves

LEMMA BudgetFinish ==
    ASSUME BudgetInv, NEW b \in Batcher, Q!Finish(b, TRUE) PROVE BudgetInv'
  <1> DEFINE c == batch[b].call
             answer == batch[b].answer
             outcome == Q!OutcomeOf(answer)
             row == [paid[c] EXCEPT !.outcome = outcome]
             saving == [at |-> "saving", todo |-> batch[b].todo, house |-> batch[b].house,
                        found |-> answer = "ok"]
             x == IF answer \in {"ok", "no_data"} THEN saving
                  ELSE IF answer = "refused" THEN Q!NoBatch ELSE Q!Continues(batch[b].todo)
  <1>0. Q!TypeOK /\ batch[b].at = "answered" /\ UNCHANGED <<worth, fruitless, charged>>
    BY DEF Q!Finish, BudgetInv, Q!BudgetSound
  <1>1. \A d \in Batcher : batch[d] \in Q!Batch
    BY <1>0 DEF Q!TypeOK
  <1>2. /\ batch[b].todo \in SUBSET House /\ batch[b].house \in House
        /\ c \in Purchase /\ answer \in Q!Answer
    BY <1>0, <1>1, BatchFields DEF Holding
  <1>3. charged[c] = 1 /\ paid[c].outcome = "reserved" /\ paid[c].house = batch[b].house
    BY <1>0 DEF BudgetInv, HeldIsOpen, Holding
  <1>4. /\ outcome \in {"ok", "no_data", "error"}
        /\ answer \in {"ok", "no_data"} => outcome \in {"ok", "no_data"}
    BY DEF Q!OutcomeOf
  <1>5. /\ row \in Q!Paid /\ row # Q!NoPaid /\ paid[c] # Q!NoPaid
        /\ row.outcome = outcome /\ row.house = paid[c].house /\ row.left = paid[c].left
    <2>1. paid[c] \in Q!Paid /\ paid[c] # Q!NoPaid
      BY <1>0, <1>2, <1>3 DEF Q!TypeOK, Q!NoPaid
    <2>2. paid[c] \in [outcome : Q!Outcome, house : House, left : 0 .. Window]
      BY <2>1, RowFields
    <2>3. outcome \in Q!Outcome /\ outcome # "none"
      BY <1>4 DEF Q!Outcome
    <2> HIDE DEF outcome
    <2>4. /\ row \in [outcome : Q!Outcome, house : House, left : 0 .. Window]
          /\ row.outcome = outcome /\ row.house = paid[c].house /\ row.left = paid[c].left
      BY <2>2, <2>3
    <2>5. row \in Q!Paid
      BY <2>4 DEF Q!Paid
    <2>6. row # Q!NoPaid
      BY <2>3, <2>4 DEF Q!NoPaid
    <2>7. QED
      BY <2>1, <2>4, <2>5, <2>6
  <1>6. paid' = [paid EXCEPT ![c] = row]
    BY <1>3 DEF Q!Finish
  <1>7. batch' = [batch EXCEPT ![b] = x]
    BY DEF Q!Finish
  <1>8. /\ x \in Q!Batch /\ x.at \notin Holding
        /\ x.at = "saving" => x.house = batch[b].house /\ outcome \in {"ok", "no_data"}
    <2>1. CASE answer \in {"ok", "no_data"}
      <3>1. saving \in [at : {"saving"}, todo : SUBSET House, house : House, found : BOOLEAN]
        <4>1. (answer = "ok") \in BOOLEAN
          OBVIOUS
        <4> DEFINE found == answer = "ok"
        <4>2. found \in BOOLEAN
          BY <4>1
        <4> HIDE DEF found
        <4>3. [at |-> "saving", todo |-> batch[b].todo, house |-> batch[b].house, found |-> found]
              \in [at : {"saving"}, todo : SUBSET House, house : House, found : BOOLEAN]
          BY <1>2, <4>2
        <4>4. QED
          BY <4>3 DEF found
      <3>2. x = saving
        BY <2>1
      <3>3. saving \in Q!Batch /\ saving.at = "saving" /\ saving.house = batch[b].house
        BY <3>1 DEF Q!Batch
      <3>4. QED
        BY <1>4, <2>1, <3>2, <3>3 DEF Holding
    <2>2. CASE answer \notin {"ok", "no_data"}
      BY <1>2, <2>2, Continued DEF Q!NoBatch, Q!Batch, Holding
    <2>3. QED
      BY <2>1, <2>2
  <1> HIDE DEF x, row, outcome, answer, c
  <1>9. Q!TypeOK'
    BY <1>0, <1>5, <1>6, <1>7, <1>8 DEF Q!TypeOK
  <1>10. \A d \in Batcher : batch'[d] = IF d = b THEN x ELSE batch[d]
    BY <1>0, <1>7 DEF Q!TypeOK
  <1>11. \A e \in Purchase : paid'[e] = IF e = c THEN row ELSE paid[e]
    BY <1>0, <1>6 DEF Q!TypeOK
  <1>12. \A d \in Batcher : d # b /\ batch[d].at \in Holding =>
             batch[d].call # c /\ batch[d].call \in Purchase
    BY <1>0, <1>1, BatchFields DEF BudgetInv, HeldAlone, Holding, c
  <1>13. HeldAlone'
    BY <1>8, <1>10 DEF BudgetInv, HeldAlone
  <1>14. HeldIsOpen'
    <2>1. ASSUME NEW d \in Batcher, batch'[d].at \in Holding
          PROVE  /\ paid'[batch'[d].call].outcome = "reserved"
                 /\ paid'[batch'[d].call].house = batch'[d].house
                 /\ charged'[batch'[d].call] = IF batch'[d].at = "answered" THEN 1 ELSE 0
      <3>1. d # b /\ batch'[d] = batch[d]
        BY <1>8, <1>10, <2>1
      <3>2. paid'[batch[d].call] = paid[batch[d].call]
        BY <1>11, <1>12, <2>1, <3>1
      <3>3. QED
        BY <1>0, <2>1, <3>1, <3>2 DEF BudgetInv, HeldIsOpen
    <2>2. QED
      BY <2>1 DEF HeldIsOpen
  <1>15. \A k : PaidFor(k) => PaidFor(k)'
    BY <1>0, <1>3, <1>11 DEF PaidFor
  <1>16. SavedWasPaid'
    <2>1. ASSUME NEW d \in Batcher, batch'[d].at = "saving" PROVE PaidFor(batch[d].house)'
      <3>1. CASE d = b
        BY <1>0, <1>2, <1>3, <1>5, <1>8, <1>10, <1>11, <2>1, <3>1 DEF PaidFor
      <3>2. CASE d # b
        <4>1. batch'[d] = batch[d] /\ PaidFor(batch[d].house)
          BY <1>10, <2>1, <3>2 DEF BudgetInv, SavedWasPaid
        <4>2. QED
          BY <1>0, <1>3, <1>11, <4>1 DEF PaidFor
      <3>3. QED
        BY <3>1, <3>2
    <2>2. QED
      BY <2>1 DEF SavedWasPaid
  <1>17. Q!RecordedWasPaid'
    BY <1>0, <1>15 DEF BudgetInv, Q!BudgetSound, Q!RecordedWasPaid, PaidFor
  <1>18. Q!ReservedRequests'
    BY <1>0, <1>5, <1>11 DEF BudgetInv, Q!BudgetSound, Q!ReservedRequests
  <1>19. Q!InWindow' = Q!InWindow
    BY <1>5, <1>11 DEF Q!InWindow
  <1>20. Q!WithinBudget' /\ IsFiniteSet(Q!InWindow)'
    BY <1>19 DEF BudgetInv, Q!BudgetSound, Q!WithinBudget, Q!Used
  <1>21. QED
    BY <1>9, <1>13, <1>14, <1>16, <1>17, <1>18, <1>20 DEF BudgetInv, Q!BudgetSound

\* A day less: rows only leave the window.
LEMMA BudgetTick == ASSUME BudgetInv, Q!Tick PROVE BudgetInv'
  <1>0. Q!TypeOK /\ UNCHANGED <<worth, fruitless, batch, charged>>
    BY DEF Q!Tick, BudgetInv, Q!BudgetSound
  <1>1. ASSUME NEW c \in Purchase
        PROVE  /\ paid'[c] \in Q!Paid
               /\ paid'[c] = Q!NoPaid <=> paid[c] = Q!NoPaid
               /\ paid'[c].outcome = paid[c].outcome /\ paid'[c].house = paid[c].house
               /\ c \in Q!InWindow' => c \in Q!InWindow
    <2>1. CASE c \notin Q!InWindow
      <3>1. paid'[c] = paid[c]
        BY <2>1 DEF Q!Tick
      <3>2. QED
        BY <1>0, <2>1, <3>1 DEF Q!TypeOK, Q!InWindow
    <2>2. CASE c \in Q!InWindow
      <3> DEFINE row == [paid[c] EXCEPT !.left = paid[c].left - 1]
      <3>1. paid'[c] = row
        BY <2>2 DEF Q!Tick
      <3>2. paid[c] \in [outcome : Q!Outcome, house : House, left : 0 .. Window] /\ paid[c].left > 0
        BY <1>0, <2>2, RowFields DEF Q!TypeOK, Q!InWindow
      <3>3. Window \in Nat
        <4>1. Q!BudgetAssumption
          BY RecordsAssumption
        <4>2. QED
          BY <4>1 DEF Q!BudgetAssumption
      <3>4. paid[c].left - 1 \in 0 .. Window
        BY <3>2, <3>3
      <3>5. /\ row \in [outcome : Q!Outcome, house : House, left : 0 .. Window]
            /\ row.outcome = paid[c].outcome /\ row.house = paid[c].house
        BY <3>2, <3>4
      <3>6. row \in Q!Paid
        BY <3>5 DEF Q!Paid
      <3>7. row # Q!NoPaid /\ paid[c] # Q!NoPaid
        BY <3>2, <3>5 DEF Q!NoPaid, Q!Outcome
      <3>8. QED
        BY <2>2, <3>1, <3>5, <3>6, <3>7
    <2>3. QED
      BY <2>1, <2>2
  <1>2. Q!TypeOK'
    <2>1. paid' = [c \in Purchase |-> paid'[c]]
      BY DEF Q!Tick
    <2>2. paid' \in [Purchase -> Q!Paid]
      BY <1>1, <2>1
    <2>3. QED
      BY <1>0, <2>2 DEF Q!TypeOK
  <1>3. HeldAlone'
    BY <1>0 DEF BudgetInv, HeldAlone
  <1>4. HeldIsOpen'
    <2>1. \A b \in Batcher : batch[b].at \in Holding => batch[b].call \in Purchase
      BY <1>0, BatchFields DEF Q!TypeOK
    <2>2. QED
      BY <1>0, <1>1, <2>1 DEF BudgetInv, HeldIsOpen
  <1>5. \A k : PaidFor(k) => PaidFor(k)'
    BY <1>0, <1>1 DEF PaidFor
  <1>6. SavedWasPaid'
    BY <1>0, <1>5 DEF BudgetInv, SavedWasPaid
  <1>7. Q!RecordedWasPaid'
    BY <1>0, <1>5 DEF BudgetInv, Q!BudgetSound, Q!RecordedWasPaid, PaidFor
  <1>8. Q!ReservedRequests'
    BY <1>0, <1>1 DEF BudgetInv, Q!BudgetSound, Q!ReservedRequests
  <1>9. Q!InWindow' \subseteq Q!InWindow
    BY <1>1 DEF Q!InWindow
  <1>10. /\ IsFiniteSet(Q!InWindow') /\ Cardinality(Q!InWindow') <= Cardinality(Q!InWindow)
         /\ Cardinality(Q!InWindow') \in Nat /\ Cardinality(Q!InWindow) \in Nat
    BY <1>9, FS_Subset, FS_CardinalityType DEF BudgetInv
  <1>11. Q!WithinBudget'
    <2>1. Q!Least(Cap, HardCap) \in Nat
      <3>1. Q!BudgetAssumption
        BY RecordsAssumption
      <3>2. QED
        BY <3>1 DEF Q!BudgetAssumption, Q!Least
    <2>2. Q!Used = Cardinality(Q!InWindow) /\ Q!Used' = Cardinality(Q!InWindow')
      BY SameCardinality DEF Q!Used
    <2>3. QED
      BY <1>10, <2>1, <2>2 DEF BudgetInv, Q!BudgetSound, Q!WithinBudget
  <1>12. QED
    BY <1>2, <1>3, <1>4, <1>6, <1>7, <1>8, <1>10, <1>11 DEF BudgetInv, Q!BudgetSound

LEMMA BudgetStep == ASSUME BudgetInv, Q!Next PROVE BudgetInv'
  <1>1. CASE Q!Tick
    BY <1>1, BudgetTick
  <1>2. CASE \E b \in Batcher : Q!Start(b) \/ Q!Crash(b)
    BY <1>2, BudgetStart, BudgetCrash
  <1>3. CASE \E b \in Batcher, h \in House : Q!Reserve(b, h)
    BY <1>3, BudgetReserve
  <1>4. CASE \E b \in Batcher, answer \in Q!Answer : Q!Request(b, answer)
    BY <1>4, BudgetRequest
  <1>5. CASE \E b \in Batcher : Q!Finish(b, TRUE) \/ Q!Finish(b, FALSE)
    BY <1>5, BudgetFinish, BudgetDrop
  <1>6. CASE \E b \in Batcher, saved \in BOOLEAN : Q!Save(b, saved)
    BY <1>6, BudgetSave
  <1>7. QED
    <2>1. \A b \in Batcher, saved \in BOOLEAN : Q!Finish(b, saved) =>
              Q!Finish(b, TRUE) \/ Q!Finish(b, FALSE)
      <3> TAKE b \in Batcher
      <3>1. ASSUME NEW saved \in BOOLEAN, Q!Finish(b, saved)
            PROVE  Q!Finish(b, TRUE) \/ Q!Finish(b, FALSE)
        <4>1. saved = TRUE \/ saved = FALSE
          OBVIOUS
        <4>2. CASE saved = TRUE
          BY <3>1, <4>2
        <4>3. CASE saved = FALSE
          BY <3>1, <4>3
        <4>4. QED
          BY <4>1, <4>2, <4>3
      <3>2. QED
        BY <3>1
    <2>2. QED
      BY <1>1, <1>2, <1>3, <1>4, <1>5, <1>6, <2>1 DEF Q!Next

(***************************************************************************)
(* PriceReviews.  A row goes from none to pending to its answer and never  *)
(* back, so that the desk which finds it pending is the first to decide it,*)
(* and what it shows is what was decided.                                  *)
(***************************************************************************)
Waits(r) == P!Pending(r) /\ P!InTime(r)
OneWaits == \A r, q \in Question : Waits(r) /\ Waits(q) => r = q

DecidedIsAnswered == \A d \in decided : approval[d.review].status \in {"approved", "rejected"}

Backs(d, r) ==
    /\ d.review = r /\ d.verdict.status = "approved"
    /\ d.house = approval[r].house /\ d.verdict.price = approval[r].price
ApprovalWasDecided ==
    \A r \in Question :
        approval[r].status = "approved" /\ approval[r].price > 0 => \E d \in decided : Backs(d, r)

DeskSound(x) ==
    /\ x.at # "idle" => approval[x.review].status # "none"
    /\ x.at = "checked" /\ P!Pending(x.review) => x.shown = x.house
DesksSound == \A o \in Operator : DeskSound(desk[o])

ReviewInv ==
    /\ P!ReviewsSound /\ OneWaits /\ DecidedIsAnswered /\ ApprovalWasDecided /\ DesksSound

LEMMA ReviewBounds ==
    /\ Question \subseteq Nat \ {0} /\ Price \subseteq Nat \ {0} /\ NoProperty \notin Property
    /\ ReviewTime \in Nat \ {0} /\ MaxChanges \in Nat
  <1>1. P!ReviewAssumption
    BY RecordsAssumption
  <1>2. QED
    BY <1>1 DEF P!ReviewAssumption

Status == {"none", "pending", "approved", "rejected"}
AnyRow == [status : Status, left : 0 .. ReviewTime, house : Property \cup {NoProperty},
           price : Price \cup {0}]

LEMMA ReviewRows ==
    /\ \A x \in P!Row : x \in AnyRow /\ (x = P!NoRow <=> x.status = "none")
    /\ \A x \in AnyRow : x.status # "none" => x \in P!Row
    /\ P!NoRow \in P!Row /\ P!NoRow.status = "none" /\ P!NoRow.left = 0
  <1>1. P!NoRow \in AnyRow
    <2>1. 0 \in 0 .. ReviewTime
      BY ReviewBounds
    <2>2. QED
      BY <2>1 DEF P!NoRow, AnyRow, Status
  <1>2. QED
    BY <1>1 DEF P!Row, P!NoRow, AnyRow, Status

LEMMA DeskFields ==
    ASSUME NEW x \in P!Desk
    PROVE  /\ x.at \in {"idle", "shown", "checked", "read", "bound"}
           /\ x.at = "idle" <=> x = P!AtDesk
           /\ x.at # "idle" => x.review \in Question
           /\ x.at \in {"shown", "checked"} => x.house \in Property
           /\ x.at = "checked" => x.shown \in Property
           /\ x.at = "bound" => x.house \in Property \cup {NoProperty}
  BY DEF P!Desk, P!AtDesk

LEMMA CallerFields ==
    ASSUME NEW x \in P!Caller
    PROVE  /\ x.at \in {"idle", "lead", "rows"}
           /\ x.at # "idle" => x.pass \in 1 .. 3
           /\ x.at = "rows" => x.house \in Property
  BY DEF P!Caller, P!Quiet

LEMMA AtMostOne ==
    ASSUME NEW W, \A r, q \in W : r = q PROVE IsFiniteSet(W) /\ Cardinality(W) <= 1
  <1>1. CASE W = {}
    BY <1>1, FS_EmptySet
  <1>2. CASE W # {}
    <2>1. PICK r \in W : TRUE
      BY <1>2
    <2>2. W = {r}
      BY <2>1
    <2>3. IsFiniteSet({r}) /\ Cardinality({r}) = 1
      BY FS_Singleton
    <2>4. QED
      BY <2>2, <2>3
  <1>3. QED
    BY <1>1, <1>2

\* One request waits: the set of those that wait has one element or none.
LEMMA OneIsPending == (OneWaits => P!OnePending) /\ (OneWaits' => P!OnePending')
  <1>1. ASSUME NEW W, W = {r \in Question : P!Pending(r) /\ P!InTime(r)}, OneWaits
        PROVE  P!OnePending
    <2>1. \A r, q \in W : r = q
      BY <1>1 DEF OneWaits, Waits
    <2>2. Cardinality(W) <= 1
      BY <2>1, AtMostOne
    <2>3. QED
      BY <1>1, <2>2, SameCardinality DEF P!OnePending
  <1>2. ASSUME NEW W, W = {r \in Question : (P!Pending(r) /\ P!InTime(r))'}, OneWaits'
        PROVE  P!OnePending'
    <2>1. \A r, q \in W : r = q
      BY <1>2 DEF OneWaits, Waits
    <2>2. Cardinality(W) <= 1
      BY <2>1, AtMostOne
    <2>3. QED
      BY <1>2, <2>2, SameCardinality DEF P!OnePending
  <1>3. QED
    BY <1>1, <1>2

LEMMA ReviewInit == P!Init => ReviewInv
  <1> SUFFICES ASSUME P!Init PROVE ReviewInv
    OBVIOUS
  <1>1. \A r \in Question : approval[r] = P!NoRow
    BY DEF P!Init
  <1>2. P!TypeOK
    <2>1. P!AtDesk \in P!Desk /\ P!Quiet \in P!Caller /\ 0 \in 0 .. MaxChanges
      BY ReviewBounds DEF P!Desk, P!Caller
    <2>2. QED
      BY <2>1, ReviewRows DEF P!Init, P!TypeOK
  <1>3. OneWaits /\ ApprovalWasDecided
    BY <1>1, ReviewRows DEF OneWaits, Waits, P!Pending, ApprovalWasDecided
  <1>4. DecidedIsAnswered /\ P!DecidedOnce /\ P!DecidedAsShown /\ P!QuotedWasApproved
    BY DEF P!Init, DecidedIsAnswered, P!DecidedOnce, P!DecidedAsShown, P!QuotedWasApproved
  <1>5. DesksSound
    BY DEF P!Init, DesksSound, DeskSound, P!AtDesk
  <1>6. QED
    BY <1>2, <1>3, <1>4, <1>5, OneIsPending DEF ReviewInv, P!ReviewsSound

\* A step that decides nothing and changes no row.
LEMMA NoRowChanges ==
    ASSUME ReviewInv, UNCHANGED <<approval, decided>>, P!TypeOK', DesksSound',
           P!QuotedWasApproved'
    PROVE  ReviewInv'
  <1>1. OneWaits' /\ DecidedIsAnswered' /\ P!DecidedOnce' /\ P!DecidedAsShown'
    BY DEF ReviewInv, P!ReviewsSound, OneWaits, Waits, P!Pending, P!InTime, DecidedIsAnswered,
       P!DecidedOnce, P!DecidedAsShown
  <1>2. ApprovalWasDecided'
    BY DEF ReviewInv, ApprovalWasDecided, Backs
  <1>3. P!OnePending'
    BY DEF ReviewInv, P!ReviewsSound, P!OnePending, P!Pending, P!InTime
  <1>4. QED
    BY <1>1, <1>2, <1>3 DEF ReviewInv, P!ReviewsSound

\* One desk turns to x.
LEMMA DeskTurns ==
    ASSUME ReviewInv, NEW o \in Operator, NEW x \in P!Desk, DeskSound(x),
           desk' = [desk EXCEPT ![o] = x],
           UNCHANGED <<house, changes, stopped, approval, caller, decided, quoted>>
    PROVE  ReviewInv'
  <1>1. P!TypeOK'
    BY DEF ReviewInv, P!ReviewsSound, P!TypeOK
  <1>2. \A p \in Operator : desk'[p] = IF p = o THEN x ELSE desk[p]
    BY DEF ReviewInv, P!ReviewsSound, P!TypeOK
  <1>3. DesksSound'
    BY <1>2 DEF ReviewInv, DesksSound, DeskSound, P!Pending
  <1>4. P!QuotedWasApproved'
    BY DEF ReviewInv, P!ReviewsSound, P!QuotedWasApproved
  <1>5. QED
    BY <1>1, <1>3, <1>4, NoRowChanges

LEMMA ReviewShow ==
    ASSUME ReviewInv, NEW o \in Operator, NEW r \in Question, P!Show(o, r) \/ P!Read(o, r)
    PROVE  ReviewInv'
  <1>1. P!Pending(r) /\ approval[r].status # "none"
    BY DEF P!Show, P!Read, P!Pending
  <1>2. CASE P!Show(o, r)
    <2> DEFINE x == [at |-> "shown", review |-> r, house |-> house]
    <2>1. house \in Property
      BY <1>2 DEF P!Show, ReviewInv, P!ReviewsSound, P!TypeOK
    <2>2. x \in P!Desk /\ DeskSound(x)
      BY <1>1, <2>1 DEF P!Desk, DeskSound
    <2>3. /\ desk' = [desk EXCEPT ![o] = x]
          /\ UNCHANGED <<house, changes, stopped, approval, caller, decided, quoted>>
      BY <1>2 DEF P!Show
    <2> HIDE DEF x
    <2>4. QED
      BY <2>2, <2>3, DeskTurns
  <1>3. CASE P!Read(o, r)
    <2> DEFINE x == [at |-> "read", review |-> r]
    <2>1. x \in P!Desk /\ DeskSound(x)
      BY <1>1 DEF P!Desk, DeskSound
    <2>2. /\ desk' = [desk EXCEPT ![o] = x]
          /\ UNCHANGED <<house, changes, stopped, approval, caller, decided, quoted>>
      BY <1>3 DEF P!Read
    <2> HIDE DEF x
    <2>3. QED
      BY <2>1, <2>2, DeskTurns
  <1>4. QED
    BY <1>2, <1>3

LEMMA IdleDesk == P!AtDesk \in P!Desk /\ DeskSound(P!AtDesk)
  BY DEF P!AtDesk, P!Desk, DeskSound

LEMMA ReviewCheck ==
    ASSUME ReviewInv, NEW o \in Operator, P!Check(o) PROVE ReviewInv'
  <1>1. /\ desk[o] \in P!Desk /\ desk[o].at = "shown" /\ DeskSound(desk[o])
        /\ house \in Property \cup {NoProperty}
    BY DEF P!Check, ReviewInv, P!ReviewsSound, P!TypeOK, DesksSound
  <1>2. /\ desk[o].review \in Question /\ desk[o].house \in Property
        /\ approval[desk[o].review].status # "none"
    BY <1>1, DeskFields DEF DeskSound
  <1>3. UNCHANGED <<house, changes, stopped, approval, caller, decided, quoted>>
    BY DEF P!Check
  <1>4. CASE house = NoProperty \/ (P!Pending(desk[o].review) /\ house # desk[o].house)
    <2>1. desk' = [desk EXCEPT ![o] = P!AtDesk]
      BY <1>4 DEF P!Check
    <2>2. QED
      BY <1>3, <2>1, IdleDesk, DeskTurns
  <1>5. CASE ~(house = NoProperty \/ (P!Pending(desk[o].review) /\ house # desk[o].house))
    <2> DEFINE x == [at |-> "checked", review |-> desk[o].review, shown |-> desk[o].house,
                     house |-> house]
    <2>1. x \in P!Desk /\ DeskSound(x)
      BY <1>1, <1>2, <1>5 DEF P!Desk, DeskSound
    <2>2. desk' = [desk EXCEPT ![o] = x]
      BY <1>5 DEF P!Check
    <2> HIDE DEF x
    <2>3. QED
      BY <1>3, <2>1, <2>2, DeskTurns
  <1>6. QED
    BY <1>4, <1>5

LEMMA ReviewBind ==
    ASSUME ReviewInv, NEW o \in Operator, NEW priced \in BOOLEAN, P!Bind(o, priced)
    PROVE  ReviewInv'
  <1>1. /\ desk[o] \in P!Desk /\ desk[o].at = "read" /\ DeskSound(desk[o])
        /\ house \in Property \cup {NoProperty}
    BY DEF P!Bind, ReviewInv, P!ReviewsSound, P!TypeOK, DesksSound
  <1>2. desk[o].review \in Question /\ approval[desk[o].review].status # "none"
    BY <1>1, DeskFields DEF DeskSound
  <1>3. UNCHANGED <<house, changes, stopped, approval, caller, decided, quoted>>
    BY DEF P!Bind
  <1>4. CASE priced /\ house = NoProperty
    <2>1. desk' = [desk EXCEPT ![o] = P!AtDesk]
      BY <1>4 DEF P!Bind
    <2>2. QED
      BY <1>3, <2>1, IdleDesk, DeskTurns
  <1>5. CASE ~(priced /\ house = NoProperty)
    <2> DEFINE x == [at |-> "bound", review |-> desk[o].review, house |-> house,
                     priced |-> priced]
    <2>1. x \in P!Desk
      BY <1>1, <1>2 DEF P!Desk
    <2>2. DeskSound(x)
      BY <1>2 DEF DeskSound
    <2>3. desk' = [desk EXCEPT ![o] = x]
      BY <1>5 DEF P!Bind
    <2> HIDE DEF x
    <2>4. QED
      BY <1>3, <2>1, <2>2, <2>3, DeskTurns
  <1>6. QED
    BY <1>4, <1>5

\* The lead changes under the desks, which keep what they have read.
LEMMA ReviewLead ==
    ASSUME ReviewInv, (\E h \in Property \cup {NoProperty} : P!Relink(h)) \/ P!Stop
    PROVE  ReviewInv'
  <1>1. UNCHANGED <<approval, desk, caller, decided, quoted>>
    BY DEF P!Relink, P!Stop
  <1>2. P!TypeOK'
    <2>1. changes + 1 \in 0 .. MaxChanges /\ changes' = changes + 1
      BY ReviewBounds DEF P!Relink, P!Stop, ReviewInv, P!ReviewsSound, P!TypeOK
    <2>2. house' \in Property \cup {NoProperty} /\ stopped' \in BOOLEAN
      BY DEF P!Relink, P!Stop, ReviewInv, P!ReviewsSound, P!TypeOK
    <2>3. QED
      BY <1>1, <2>1, <2>2 DEF ReviewInv, P!ReviewsSound, P!TypeOK
  <1>3. DesksSound'
    BY <1>1 DEF ReviewInv, DesksSound, DeskSound, P!Pending
  <1>4. P!QuotedWasApproved'
    BY <1>1 DEF ReviewInv, P!ReviewsSound, P!QuotedWasApproved
  <1>5. QED
    BY <1>1, <1>2, <1>3, <1>4, NoRowChanges

LEMMA ReviewAsk == ASSUME ReviewInv, P!Ask PROVE ReviewInv'
  <1>1. /\ UNCHANGED <<house, changes, stopped, approval, desk, decided>> /\ quoted' = {}
        /\ caller' = [at |-> "lead", pass |-> 1]
    BY DEF P!Ask
  <1>2. P!TypeOK'
    BY <1>1 DEF ReviewInv, P!ReviewsSound, P!TypeOK, P!Caller
  <1>3. DesksSound' /\ P!QuotedWasApproved'
    BY <1>1 DEF ReviewInv, DesksSound, DeskSound, P!Pending, P!QuotedWasApproved
  <1>4. QED
    BY <1>1, <1>2, <1>3, NoRowChanges

LEMMA ReviewReadLead == ASSUME ReviewInv, P!ReadLead PROVE ReviewInv'
  <1>1. UNCHANGED <<house, changes, stopped, approval, desk, decided, quoted>>
    BY DEF P!ReadLead
  <1>2. caller' \in P!Caller
    <2>1. caller.pass \in 1 .. 3
      BY CallerFields DEF P!ReadLead, ReviewInv, P!ReviewsSound, P!TypeOK
    <2>2. house \in Property \cup {NoProperty}
      BY DEF ReviewInv, P!ReviewsSound, P!TypeOK
    <2>3. QED
      BY <2>1, <2>2 DEF P!ReadLead, P!Caller
  <1>3. P!TypeOK'
    BY <1>1, <1>2 DEF ReviewInv, P!ReviewsSound, P!TypeOK
  <1>4. DesksSound' /\ P!QuotedWasApproved'
    BY <1>1 DEF ReviewInv, P!ReviewsSound, DesksSound, DeskSound, P!Pending, P!QuotedWasApproved
  <1>5. QED
    BY <1>1, <1>3, <1>4, NoRowChanges

\* The tool ends without an approval: it may file a request, when none waits.
LEMMA ReviewRequest ==
    ASSUME ReviewInv, P!Request, caller' \in P!Caller,
           UNCHANGED <<house, changes, stopped, desk, decided, quoted>>
    PROVE  ReviewInv'
  <1>1. CASE UNCHANGED approval
    <2>1. P!TypeOK'
      BY <1>1 DEF ReviewInv, P!ReviewsSound, P!TypeOK
    <2>2. DesksSound' /\ P!QuotedWasApproved'
      BY <1>1 DEF ReviewInv, P!ReviewsSound, DesksSound, DeskSound, P!Pending, P!QuotedWasApproved
    <2>3. QED
      BY <1>1, <2>1, <2>2, NoRowChanges
  <1>2. CASE ~(UNCHANGED approval)
    <2> DEFINE row == [P!NoRow EXCEPT !.status = "pending", !.left = ReviewTime]
    <2>1. PICK r \in Question : approval[r] = P!NoRow /\ approval' = [approval EXCEPT ![r] = row]
      BY <1>2 DEF P!Request
    <2>2. ~P!Waiting
      BY <1>2 DEF P!Request
    <2>3. row \in P!Row /\ row.status = "pending"
      <3>1. ReviewTime \in 0 .. ReviewTime
        BY ReviewBounds
      <3>2. row \in AnyRow /\ row.status = "pending"
        BY <3>1 DEF AnyRow, P!NoRow, Status
      <3>3. QED
        BY <3>2, ReviewRows
    <2> HIDE DEF row
    <2>4. P!TypeOK'
      BY <2>1, <2>3 DEF ReviewInv, P!ReviewsSound, P!TypeOK
    <2>5. \A q \in Question : approval'[q] = IF q = r THEN row ELSE approval[q]
      BY <2>1 DEF ReviewInv, P!ReviewsSound, P!TypeOK
    <2>6. approval[r].status = "none"
      BY <2>1, ReviewRows
    <2>7. OneWaits'
      BY <2>2, <2>5 DEF OneWaits, Waits, P!Pending, P!InTime, P!Waiting
    <2>8. DecidedIsAnswered'
      <3>1. \A d \in decided : d.review # r /\ d.review \in Question
        BY <2>6 DEF ReviewInv, P!ReviewsSound, DecidedIsAnswered, P!TypeOK, P!Decision
      <3>2. QED
        BY <2>5, <3>1 DEF ReviewInv, DecidedIsAnswered
    <2>9. ApprovalWasDecided'
      BY <2>3, <2>5 DEF ReviewInv, ApprovalWasDecided, Backs
    <2>10. DesksSound'
      <3>1. \A o \in Operator : desk[o] \in P!Desk
        BY DEF ReviewInv, P!ReviewsSound, P!TypeOK
      <3>2. \A o \in Operator : desk[o].at # "idle" => desk[o].review # r /\ desk[o].review \in Question
        BY <2>6, <3>1, DeskFields DEF ReviewInv, DesksSound, DeskSound
      <3>3. \A o \in Operator : DeskSound(desk[o])'
        BY <2>5, <3>2 DEF ReviewInv, DesksSound, DeskSound, P!Pending
      <3>4. QED
        BY <3>3 DEF DesksSound
    <2>11. P!DecidedOnce' /\ P!DecidedAsShown' /\ P!QuotedWasApproved'
      BY DEF ReviewInv, P!ReviewsSound, P!DecidedOnce, P!DecidedAsShown, P!QuotedWasApproved
    <2>12. P!OnePending'
      BY <2>7, OneIsPending
    <2>13. QED
      BY <2>4, <2>7, <2>8, <2>9, <2>10, <2>11, <2>12 DEF ReviewInv, P!ReviewsSound
  <1>3. QED
    BY <1>1, <1>2

LEMMA ReviewReadRows == ASSUME ReviewInv, P!ReadRows PROVE ReviewInv'
  <1>1. /\ caller.at = "rows" /\ caller \in P!Caller
        /\ UNCHANGED <<house, changes, stopped, desk, decided>>
    BY DEF P!ReadRows, ReviewInv, P!ReviewsSound, P!TypeOK
  <1>2. caller.pass \in 1 .. 3 /\ caller.house \in Property
    BY <1>1, CallerFields
  <1>3. P!Quiet \in P!Caller
    BY DEF P!Caller
  <1>4. PICK found \in {P!Approved(caller.house), {}} :
           IF found = {}
           THEN /\ caller' = P!Quiet /\ UNCHANGED quoted
                /\ IF caller.pass < 3 THEN P!Request ELSE UNCHANGED approval
           ELSE /\ UNCHANGED approval
                /\ IF caller.pass < 3
                   THEN caller' = [at |-> "lead", pass |-> caller.pass + 1] /\ UNCHANGED quoted
                   ELSE /\ caller' = P!Quiet
                        /\ quoted' = {[review |-> r, house |-> caller.house,
                                        price |-> approval[r].price] : r \in found}
    BY DEF P!ReadRows
  <1>5. CASE found = {}
    <2>1. P!Request /\ caller' \in P!Caller /\ UNCHANGED quoted
      BY <1>3, <1>4, <1>5 DEF P!Request
    <2>2. QED
      BY <1>1, <2>1, ReviewRequest
  <1>6. CASE found # {} /\ caller.pass < 3
    <2>1. UNCHANGED <<approval, quoted>> /\ caller' = [at |-> "lead", pass |-> caller.pass + 1]
      BY <1>4, <1>6
    <2>2. caller.pass + 1 \in 1 .. 3
      BY <1>2, <1>6
    <2>3. P!TypeOK'
      BY <1>1, <2>1, <2>2 DEF ReviewInv, P!ReviewsSound, P!TypeOK, P!Caller
    <2>4. DesksSound' /\ P!QuotedWasApproved'
      BY <1>1, <2>1 DEF ReviewInv, P!ReviewsSound, DesksSound, DeskSound, P!Pending,
         P!QuotedWasApproved
    <2>5. QED
      BY <1>1, <2>1, <2>3, <2>4, NoRowChanges
  <1>7. CASE found # {} /\ ~(caller.pass < 3)
    <2>1. UNCHANGED approval /\ caller' = P!Quiet /\ found = P!Approved(caller.house)
      BY <1>4, <1>7
    <2>2. quoted' = {[review |-> r, house |-> caller.house, price |-> approval[r].price] : r \in found}
      BY <1>4, <1>7
    <2>3. \A r \in found : /\ r \in Question /\ approval[r].status = "approved"
                           /\ approval[r].house = caller.house /\ approval[r].price > 0
      BY <2>1 DEF P!Approved
    <2>4. \A q \in quoted' : \E r \in found :
              q.review = r /\ q.house = caller.house /\ q.price = approval[r].price
      BY <2>2
    <2>5. P!QuotedWasApproved'
      <3>1. ASSUME NEW q \in quoted'
            PROVE  \E d \in decided : /\ d.review = q.review /\ d.verdict.status = "approved"
                                      /\ d.house = q.house /\ d.verdict.price = q.price
        <4>1. PICK r \in found :
                  q.review = r /\ q.house = caller.house /\ q.price = approval[r].price
          BY <2>4
        <4>2. PICK d \in decided : Backs(d, r)
          BY <2>3 DEF ReviewInv, ApprovalWasDecided
        <4>3. QED
          BY <2>3, <4>1, <4>2 DEF Backs
      <3>2. QED
        BY <1>1, <3>1 DEF P!QuotedWasApproved
    <2>6. quoted' \subseteq P!Quote
      <3>1. \A r \in found : approval[r].price \in Price
        <4>1. \A r \in found : approval[r] \in P!Row
          BY <2>3 DEF ReviewInv, P!ReviewsSound, P!TypeOK
        <4>2. \A r \in found : approval[r] \in AnyRow
          BY <4>1, ReviewRows
        <4>3. QED
          BY <2>3, <4>2 DEF AnyRow
      <3>2. QED
        BY <1>2, <2>2, <2>3, <3>1 DEF P!Quote
    <2>7. P!TypeOK'
      BY <1>1, <1>3, <2>1, <2>6 DEF ReviewInv, P!ReviewsSound, P!TypeOK
    <2>8. DesksSound'
      BY <1>1, <2>1 DEF ReviewInv, DesksSound, DeskSound, P!Pending
    <2>9. QED
      BY <1>1, <2>1, <2>5, <2>7, <2>8, NoRowChanges
  <1>8. QED
    BY <1>5, <1>6, <1>7

\* An answer to a request that was pending, by the desk o, which then turns to x.
LEMMA ReviewDecide ==
    ASSUME ReviewInv, NEW o \in Operator, NEW r \in Question, NEW verdict \in P!DirectVerdict,
           NEW shown \in Property \cup {NoProperty}, NEW bound \in Property \cup {NoProperty},
           shown \in {NoProperty, bound}, P!Pending(r), P!Decide(o, r, verdict, shown, bound),
           NEW x \in P!Desk, x.at \in {"idle", "shown"}, x.at = "shown" => x.review = r,
           desk' = [desk EXCEPT ![o] = x], UNCHANGED <<house, changes, stopped, caller, quoted>>
    PROVE  ReviewInv'
  <1> DEFINE home == IF verdict.price > 0 THEN bound ELSE approval[r].house
             row == [approval[r] EXCEPT !.status = verdict.status, !.house = home,
                                        !.price = verdict.price]
             new == [review |-> r, operator |-> o, verdict |-> verdict, shown |-> shown,
                     house |-> bound]
  <1>0. P!TypeOK /\ approval[r] \in AnyRow /\ approval[r].status = "pending"
    BY ReviewRows DEF ReviewInv, P!ReviewsSound, P!TypeOK, P!Pending
  <1>1. /\ verdict.status \in {"approved", "rejected"} /\ verdict.price \in Price \cup {0}
        /\ verdict.status = "rejected" => verdict.price = 0
    BY DEF P!DirectVerdict, P!Verdict
  <1>2. /\ row \in P!Row /\ row.status = verdict.status /\ row.price = verdict.price
        /\ row.house = home
    <2>1. home \in Property \cup {NoProperty}
      BY <1>0 DEF AnyRow
    <2>2. verdict.status \in Status
      BY <1>1 DEF Status
    <2> HIDE DEF home
    <2>3. row \in AnyRow /\ row.status = verdict.status /\ row.price = verdict.price
          /\ row.house = home
      BY <1>0, <1>1, <2>1, <2>2 DEF AnyRow
    <2>4. row.status # "none"
      BY <1>1, <2>3
    <2>5. QED
      BY <2>3, <2>4, ReviewRows
  <1>3. home = bound \/ verdict.price = 0
    <2>1. \A price \in Price : price > 0
      BY ReviewBounds
    <2>2. verdict.price > 0 \/ verdict.price = 0
      BY <1>1, <2>1
    <2>3. CASE verdict.price > 0
      BY <2>3
    <2>4. QED
      BY <2>2, <2>3
  <1>4. approval' = [approval EXCEPT ![r] = row]
    BY DEF P!Decide
  <1>5. decided' = decided \cup {new}
    BY DEF P!Decide
  <1>6. /\ new \in P!Decision /\ new.review = r /\ new.verdict = verdict /\ new.house = bound
        /\ new.shown = shown
    BY DEF P!Decision
  <1> HIDE DEF new, row, home
  <1>7. P!TypeOK'
    BY <1>0, <1>2, <1>4, <1>5, <1>6 DEF P!TypeOK
  <1>8. \A q \in Question : approval'[q] = IF q = r THEN row ELSE approval[q]
    BY <1>0, <1>4 DEF P!TypeOK
  <1>9. \A p \in Operator : desk'[p] = IF p = o THEN x ELSE desk[p]
    BY <1>0 DEF P!TypeOK
  <1>10. \A d \in decided : d.review # r /\ d.review \in Question
    BY <1>0 DEF ReviewInv, DecidedIsAnswered, P!TypeOK, P!Decision
  <1>11. OneWaits'
    BY <1>1, <1>2, <1>8 DEF ReviewInv, OneWaits, Waits, P!Pending, P!InTime
  <1>12. DecidedIsAnswered'
    BY <1>1, <1>2, <1>5, <1>6, <1>8, <1>10 DEF ReviewInv, DecidedIsAnswered
  <1>13. ApprovalWasDecided'
    <2>1. ASSUME NEW q \in Question, approval'[q].status = "approved", approval'[q].price > 0
          PROVE  \E d \in decided' : Backs(d, q)'
      <3>1. CASE q = r
        <4>1. approval'[q] = row /\ row.status = "approved" /\ row.price > 0
          BY <1>8, <2>1, <3>1
        <4>2. row.house = bound
          <5>1. verdict.price # 0
            BY <1>2, <4>1
          <5>2. QED
            BY <1>2, <1>3, <5>1
        <4>3. Backs(new, q)'
          BY <1>2, <1>6, <3>1, <4>1, <4>2 DEF Backs
        <4>4. QED
          BY <1>5, <4>3
      <3>2. CASE q # r
        <4>1. approval'[q] = approval[q]
          BY <1>8, <3>2
        <4>2. PICK d \in decided : Backs(d, q)
          BY <2>1, <4>1 DEF ReviewInv, ApprovalWasDecided
        <4>3. QED
          BY <1>5, <4>1, <4>2 DEF Backs
      <3>3. QED
        BY <3>1, <3>2
    <2>2. QED
      BY <2>1 DEF ApprovalWasDecided
  <1>14. DesksSound'
    <2>1. ASSUME NEW p \in Operator PROVE DeskSound(desk[p])'
      <3>1. CASE p = o
        <4>1. x.at # "idle" => approval'[x.review].status # "none"
          BY <1>1, <1>2, <1>8
        <4>2. QED
          BY <1>9, <3>1, <4>1 DEF DeskSound
      <3>2. CASE p # o
        <4>1. desk[p] \in P!Desk /\ desk'[p] = desk[p]
          BY <1>0, <1>9, <3>2 DEF P!TypeOK
        <4>2. desk[p].at # "idle" => desk[p].review \in Question
          BY <4>1, DeskFields
        <4>3. desk[p].at # "idle" => approval'[desk[p].review].status # "none"
          BY <1>1, <1>2, <1>8, <4>2 DEF ReviewInv, DesksSound, DeskSound
        <4>4. desk[p].at # "idle" /\ approval'[desk[p].review].status = "pending"
                  => approval[desk[p].review].status = "pending"
          BY <1>0, <1>8, <4>2
        <4>5. desk[p].at = "checked" /\ approval'[desk[p].review].status = "pending"
                  => desk[p].shown = desk[p].house
          BY <4>4 DEF ReviewInv, DesksSound, DeskSound, P!Pending
        <4>6. QED
          BY <4>1, <4>3, <4>5 DEF DeskSound, P!Pending
      <3>3. QED
        BY <3>1, <3>2
    <2>2. QED
      BY <2>1 DEF DesksSound
  <1>15. P!DecidedOnce'
    BY <1>5, <1>6, <1>10 DEF ReviewInv, P!ReviewsSound, P!DecidedOnce
  <1>16. P!DecidedAsShown'
    BY <1>5, <1>6 DEF ReviewInv, P!ReviewsSound, P!DecidedAsShown
  <1>17. P!QuotedWasApproved'
    BY <1>5 DEF ReviewInv, P!ReviewsSound, P!QuotedWasApproved
  <1>18. QED
    BY <1>7, <1>11, <1>12, <1>13, <1>14, <1>15, <1>16, <1>17, OneIsPending
       DEF ReviewInv, P!ReviewsSound

LEMMA ReviewCommit ==
    ASSUME ReviewInv, NEW o \in Operator, NEW verdict \in P!Verdict, P!Commit(o, verdict)
    PROVE  ReviewInv'
  <1> DEFINE d == desk[o]
             r == d.review
             back == [at |-> "shown", review |-> r, house |-> d.shown]
  <1>1. d \in P!Desk /\ d.at = "checked" /\ DeskSound(d)
    BY DEF P!Commit, ReviewInv, P!ReviewsSound, P!TypeOK, DesksSound
  <1>2. r \in Question /\ d.house \in Property /\ d.shown \in Property
        /\ approval[r].status # "none"
    BY <1>1, DeskFields DEF DeskSound
  <1>3. UNCHANGED <<house, changes, stopped, caller, quoted>>
    BY DEF P!Commit
  <1>4. back \in P!Desk /\ back.at = "shown" /\ back.review = r /\ DeskSound(back)
    BY <1>2 DEF P!Desk, DeskSound
  <1>5. P!AtDesk.at = "idle"
    BY DEF P!AtDesk
  <1>6. PICK x \in {P!AtDesk, back} : desk' = [desk EXCEPT ![o] = x]
    BY DEF P!Commit
  <1>7. x \in P!Desk /\ DeskSound(x) /\ x.at \in {"idle", "shown"} /\ (x.at = "shown" => x.review = r)
    BY <1>4, <1>5, IdleDesk
  <1> HIDE DEF back
  <1>8. CASE P!Commits(o, verdict)
    <2>1. P!Decide(o, r, verdict, d.shown, d.house) /\ P!Pending(r)
      BY <1>8 DEF P!Commit, P!Commits
    <2>2. d.shown = d.house
      BY <1>1, <2>1 DEF DeskSound
    <2>3. verdict \in P!DirectVerdict
      BY DEF P!DirectVerdict
    <2>4. d.shown \in Property \cup {NoProperty} /\ d.house \in Property \cup {NoProperty}
          /\ d.shown \in {NoProperty, d.house}
      BY <1>2, <2>2
    <2> HIDE DEF d, r
    <2>5. r \in Question
      BY <1>2
    <2>6. QED
      BY <1>3, <1>6, <1>7, <2>1, <2>3, <2>4, <2>5, ReviewDecide
  <1>9. CASE ~P!Commits(o, verdict)
    <2>1. UNCHANGED <<approval, decided>>
      BY <1>9 DEF P!Commit
    <2>2. QED
      BY <1>3, <1>6, <1>7, <2>1, DeskTurns
  <1>10. QED
    BY <1>8, <1>9

LEMMA ReviewDirectCommit ==
    ASSUME ReviewInv, NEW o \in Operator, NEW verdict \in P!DirectVerdict,
           P!DirectCommit(o, verdict)
    PROVE  ReviewInv'
  <1> DEFINE d == desk[o]
             r == d.review
  <1>1. d \in P!Desk /\ d.at = "bound"
    BY DEF P!DirectCommit, ReviewInv, P!ReviewsSound, P!TypeOK
  <1>2. r \in Question /\ d.house \in Property \cup {NoProperty}
    BY <1>1, DeskFields
  <1>3. desk' = [desk EXCEPT ![o] = P!AtDesk] /\ UNCHANGED <<house, changes, stopped, caller, quoted>>
    BY DEF P!DirectCommit
  <1>4. CASE P!Pending(r)
    <2>1. P!Decide(o, r, verdict, NoProperty, d.house)
      BY <1>4 DEF P!DirectCommit
    <2>2. P!AtDesk.at = "idle" /\ NoProperty \in Property \cup {NoProperty}
      BY DEF P!AtDesk
    <2>3. P!AtDesk \in P!Desk /\ P!AtDesk.at \in {"idle", "shown"} /\ P!AtDesk.at # "shown"
          /\ NoProperty \in {NoProperty, d.house}
      BY <2>2, IdleDesk
    <2> HIDE DEF d, r
    <2>4. QED
      BY <1>2, <1>3, <1>4, <2>1, <2>2, <2>3, ReviewDecide
  <1>5. CASE ~P!Pending(r)
    <2>1. UNCHANGED <<approval, decided>>
      BY <1>5 DEF P!DirectCommit
    <2>2. QED
      BY <1>3, <2>1, IdleDesk, DeskTurns
  <1>6. QED
    BY <1>4, <1>5

\* A minute less: a request that waited may not wait any longer.
LEMMA ReviewTick == ASSUME ReviewInv, P!Tick PROVE ReviewInv'
  <1>0. P!TypeOK /\ UNCHANGED <<house, changes, stopped, desk, caller, decided, quoted>>
    BY DEF P!Tick, ReviewInv, P!ReviewsSound
  <1>1. ASSUME NEW r \in Question
        PROVE  /\ approval'[r] \in P!Row
               /\ approval'[r].status = approval[r].status
               /\ approval'[r].house = approval[r].house /\ approval'[r].price = approval[r].price
               /\ approval'[r].left > 0 => approval[r].left > 0
    <2>1. CASE ~P!InTime(r)
      <3>1. approval'[r] = approval[r]
        BY <2>1 DEF P!Tick
      <3>2. QED
        BY <1>0, <3>1 DEF P!TypeOK
    <2>2. CASE P!InTime(r)
      <3> DEFINE row == [approval[r] EXCEPT !.left = approval[r].left - 1]
      <3>1. approval'[r] = row
        BY <2>2 DEF P!Tick
      <3>2. /\ approval[r] \in AnyRow /\ approval[r].left > 0
            /\ approval[r] = P!NoRow <=> approval[r].status = "none"
        BY <1>0, <2>2, ReviewRows DEF P!TypeOK, P!InTime
      <3>3. approval[r].left - 1 \in 0 .. ReviewTime
        BY <3>2, ReviewBounds DEF AnyRow
      <3>4. /\ row \in AnyRow /\ row.status = approval[r].status
            /\ row.house = approval[r].house /\ row.price = approval[r].price
        BY <3>2, <3>3 DEF AnyRow
      <3>5. approval[r].status # "none"
        <4>1. approval[r] # P!NoRow
          BY <3>2, ReviewRows
        <4>2. QED
          BY <3>2, <4>1
      <3>6. row \in P!Row
        BY <3>4, <3>5, ReviewRows
      <3>7. QED
        BY <3>1, <3>2, <3>4, <3>6
    <2>3. QED
      BY <2>1, <2>2
  <1>2. P!TypeOK'
    <2>1. approval' = [r \in Question |-> approval'[r]]
      BY DEF P!Tick
    <2>2. approval' \in [Question -> P!Row]
      BY <1>1, <2>1
    <2>3. QED
      BY <1>0, <2>2 DEF P!TypeOK
  <1>3. OneWaits'
    BY <1>1 DEF ReviewInv, OneWaits, Waits, P!Pending, P!InTime
  <1>4. \A d \in decided : d.review \in Question
    BY <1>0 DEF P!TypeOK, P!Decision
  <1>5. DecidedIsAnswered'
    BY <1>0, <1>1, <1>4 DEF ReviewInv, DecidedIsAnswered
  <1>6. ApprovalWasDecided'
    BY <1>0, <1>1 DEF ReviewInv, ApprovalWasDecided, Backs
  <1>7. DesksSound'
    <2>1. \A o \in Operator : desk[o].at # "idle" => desk[o].review \in Question
      BY <1>0, DeskFields DEF P!TypeOK
    <2>2. \A o \in Operator : DeskSound(desk[o])'
      BY <1>0, <1>1, <2>1 DEF ReviewInv, DesksSound, DeskSound, P!Pending
    <2>3. QED
      BY <2>2 DEF DesksSound
  <1>8. P!DecidedOnce' /\ P!DecidedAsShown' /\ P!QuotedWasApproved'
    BY <1>0 DEF ReviewInv, P!ReviewsSound, P!DecidedOnce, P!DecidedAsShown, P!QuotedWasApproved
  <1>9. QED
    BY <1>2, <1>3, <1>5, <1>6, <1>7, <1>8, OneIsPending DEF ReviewInv, P!ReviewsSound

LEMMA ReviewStep == ASSUME ReviewInv, P!Next PROVE ReviewInv'
  BY ReviewAsk, ReviewReadLead, ReviewReadRows, ReviewShow, ReviewCheck, ReviewCommit, ReviewBind,
     ReviewDirectCommit, ReviewLead, ReviewTick DEF P!Next

(***************************************************************************)
(* LeadBookings.  What the part promises is inductive as it stands: the    *)
(* constraint keeps the calendar, one statement keeps calendar and lead    *)
(* together, and the receipt is written with the effect of its command.    *)
(***************************************************************************)
GuestRow == [version : Nat, appointment : Hour \cup {0}, flags : SUBSET B!Kind,
             walkthrough : B!Walkthrough, optedOut : BOOLEAN]

LEMMA NextVersion == ASSUME NEW g \in GuestRow PROVE g.version + 1 \in Nat
  BY DEF GuestRow

LEMMA BookingInit == B!Init => B!BookingsSound
  <1> SUFFICES ASSUME B!Init PROVE B!BookingsSound
    OBVIOUS
  <1>1. /\ 0 \in 0 .. LastHalfDay /\ B!Idle \in B!Job /\ "none" \in B!Walkthrough
        /\ \A l \in Guest : guest[l].appointment = 0
    <2>1. B!BookingAssumption
      BY RecordsAssumption
    <2>2. LastHalfDay \in Nat
      BY <2>1 DEF B!BookingAssumption
    <2>3. QED
      BY <2>2 DEF B!Init, B!Job, B!Walkthrough
  <1>2. guest \in [Guest -> GuestRow]
    <2>1. [version |-> 0, appointment |-> 0, flags |-> {}, walkthrough |-> "none",
           optedOut |-> FALSE] \in GuestRow
      BY <1>1 DEF GuestRow
    <2>2. QED
      BY <2>1 DEF B!Init
  <1>3. B!TypeOK
    BY <1>1, <1>2 DEF B!Init, B!TypeOK, GuestRow
  <1>4. B!NoDoubleBooking /\ B!ShownIsConfirmed /\ B!CommandOnce
    BY <1>1 DEF B!Init, B!NoDoubleBooking, B!ShownIsConfirmed, B!CommandOnce
  <1>5. QED
    BY <1>3, <1>4 DEF B!BookingsSound

\* Of two slots it does not matter which is asked first.
LEMMA OverlapIsMutual ==
    ASSUME NEW s \in Hour, NEW t \in Hour, NEW length, NEW other, B!Overlaps(s, length, t, other)
    PROVE  B!Overlaps(t, other, s, length)
  <1>1. Hour \subseteq Nat
    <2>1. B!BookingAssumption
      BY RecordsAssumption
    <2>2. QED
      BY <2>1 DEF B!BookingAssumption
  <1>2. s = t \/ s < t \/ t < s
    BY <1>1
  <1>3. ~(s < t /\ t < s)
    BY <1>1
  <1>4. QED
    BY <1>2, <1>3 DEF B!Overlaps

\* A new row of one lead, with the calendar and the receipts as they are.
LEMMA GuestChanges ==
    ASSUME B!BookingsSound, NEW l \in Guest, NEW row \in GuestRow,
           row.appointment = guest[l].appointment, guest' = [guest EXCEPT ![l] = row],
           UNCHANGED <<now, offered, reserved, receipts, applied>>,
           reminder' \in [Reminder -> B!Job], UNCHANGED <<asked, sent>>
    PROVE  B!BookingsSound'
  <1>1. B!TypeOK'
    <2>1. guest \in [Guest -> GuestRow]
      BY DEF B!BookingsSound, B!TypeOK, GuestRow
    <2>2. guest' \in [Guest -> GuestRow]
      BY <2>1
    <2>3. QED
      BY <2>2 DEF B!BookingsSound, B!TypeOK, GuestRow
  <1>2. \A k \in Guest : guest'[k].appointment = guest[k].appointment
    BY DEF B!BookingsSound, B!TypeOK
  <1>3. B!ShownIsConfirmed'
    BY <1>2 DEF B!BookingsSound, B!ShownIsConfirmed, B!Confirmed
  <1>4. B!NoDoubleBooking' /\ B!CommandOnce'
    BY DEF B!BookingsSound, B!NoDoubleBooking, B!CommandOnce, B!Overlaps, B!Begins
  <1>5. QED
    BY <1>1, <1>3, <1>4 DEF B!BookingsSound

\* A step that neither books nor commands anything.
LEMMA CalendarStays ==
    ASSUME B!BookingsSound, UNCHANGED <<reserved, guest, receipts, applied>>, B!TypeOK'
    PROVE  B!BookingsSound'
  BY DEF B!BookingsSound, B!NoDoubleBooking, B!ShownIsConfirmed, B!Confirmed, B!CommandOnce,
     B!Overlaps, B!Begins

LEMMA BookingTick == ASSUME B!BookingsSound, B!Tick PROVE B!BookingsSound'
  <1>1. now' \in 0 .. LastHalfDay
    <2>1. B!BookingAssumption
      BY RecordsAssumption
    <2>2. QED
      BY <2>1 DEF B!BookingAssumption, B!Tick, B!BookingsSound, B!TypeOK
  <1>2. UNCHANGED <<offered, reserved, guest, receipts, reminder, asked, sent, applied>>
    BY DEF B!Tick, B!messages
  <1>3. B!TypeOK'
    BY <1>1, <1>2 DEF B!BookingsSound, B!TypeOK
  <1>4. QED
    BY <1>2, <1>3, CalendarStays

LEMMA BookingOffer ==
    ASSUME B!BookingsSound, NEW s \in Hour, NEW length \in B!Length, B!Offer(s, length)
    PROVE  B!BookingsSound'
  <1>1. UNCHANGED <<now, reserved, guest, receipts, reminder, asked, sent, applied>>
        /\ offered' = [offered EXCEPT ![s] = length]
    BY DEF B!Offer, B!messages
  <1>2. B!TypeOK'
    BY <1>1 DEF B!BookingsSound, B!TypeOK
  <1>3. QED
    BY <1>1, <1>2, CalendarStays

LEMMA BookingReserve ==
    ASSUME B!BookingsSound, NEW l \in Guest, NEW s \in Hour, B!Reserve(l, s)
    PROVE  B!BookingsSound'
  <1> DEFINE length == offered[s]
             new == [lead |-> l, slot |-> s, length |-> length]
             row == [guest[l] EXCEPT !.appointment = s, !.version = guest[l].version + 1,
                                     !.flags = {}]
  <1>0. /\ UNCHANGED <<now, offered, receipts, reminder, asked, sent, applied>>
        /\ reserved' = reserved \cup {new}
    BY DEF B!Reserve, B!messages
  <1>1. length \in B!Length
    BY DEF B!Reserve, B!BookingsSound, B!TypeOK
  <1>2. guest' = [guest EXCEPT ![l] = row]
    BY DEF B!Reserve, B!Bump
  <1>3. row \in GuestRow /\ row.appointment = s
    <2>1. guest[l] \in GuestRow
      BY DEF B!BookingsSound, B!TypeOK, GuestRow
    <2>2. s \in Hour \cup {0}
      OBVIOUS
    <2>3. guest[l].version + 1 \in Nat
      BY <2>1, NextVersion
    <2> DEFINE g == guest[l]
               n == g.version + 1
    <2>4. g \in GuestRow /\ n \in Nat /\ {} \in SUBSET B!Kind
      BY <2>1, <2>3
    <2> HIDE DEF g, n
    <2>5. /\ [g EXCEPT !.appointment = s, !.version = n, !.flags = {}] \in GuestRow
          /\ [g EXCEPT !.appointment = s, !.version = n, !.flags = {}].appointment = s
      BY <2>2, <2>4 DEF GuestRow
    <2>6. QED
      BY <2>5 DEF g, n
  <1>4. new \in B!Reservation /\ new.lead = l /\ new.slot = s /\ new.length = length
    BY <1>1 DEF B!Reservation
  <1>5. \A r \in reserved : ~B!Overlaps(s, length, r.slot, r.length)
    BY DEF B!Reserve, B!Clashes
  <1>6. \A r \in reserved : r \in B!Reservation /\ r.slot \in Hour
    BY DEF B!BookingsSound, B!TypeOK, B!Reservation
  <1> HIDE DEF row, new, length
  <1>7. B!TypeOK'
    <2>1. guest \in [Guest -> GuestRow]
      BY DEF B!BookingsSound, B!TypeOK, GuestRow
    <2>2. guest' \in [Guest -> GuestRow]
      BY <1>2, <1>3, <2>1
    <2>3. reserved' \subseteq B!Reservation
      BY <1>0, <1>4, <1>6
    <2>4. QED
      BY <1>0, <2>2, <2>3 DEF B!BookingsSound, B!TypeOK, GuestRow
  <1>8. B!NoDoubleBooking'
    <2>1. ASSUME NEW r \in reserved', NEW q \in reserved', r # q,
                 B!Overlaps(r.slot, r.length, q.slot, q.length)
          PROVE  FALSE
      <3>1. CASE r \in reserved /\ q \in reserved
        BY <2>1, <3>1 DEF B!BookingsSound, B!NoDoubleBooking
      <3>2. CASE r = new
        <4>1. q \in reserved
          BY <1>0, <2>1, <3>2
        <4>2. QED
          BY <1>4, <1>5, <2>1, <3>2, <4>1
      <3>3. CASE q = new
        <4>1. r \in reserved
          BY <1>0, <2>1, <3>3
        <4>2. B!Overlaps(s, length, r.slot, r.length)
          BY <1>4, <1>6, <2>1, <3>3, <4>1, OverlapIsMutual
        <4>3. QED
          BY <1>5, <4>1, <4>2
      <3>4. QED
        BY <1>0, <2>1, <3>1, <3>2, <3>3
    <2>2. QED
      BY <2>1 DEF B!NoDoubleBooking, B!Overlaps, B!Begins
  <1>9. \A k \in Guest : guest'[k] = IF k = l THEN row ELSE guest[k]
    BY <1>2 DEF B!BookingsSound, B!TypeOK
  <1>10. B!ShownIsConfirmed'
    <2>1. ASSUME NEW k \in Guest, guest'[k].appointment # 0
          PROVE  \E r \in reserved' : r.lead = k /\ r.slot = guest'[k].appointment
      <3>1. CASE k = l
        BY <1>0, <1>3, <1>4, <1>9, <3>1
      <3>2. CASE k # l
        <4>1. guest'[k] = guest[k]
          BY <1>9, <3>2
        <4>2. PICK r \in reserved : r.lead = k /\ r.slot = guest[k].appointment
          BY <2>1, <4>1 DEF B!BookingsSound, B!ShownIsConfirmed, B!Confirmed
        <4>3. QED
          BY <1>0, <4>1, <4>2
      <3>3. QED
        BY <3>1, <3>2
    <2>2. QED
      BY <2>1 DEF B!ShownIsConfirmed, B!Confirmed
  <1>11. B!CommandOnce'
    BY <1>0 DEF B!BookingsSound, B!CommandOnce
  <1>12. QED
    BY <1>7, <1>8, <1>10, <1>11 DEF B!BookingsSound

\* A cancellation takes the hour out of the calendar and, if the lead's row shows it, out of
\* that; the other commands move the version alone.
LEMMA BookingExecutes ==
    ASSUME B!BookingsSound, NEW order \in B!Order, B!Executes(order),
           UNCHANGED <<now, offered, reminder, asked, sent>>,
           receipts' \in [Command -> B!Order \cup {B!None}], applied' \in [Command -> Nat],
           B!CommandOnce'
    PROVE  B!BookingsSound'
  <1> DEFINE l == order.lead
  <1>0. l \in Guest /\ guest[l] \in GuestRow
    BY DEF B!Order, B!BookingsSound, B!TypeOK, GuestRow
  <1>1. CASE order.action # "cancel_walkthrough"
    <2> DEFINE row == [guest[l] EXCEPT !.version = guest[l].version + 1]
    <2>1. guest' = [guest EXCEPT ![l] = row] /\ UNCHANGED reserved
      BY <1>1 DEF B!Executes, B!Bump
    <2>2. row \in GuestRow /\ row.appointment = guest[l].appointment
      BY <1>0 DEF GuestRow
    <2> HIDE DEF row
    <2>3. guest' \in [Guest -> GuestRow]
      BY <1>0, <2>1, <2>2 DEF B!BookingsSound, B!TypeOK, GuestRow
    <2>4. B!TypeOK'
      BY <2>1, <2>3 DEF B!BookingsSound, B!TypeOK, GuestRow
    <2>5. \A k \in Guest : guest'[k].appointment = guest[k].appointment
      BY <1>0, <2>1, <2>2 DEF B!BookingsSound, B!TypeOK
    <2>6. B!ShownIsConfirmed'
      BY <2>1, <2>5 DEF B!BookingsSound, B!ShownIsConfirmed, B!Confirmed
    <2>7. B!NoDoubleBooking'
      BY <2>1 DEF B!BookingsSound, B!NoDoubleBooking, B!Overlaps, B!Begins
    <2>8. QED
      BY <2>4, <2>6, <2>7 DEF B!BookingsSound
  <1>2. CASE order.action = "cancel_walkthrough"
    <2> DEFINE shown == IF guest[l].appointment = order.slot THEN 0 ELSE guest[l].appointment
               row == [guest[l] EXCEPT !.appointment = shown, !.version = guest[l].version + 1]
    <2>1. /\ guest' = [guest EXCEPT ![l] = row]
          /\ reserved' = {r \in reserved : r.lead # l \/ r.slot # order.slot}
      BY <1>2 DEF B!Executes, B!Bump
    <2>2. shown \in Hour \cup {0}
      BY <1>0 DEF GuestRow
    <2>3. shown # 0 => shown = guest[l].appointment /\ shown # order.slot
      OBVIOUS
    <2> HIDE DEF shown
    <2>4. row \in GuestRow /\ row.appointment = shown
      <3> DEFINE g == guest[l]
                 n == g.version + 1
      <3>1. g \in GuestRow /\ n \in Nat
        BY <1>0, NextVersion
      <3> HIDE DEF g, n
      <3>2. /\ [g EXCEPT !.appointment = shown, !.version = n] \in GuestRow
            /\ [g EXCEPT !.appointment = shown, !.version = n].appointment = shown
        BY <2>2, <3>1 DEF GuestRow
      <3>3. QED
        BY <3>2 DEF g, n
    <2> HIDE DEF row
    <2>5. guest' \in [Guest -> GuestRow]
      BY <1>0, <2>1, <2>4 DEF B!BookingsSound, B!TypeOK, GuestRow
    <2>6. B!TypeOK'
      BY <2>1, <2>5 DEF B!BookingsSound, B!TypeOK, GuestRow
    <2>7. \A k \in Guest : guest'[k] = IF k = l THEN row ELSE guest[k]
      BY <1>0, <2>1 DEF B!BookingsSound, B!TypeOK
    <2>8. B!ShownIsConfirmed'
      <3>1. ASSUME NEW k \in Guest, guest'[k].appointment # 0
            PROVE  \E r \in reserved' : r.lead = k /\ r.slot = guest'[k].appointment
        <4>1. /\ guest'[k].appointment = guest[k].appointment
              /\ k = l => guest[k].appointment # order.slot
          BY <2>3, <2>4, <2>7, <3>1
        <4>2. PICK r \in reserved : r.lead = k /\ r.slot = guest[k].appointment
          BY <3>1, <4>1 DEF B!BookingsSound, B!ShownIsConfirmed, B!Confirmed
        <4>3. r \in reserved'
          BY <2>1, <4>1, <4>2
        <4>4. QED
          BY <4>1, <4>2, <4>3
      <3>2. QED
        BY <3>1 DEF B!ShownIsConfirmed, B!Confirmed
    <2>9. B!NoDoubleBooking'
      BY <2>1 DEF B!BookingsSound, B!NoDoubleBooking, B!Overlaps, B!Begins
    <2>10. QED
      BY <2>6, <2>8, <2>9 DEF B!BookingsSound
  <1>3. QED
    BY <1>1, <1>2

LEMMA BookingSubmit ==
    ASSUME B!BookingsSound, NEW c \in Command, NEW order \in B!Order, B!Submit(c, order)
    PROVE  B!BookingsSound'
  <1>1. /\ B!Executes(order) /\ receipts[c] = B!None
        /\ receipts' = [receipts EXCEPT ![c] = order]
        /\ applied' = [applied EXCEPT ![c] = applied[c] + 1]
        /\ UNCHANGED <<now, offered, reminder, asked, sent>>
    BY DEF B!Submit, B!Replay, B!messages
  <1>2. receipts' \in [Command -> B!Order \cup {B!None}] /\ applied' \in [Command -> Nat]
    <2>1. applied \in [Command -> Nat] /\ receipts \in [Command -> B!Order \cup {B!None}]
      BY DEF B!BookingsSound, B!TypeOK
    <2>2. applied[c] + 1 \in Nat
      BY <2>1
    <2>3. QED
      BY <1>1, <2>1, <2>2
  <1>3. order # B!None
    <2>1. order.action # B!None.action
      BY DEF B!Order, B!None
    <2>2. QED
      BY <2>1
  <1>4. B!CommandOnce'
    <2>1. ASSUME NEW k \in Command
          PROVE  applied'[k] = IF receipts'[k] = B!None THEN 0 ELSE 1
      <3>1. CASE k = c
        <4>1. applied[c] = 0
          BY <1>1 DEF B!BookingsSound, B!CommandOnce
        <4>2. receipts'[k] = order /\ applied'[k] = 1
          BY <1>1, <3>1, <4>1 DEF B!BookingsSound, B!TypeOK
        <4>3. QED
          BY <1>3, <4>2
      <3>2. CASE k # c
        <4>1. applied'[k] = applied[k] /\ receipts'[k] = receipts[k]
          BY <1>1, <3>2 DEF B!BookingsSound, B!TypeOK
        <4>2. QED
          BY <4>1 DEF B!BookingsSound, B!CommandOnce
      <3>3. QED
        BY <3>1, <3>2
    <2>2. QED
      BY <2>1 DEF B!CommandOnce
  <1>5. QED
    BY <1>1, <1>2, <1>4, BookingExecutes

LEMMA BookingGuest ==
    ASSUME B!BookingsSound, NEW l \in Guest,
           (\E state \in B!Walkthrough : B!UpdateWalkthrough(l, state)) \/ B!OptOut(l)
    PROVE  B!BookingsSound'
  <1>0. guest[l] \in GuestRow /\ reminder \in [Reminder -> B!Job]
    BY DEF B!BookingsSound, B!TypeOK, GuestRow
  <1>1. CASE \E state \in B!Walkthrough : B!UpdateWalkthrough(l, state)
    <2>1. PICK state \in B!Walkthrough : B!UpdateWalkthrough(l, state)
      BY <1>1
    <2> DEFINE row == [guest[l] EXCEPT !.walkthrough = state, !.version = guest[l].version + 1]
    <2>2. row \in GuestRow /\ row.appointment = guest[l].appointment
      <3> DEFINE g == guest[l]
                 n == g.version + 1
      <3>1. g \in GuestRow /\ n \in Nat
        BY <1>0, NextVersion
      <3> HIDE DEF g, n
      <3>2. /\ [g EXCEPT !.walkthrough = state, !.version = n] \in GuestRow
            /\ [g EXCEPT !.walkthrough = state, !.version = n].appointment = g.appointment
        BY <3>1 DEF GuestRow
      <3>3. QED
        BY <3>2 DEF g, n
    <2>3. /\ guest' = [guest EXCEPT ![l] = row]
          /\ UNCHANGED <<now, offered, reserved, receipts, reminder, asked, sent, applied>>
      BY <2>1 DEF B!UpdateWalkthrough, B!Bump, B!messages
    <2> HIDE DEF row
    <2>4. reminder' \in [Reminder -> B!Job]
      BY <1>0, <2>3
    <2>5. QED
      BY <2>2, <2>3, <2>4, GuestChanges
  <1>2. CASE B!OptOut(l)
    <2> DEFINE row == [guest[l] EXCEPT !.optedOut = TRUE]
    <2>1. row \in GuestRow /\ row.appointment = guest[l].appointment
      BY <1>0 DEF GuestRow
    <2>2. /\ guest' = [guest EXCEPT ![l] = row]
          /\ UNCHANGED <<now, offered, reserved, receipts, reminder, asked, sent, applied>>
      BY <1>2 DEF B!OptOut, B!messages
    <2> HIDE DEF row
    <2>3. reminder' \in [Reminder -> B!Job]
      BY <1>0, <2>2
    <2>4. QED
      BY <2>1, <2>2, <2>3, GuestChanges
  <1>3. QED
    BY <1>1, <1>2

LEMMA JobFields ==
    ASSUME NEW x \in B!Job, x.at # "idle"
    PROVE  /\ x.lead \in Guest /\ x.kind \in B!Kind /\ x.slot \in Hour /\ B!TextOf(x) \in B!Text
  BY DEF B!Job, B!Idle, B!TextOf, B!Text

LEMMA BookingRead ==
    ASSUME B!BookingsSound, NEW r \in Reminder, B!Read(r) PROVE B!BookingsSound'
  <1>1. PICK l \in Guest, kind \in B!Kind :
            /\ guest[l].appointment # 0
            /\ reminder' = [reminder EXCEPT ![r] =
                   [at |-> "read", lead |-> l, kind |-> kind, slot |-> guest[l].appointment]]
    BY DEF B!Read
  <1>2. guest[l].appointment \in Hour
    BY <1>1 DEF B!BookingsSound, B!TypeOK
  <1>3. reminder' \in [Reminder -> B!Job]
    BY <1>1, <1>2 DEF B!BookingsSound, B!TypeOK, B!Job
  <1>4. UNCHANGED <<now, offered, reserved, guest, receipts, asked, sent, applied>>
    BY DEF B!Read
  <1>5. B!TypeOK'
    BY <1>3, <1>4 DEF B!BookingsSound, B!TypeOK
  <1>6. QED
    BY <1>4, <1>5, CalendarStays

LEMMA BookingSend ==
    ASSUME B!BookingsSound, NEW r \in Reminder, B!Send(r) PROVE B!BookingsSound'
  <1> DEFINE text == B!TextOf(reminder[r])
             gone == [at |-> "sent", lead |-> reminder[r].lead, kind |-> reminder[r].kind,
                      slot |-> reminder[r].slot]
  <1>1. reminder[r] \in B!Job /\ reminder[r].at = "read"
    BY DEF B!Send, B!BookingsSound, B!TypeOK
  <1>2. /\ text \in B!Text /\ gone \in B!Job /\ B!Idle \in B!Job
    BY <1>1, JobFields DEF B!Job
  <1>3. B!GoTo(r, "sent") => reminder' = [reminder EXCEPT ![r] = gone]
    BY DEF B!GoTo
  <1>4. /\ \/ reminder' = [reminder EXCEPT ![r] = gone]
           \/ reminder' = [reminder EXCEPT ![r] = B!Idle]
        /\ \/ UNCHANGED <<asked, sent>>
           \/ asked' = asked \cup {text} /\ sent' = sent \cup {text}
           \/ asked' = asked \cup {text} /\ UNCHANGED sent
        /\ UNCHANGED <<now, offered, reserved, guest, receipts, applied>>
    BY <1>3 DEF B!Send
  <1> HIDE DEF text, gone
  <1>5. reminder' \in [Reminder -> B!Job] /\ asked' \subseteq B!Text /\ sent' \subseteq asked'
    BY <1>2, <1>4 DEF B!BookingsSound, B!TypeOK
  <1>6. B!TypeOK'
    BY <1>4, <1>5 DEF B!BookingsSound, B!TypeOK
  <1>7. QED
    BY <1>4, <1>6, CalendarStays

LEMMA BookingFlag ==
    ASSUME B!BookingsSound, NEW r \in Reminder, B!Flag(r) PROVE B!BookingsSound'
  <1> DEFINE l == reminder[r].lead
             row == [guest[l] EXCEPT !.flags = guest[l].flags \cup {reminder[r].kind}]
  <1>1. reminder[r] \in B!Job /\ reminder[r].at = "sent"
    BY DEF B!Flag, B!BookingsSound, B!TypeOK
  <1>2. l \in Guest /\ reminder[r].kind \in B!Kind
    BY <1>1, JobFields
  <1>3. guest[l] \in GuestRow
    BY <1>2 DEF B!BookingsSound, B!TypeOK, GuestRow
  <1>4. row \in GuestRow /\ row.appointment = guest[l].appointment
    BY <1>2, <1>3 DEF GuestRow
  <1>5. /\ guest' = [guest EXCEPT ![l] = row] \/ UNCHANGED guest
        /\ reminder' = [reminder EXCEPT ![r] = B!Idle]
        /\ UNCHANGED <<now, offered, reserved, receipts, asked, sent, applied>>
    BY DEF B!Flag
  <1> HIDE DEF row, l
  <1>6. reminder' \in [Reminder -> B!Job]
    BY <1>5 DEF B!BookingsSound, B!TypeOK, B!Job
  <1>7. CASE guest' = [guest EXCEPT ![l] = row]
    BY <1>2, <1>4, <1>5, <1>6, <1>7, GuestChanges
  <1>8. CASE UNCHANGED guest
    <2>1. B!TypeOK'
      BY <1>5, <1>6, <1>8 DEF B!BookingsSound, B!TypeOK
    <2>2. QED
      BY <1>5, <1>8, <2>1, CalendarStays
  <1>9. QED
    BY <1>5, <1>7, <1>8

LEMMA BookingStep == ASSUME B!BookingsSound, B!Next PROVE B!BookingsSound'
  BY BookingTick, BookingOffer, BookingReserve, BookingSubmit, BookingGuest, BookingRead,
     BookingSend, BookingFlag DEF B!Next
-----------------------------------------------------------------------------
(***************************************************************************)
(* ParcelRecords.  Nobody writes an estimate without its offer and its     *)
(* trust, or but for a verdict the value 0, and an empty one is left out   *)
(* whole, so that what an old copy says of the three never reaches the row.*)
(***************************************************************************)
Column == {"value", "mao", "trust", "motive", "score", "viable", "phones", "saved"}
Estimate == {"value", "mao", "trust"}

LEMMA ParcelBounds ==
    /\ Worth \subseteq Nat /\ 0 \notin Worth /\ Motive \subseteq Nat /\ 0 \notin Motive
    /\ Standing \in Nat /\ Threshold \in Nat /\ MaxJobs \in Nat
  <1>1. R!RecordAssumption
    BY RecordsAssumption
  <1>2. QED
    BY <1>1 DEF R!RecordAssumption

LEMMA PointsBound ==
    ASSUME NEW m \in Motive \cup {0}, NEW v \in Worth \cup {0, -1}
    PROVE  R!Points(m, v) \in 0 .. 100
  <1>1. m \in Nat /\ v \in Int
    BY ParcelBounds
  <1>2. R!Deal(Standing, v) \in Nat
    <2>1. R!Band(v) \in Nat
      BY DEF R!Band
    <2>2. QED
      BY <2>1, ParcelBounds DEF R!Deal, R!Least
  <1>3. \A d \in Nat : (65 * m + 35 * d + 10 * 0) \div 100 \in Nat
    BY <1>1
  <1>4. QED
    BY <1>2, <1>3 DEF R!Points, R!Score, R!Weighed, R!Least

LEMMA ParcelRow ==
    ASSUME NEW p
    PROVE  p \in R!Parcel <=>
             /\ p = [x \in Column |-> p[x]]
             /\ p.value \in R!Value /\ p.mao \in {R!Mao(v) : v \in R!Value}
             /\ p.trust \in R!Trust /\ p.motive \in Motive \cup {0, -1}
             /\ p.score \in 0 .. 100 /\ p.viable \in BOOLEAN /\ p.saved \in BOOLEAN
             /\ p.phones \in {"none", "scrubbed", "operator"}
  BY DEF R!Parcel, Column, R!Unknown

\* What is written over the row: the columns that come, but for an empty estimate.
LEMMA UpsertFields ==
    ASSUME parcel = [x \in Column |-> parcel[x]], NEW C \in SUBSET Column, NEW new,
           new = [x \in C |-> new[x]], "value" \in C
    PROVE  R!Upserted(new) =
             [x \in Column |->
                IF x = "saved" THEN TRUE
                ELSE IF x \in C /\ ~ (new.value = -1 /\ x \in Estimate) THEN new[x]
                ELSE parcel[x]]
  <1> DEFINE kept == IF new.value = -1 THEN C \ Estimate ELSE C
             from == IF new.value = R!Unknown
                     THEN R!Restrict(new, DOMAIN new \ {"value", "mao", "trust"}) ELSE new
             row == [x \in Column |-> IF x \in kept THEN new[x] ELSE parcel[x]]
  <1>1. DOMAIN new = C /\ DOMAIN parcel = Column /\ kept \in SUBSET Column
    OBVIOUS
  <1>2. from = [x \in kept |-> new[x]]
    BY <1>1 DEF R!Restrict, Estimate, R!Unknown
  <1> HIDE DEF from, kept
  <1>3. DOMAIN from = kept /\ \A x \in kept : from[x] = new[x]
    BY <1>2
  <1>4. R!Over(parcel, from) = row
    BY <1>1, <1>3 DEF R!Over
  <1>5. R!Upserted(new) = [row EXCEPT !["saved"] = TRUE]
    BY <1>4, Zenon DEF R!Upserted, from
  <1>6. QED
    BY <1>5 DEF kept, Column, Estimate

RowSound ==
    /\ parcel \in R!Parcel /\ R!MaoFitsValue /\ R!ValueIsVouched

\* A row that may be written: the columns it has are well typed, and a value that it brings
\* brings the offer that fits it and, if there is one, the trust.
Writable(new, C) ==
    /\ C \in SUBSET Column /\ new = [x \in C |-> new[x]]
    /\ "value" \in C /\ new.value \in R!Value
    /\ "mao" \in C /\ new.mao = R!Mao(new.value)
    /\ "trust" \in C => new.trust \in R!Trust
    /\ "motive" \in C => new.motive \in Motive \cup {0, -1}
    /\ "score" \in C => new.score \in 0 .. 100
    /\ "viable" \in C => new.viable \in BOOLEAN
    /\ "phones" \in C => new.phones \in {"none", "scrubbed", "operator"}
    /\ new.value > 0 => "trust" \in C /\ new.trust \notin {"none", "needs_comps"}
    /\ new.value = 0 => "viable" \in C /\ new.viable = FALSE

LEMMA UpsertSound ==
    ASSUME RowSound, NEW new, NEW C, Writable(new, C), parcel' = R!Upserted(new)
    PROVE  RowSound' /\ R!PriceLostToVerdictOnly
  <1>1. /\ parcel = [x \in Column |-> parcel[x]]
        /\ parcel.value \in R!Value /\ parcel.mao \in {R!Mao(v) : v \in R!Value}
        /\ parcel.trust \in R!Trust /\ parcel.motive \in Motive \cup {0, -1}
        /\ parcel.score \in 0 .. 100 /\ parcel.viable \in BOOLEAN /\ parcel.saved \in BOOLEAN
        /\ parcel.phones \in {"none", "scrubbed", "operator"}
    BY ParcelRow DEF RowSound
  <1>2. C \in SUBSET Column /\ new = [x \in C |-> new[x]] /\ "value" \in C
    BY DEF Writable
  <1> DEFINE p == [x \in Column |->
                     IF x = "saved" THEN TRUE
                     ELSE IF x \in C /\ ~ (new.value = -1 /\ x \in Estimate) THEN new[x]
                     ELSE parcel[x]]
  <1>3. parcel' = p
    BY <1>1, <1>2, UpsertFields
  <1>4. /\ p.value = IF new.value = -1 THEN parcel.value ELSE new.value
        /\ p.mao = IF new.value = -1 THEN parcel.mao ELSE new.mao
        /\ p.trust = IF new.value = -1 \/ "trust" \notin C THEN parcel.trust ELSE new.trust
        /\ p.motive = IF "motive" \notin C THEN parcel.motive ELSE new.motive
        /\ p.score = IF "score" \notin C THEN parcel.score ELSE new.score
        /\ p.viable = IF "viable" \notin C THEN parcel.viable ELSE new.viable
        /\ p.phones = IF "phones" \notin C THEN parcel.phones ELSE new.phones
        /\ p.saved = TRUE
    BY <1>2 DEF Column, Estimate, Writable
  <1>5. p = [x \in Column |-> p[x]]
    OBVIOUS
  <1> HIDE DEF p
  <1>6. p \in R!Parcel
    <2>1. p.mao \in {R!Mao(v) : v \in R!Value}
      BY <1>1, <1>4 DEF Writable
    <2>2. p.value \in R!Value /\ p.trust \in R!Trust
      BY <1>1, <1>4 DEF Writable
    <2>3. /\ p.motive \in Motive \cup {0, -1} /\ p.score \in 0 .. 100 /\ p.viable \in BOOLEAN
          /\ p.phones \in {"none", "scrubbed", "operator"} /\ p.saved \in BOOLEAN
      BY <1>1, <1>4 DEF Writable
    <2>4. QED
      BY <1>5, <2>1, <2>2, <2>3, ParcelRow
  <1>7. p.mao = R!Mao(p.value)
    BY <1>4 DEF Writable, RowSound, R!MaoFitsValue
  <1>8. p.value > 0 => p.trust \notin {"none", "needs_comps"}
    BY <1>4 DEF Writable, RowSound, R!ValueIsVouched, R!Priced
  <1>9. R!PriceLostToVerdictOnly
    <2>1. \A v \in R!Value : v = -1 \/ v = 0 \/ v > 0
      BY ParcelBounds DEF R!Value, R!Unknown
    <2>2. new.value \in R!Value /\ (new.value = 0 => p.value = 0 /\ ~p.viable)
      BY <1>4 DEF Writable
    <2>3. CASE new.value = -1
      BY <1>3, <1>4, <2>3 DEF R!PriceLostToVerdictOnly, R!Unknown
    <2>4. CASE new.value = 0
      BY <1>3, <2>2, <2>4 DEF R!PriceLostToVerdictOnly, R!Unknown
    <2>5. CASE new.value > 0
      BY <1>3, <1>4, <2>5 DEF R!PriceLostToVerdictOnly, R!Unknown
    <2>6. QED
      BY <2>1, <2>2, <2>3, <2>4, <2>5
  <1>10. QED
    BY <1>3, <1>6, <1>7, <1>8, <1>9 DEF RowSound, R!MaoFitsValue, R!ValueIsVouched, R!Priced

LEMMA MaoOfNothing == R!Mao(0) = 0
  <1>1. (70 * 0) \div 100 = 0
    OBVIOUS
  <1>2. QED
    BY <1>1 DEF R!Mao, R!Positive, R!Unknown

\* What a scoring gives may be written as it is, and over a copy of the row, however old.
LEMMA AssessmentWritable ==
    ASSUME NEW new \in R!Assessments
    PROVE  Writable(new, DOMAIN new) /\ "phones" \notin DOMAIN new
  <1>1. CASE new = R!Disqualified
    <2>1. /\ DOMAIN new = {"viable", "motive", "value", "mao", "score"}
          /\ new.viable = FALSE /\ new.motive = 0 /\ new.value = 0 /\ new.mao = 0 /\ new.score = 0
      BY <1>1 DEF R!Disqualified
    <2>2. new = [x \in DOMAIN new |-> new[x]]
      BY <1>1 DEF R!Disqualified
    <2>3. R!Mao(new.value) = new.mao
      BY <2>1, MaoOfNothing
    <2>4. DOMAIN new \in SUBSET Column /\ new.score \in 0 .. 100 /\ ~ (new.value > 0)
      BY <2>1 DEF Column
    <2>5. new.value \in R!Value
      BY <2>1 DEF R!Value
    <2>6. /\ {"value", "mao", "viable"} \subseteq DOMAIN new /\ new.motive \in Motive \cup {0, -1}
          /\ new.viable = FALSE /\ new.viable \in BOOLEAN /\ "trust" \notin DOMAIN new /\ "phones" \notin DOMAIN new
      BY <2>1
    <2>7. QED
      BY <2>2, <2>3, <2>4, <2>5, <2>6, Zenon DEF Writable
  <1>2. CASE new \in R!Scored
    <2>1. PICK m \in Motive, v \in Worth \cup {-1} :
            new = [viable |-> TRUE, motive |-> m, value |-> v, mao |-> R!Mao(v),
                   score |-> R!Points(m, v),
                   trust |-> IF v = -1 THEN "needs_comps" ELSE "comps"]
      BY <1>2 DEF R!Scored, R!Comps, R!Unknown
    <2>2. /\ DOMAIN new = {"viable", "motive", "value", "mao", "score", "trust"}
          /\ new.viable = TRUE /\ new.motive = m /\ new.value = v /\ new.mao = R!Mao(v)
          /\ new.score = R!Points(m, v)
          /\ new.trust = IF v = -1 THEN "needs_comps" ELSE "comps"
      BY <2>1
    <2>3. new = [x \in DOMAIN new |-> new[x]]
      BY <2>1
    <2>4. R!Points(m, v) \in 0 .. 100
      BY PointsBound
    <2>5. v \in R!Value /\ new.trust \in R!Trust
      BY <2>2 DEF R!Value, R!Trust, R!Unknown
    <2>6. new.value > 0 => new.trust \notin {"none", "needs_comps"}
      BY <2>2
    <2>7. new.value # 0
      BY <2>2, ParcelBounds
    <2> HIDE <2>1
    <2>8. QED
      BY <2>2, <2>3, <2>4, <2>5, <2>6, <2>7 DEF Writable, Column
  <1>3. QED
    BY <1>1, <1>2 DEF R!Assessments

LEMMA EnrichedWritable ==
    ASSUME NEW copy \in R!Parcel, NEW new \in R!Assessments, NEW phones \in {"none", "scrubbed"}
    PROVE  Writable([R!Over(copy, new) EXCEPT !.phones = phones], Column)
  <1> DEFINE row == [R!Over(copy, new) EXCEPT !.phones = phones]
             C == DOMAIN new
  <1>1. Writable(new, C) /\ "phones" \notin C
    BY AssessmentWritable
  <1>2. /\ copy = [x \in Column |-> copy[x]]
        /\ copy.trust \in R!Trust /\ copy.motive \in Motive \cup {0, -1}
        /\ copy.score \in 0 .. 100 /\ copy.viable \in BOOLEAN
    BY ParcelRow
  <1>3. row = [x \in Column |-> IF x = "phones" THEN phones ELSE IF x \in C THEN new[x] ELSE copy[x]]
    BY <1>2 DEF R!Over, Column
  <1> HIDE DEF row, C
  <1>4. /\ row.value = new.value /\ row.mao = new.mao
        /\ row.trust = IF "trust" \in C THEN new.trust ELSE copy.trust
        /\ row.motive = IF "motive" \in C THEN new.motive ELSE copy.motive
        /\ row.score = IF "score" \in C THEN new.score ELSE copy.score
        /\ row.viable = IF "viable" \in C THEN new.viable ELSE copy.viable
        /\ row.phones = phones /\ row = [x \in Column |-> row[x]]
    BY <1>1, <1>3 DEF Writable, Column
  <1>5. Writable(row, Column)
    BY <1>1, <1>2, <1>4 DEF Writable, Column
  <1>6. QED
    BY <1>5 DEF row

LeadSound == leads \in {0, 1} /\ contact \in [callable : BOOLEAN, dnc : BOOLEAN]
CandidateSound ==
    /\ candidate.status \in {"none", "needs_property_review", "dismissed", "linked_to_reviewed_lead"}
    /\ candidate.status # "none" => candidate.print \in Payload
    /\ R!ReviewedAsShown
JobsSound == DOMAIN job = Writer /\ (\A w \in Writer : job[w] \in R!Job) /\ begun \in 0 .. MaxJobs
ParcelSound == RowSound /\ LeadSound /\ CandidateSound /\ JobsSound

LEMMA ParcelHolds == ParcelSound => R!RecordsInv
  <1>1. leads \in Nat /\ leads <= 1 <=> leads \in {0, 1}
    OBVIOUS
  <1>2. QED
    BY <1>1, Zenon DEF R!RecordsInv, R!TypeOK, R!OneLead, RowSound, LeadSound,
                   CandidateSound, JobsSound, ParcelSound

LEMMA ParcelInit == R!Init => ParcelSound
  <1> SUFFICES ASSUME R!Init PROVE ParcelSound
    OBVIOUS
  <1>1. RowSound
    <2>1. /\ parcel = R!NoParcel /\ R!NoParcel.value = -1 /\ R!NoParcel.mao = -1
          /\ R!NoParcel.trust = "none" /\ R!Mao(-1) = -1 /\ -1 \in R!Value
      BY DEF R!Init, R!NoParcel, R!Mao, R!Unknown, R!Value
    <2>2. parcel \in R!Parcel
      <3>1. parcel = [x \in Column |-> parcel[x]]
        BY <2>1 DEF R!NoParcel, Column
      <3>2. parcel.mao \in {R!Mao(v) : v \in R!Value} /\ parcel.value \in R!Value
        BY <2>1
      <3>3. /\ parcel.trust \in R!Trust /\ parcel.motive \in Motive \cup {0, -1}
            /\ parcel.score \in 0 .. 100 /\ parcel.viable \in BOOLEAN /\ parcel.saved \in BOOLEAN
            /\ parcel.phones \in {"none", "scrubbed", "operator"}
        BY <2>1 DEF R!NoParcel, R!Trust, R!Unknown
      <3>4. QED
        BY <3>1, <3>2, <3>3, ParcelRow
    <2>3. QED
      BY <2>1, <2>2 DEF RowSound, R!MaoFitsValue, R!ValueIsVouched
  <1>2. LeadSound /\ CandidateSound
    BY DEF R!Init, LeadSound, CandidateSound, R!ReviewedAsShown
  <1>3. JobsSound
    BY ParcelBounds DEF R!Init, JobsSound, R!Job
  <1>4. QED
    BY <1>1, <1>2, <1>3 DEF ParcelSound

LEMMA JobTurns ==
    ASSUME JobsSound, NEW w \in Writer, NEW next \in R!Job, R!Begins(w, next) \/ R!Goes(w, next)
    PROVE  JobsSound'
  <1>1. begun' \in 0 .. MaxJobs /\ job' = [job EXCEPT ![w] = next]
    BY ParcelBounds DEF JobsSound, R!Begins, R!Goes
  <1>2. DOMAIN job' = Writer /\ \A q \in Writer : job'[q] \in R!Job
    BY <1>1 DEF JobsSound
  <1>3. QED
    BY <1>1, <1>2 DEF JobsSound

LEMMA JobShapes ==
    /\ R!Free \in R!Job
    /\ \A s \in BOOLEAN : \A a \in {"looking", "creating", "storing"} : [at |-> a, sheet |-> s] \in R!Job
    /\ \A k \in BOOLEAN : [at |-> "listing", known |-> k] \in R!Job
    /\ \A p \in R!Parcel : [at |-> "enriching", copy |-> p] \in R!Job
    /\ \A c, d \in BOOLEAN : [at |-> "enriched", callable |-> c, dnc |-> d] \in R!Job
    /\ [at |-> "valuing"] \in R!Job /\ [at |-> "activating"] \in R!Job
    /\ \A m \in Motive \cup {0}, v \in Worth : [at |-> "rescoring", value |-> v, motive |-> m] \in R!Job
    /\ \A p \in Payload : [at |-> "reviewing", print |-> p] \in R!Job
  BY DEF R!Job

LEMMA ParcelJobFields ==
    ASSUME NEW j \in R!Job
    PROVE  /\ j.at \in {"looking", "creating", "storing"} => j.sheet \in BOOLEAN
           /\ j.at \in {"looking", "creating", "storing"} => j = [at |-> j.at, sheet |-> j.sheet]
           /\ j.at = "enriching" => j.copy \in R!Parcel
           /\ j.at = "enriched" => j.callable \in BOOLEAN /\ j.dnc \in BOOLEAN
           /\ j.at = "rescoring" => j.motive \in Motive \cup {0} /\ j.value \in Worth
           /\ j.at = "reviewing" => j.print \in Payload
  BY DEF R!Job, R!Free

\* What nobody touches stays sound.
LEMMA RowStays == ASSUME RowSound, UNCHANGED parcel PROVE RowSound' /\ R!PriceLostToVerdictOnly
  BY DEF RowSound, R!MaoFitsValue, R!ValueIsVouched, R!Priced, R!PriceLostToVerdictOnly

LEMMA LeadStays == ASSUME LeadSound, UNCHANGED <<leads, contact>> PROVE LeadSound'
  BY DEF LeadSound

LEMMA CandidateStays == ASSUME CandidateSound, UNCHANGED candidate PROVE CandidateSound'
  BY DEF CandidateSound, R!ReviewedAsShown

LEMMA JobsStay == ASSUME JobsSound, UNCHANGED <<job, begun>> PROVE JobsSound'
  BY DEF JobsSound

LEMMA ParcelImport ==
    ASSUME ParcelSound, NEW w \in Writer, R!Import(w) PROVE ParcelSound' /\ R!PriceLostToVerdictOnly
  <1>1. PICK new \in R!Assessments, sheet \in BOOLEAN :
          /\ parcel' = R!Upserted(new)
          /\ R!Begins(w, IF new.score < Threshold THEN R!Free ELSE [at |-> "looking", sheet |-> sheet])
    BY DEF R!Import
  <1>2. UNCHANGED <<leads, contact, candidate>>
    BY DEF R!Import
  <1>3. RowSound' /\ R!PriceLostToVerdictOnly
    BY <1>1, AssessmentWritable, UpsertSound DEF ParcelSound
  <1>4. (IF new.score < Threshold THEN R!Free ELSE [at |-> "looking", sheet |-> sheet]) \in R!Job
    BY JobShapes
  <1>5. JobsSound'
    BY <1>1, <1>4, JobTurns DEF ParcelSound
  <1>6. QED
    BY <1>2, <1>3, <1>5, LeadStays, CandidateStays DEF ParcelSound

LEMMA ParcelLook ==
    ASSUME ParcelSound, NEW w \in Writer, R!Look(w) PROVE ParcelSound' /\ R!PriceLostToVerdictOnly
  <1>1. UNCHANGED <<parcel, leads, contact, candidate>>
    BY DEF R!Look
  <1>2. JobsSound'
    <2>1. CASE job[w].at = "looking" /\ R!Goes(w, IF leads > 0 THEN R!Free ELSE [job[w] EXCEPT !.at = "creating"])
      <3>1. job[w] \in R!Job
        BY DEF ParcelSound, JobsSound
      <3>2. job[w] = [at |-> "looking", sheet |-> job[w].sheet] /\ job[w].sheet \in BOOLEAN
        BY <2>1, <3>1, ParcelJobFields
      <3>3. [job[w] EXCEPT !.at = "creating"] = [at |-> "creating", sheet |-> job[w].sheet]
        BY <3>2
      <3>4. [job[w] EXCEPT !.at = "creating"] \in R!Job
        BY <3>2, <3>3, JobShapes
      <3>5. QED
        BY <2>1, <3>4, JobShapes, JobTurns DEF ParcelSound
    <2>2. CASE R!Begins(w, [at |-> "creating", sheet |-> FALSE])
      BY <2>2, JobShapes, JobTurns DEF ParcelSound
    <2>3. QED
      BY <2>1, <2>2 DEF R!Look
  <1>3. QED
    BY <1>1, <1>2, RowStays, LeadStays, CandidateStays DEF ParcelSound

LEMMA ParcelCreate ==
    ASSUME ParcelSound, NEW w \in Writer, R!Create(w) \/ R!StoreContacts(w)
    PROVE  ParcelSound' /\ R!PriceLostToVerdictOnly
  <1>1. UNCHANGED <<parcel, candidate>>
    BY DEF R!Create, R!StoreContacts
  <1>2. job[w] \in R!Job
    BY DEF ParcelSound, JobsSound
  <1>3. CASE R!Create(w)
    <2>1. LeadSound'
      BY <1>3 DEF R!Create, R!Canonical, ParcelSound, LeadSound
    <2>2. job[w].at = "creating" /\ job[w] = [at |-> "creating", sheet |-> job[w].sheet]
          /\ job[w].sheet \in BOOLEAN
      BY <1>2, <1>3, ParcelJobFields DEF R!Create
    <2>3. [job[w] EXCEPT !.at = "storing"] = [at |-> "storing", sheet |-> job[w].sheet]
      BY <2>2
    <2>4. (IF job[w].sheet THEN [job[w] EXCEPT !.at = "storing"] ELSE R!Free) \in R!Job
      BY <2>2, <2>3, JobShapes
    <2>5. JobsSound'
      BY <1>3, <2>4, JobTurns DEF R!Create, ParcelSound
    <2>6. QED
      BY <1>1, <2>1, <2>5, RowStays, CandidateStays DEF ParcelSound
  <1>4. CASE R!StoreContacts(w)
    <2>1. LeadSound'
      BY <1>4 DEF R!StoreContacts, ParcelSound, LeadSound
    <2>2. JobsSound'
      BY <1>4, JobShapes, JobTurns DEF R!StoreContacts, ParcelSound
    <2>3. QED
      BY <1>1, <2>1, <2>2, RowStays, CandidateStays DEF ParcelSound
  <1>5. QED
    BY <1>3, <1>4

\* What is written of the row beside an estimate, and an estimate with its offer and trust.
LEMMA RowRewritten ==
    ASSUME RowSound, NEW p \in R!Parcel, parcel' = p,
           \/ p.value = parcel.value /\ p.mao = parcel.mao /\ p.trust \in {parcel.trust, "rentcast_no_data"}
           \/ p.value \in Worth /\ p.mao = R!Mao(p.value) /\ p.trust = "rentcast_avm"
    PROVE  RowSound' /\ R!PriceLostToVerdictOnly
  <1>1. \A v \in Worth : v # -1 /\ v > 0
    BY ParcelBounds
  <1>2. QED
    BY <1>1 DEF RowSound, R!MaoFitsValue, R!ValueIsVouched, R!Priced, R!PriceLostToVerdictOnly, R!Unknown

LEMMA ParcelListed ==
    ASSUME ParcelSound, NEW w \in Writer, R!FindListed(w) \/ R!SaveListed(w)
    PROVE  ParcelSound' /\ R!PriceLostToVerdictOnly
  <1>1. UNCHANGED <<leads, contact, candidate>>
    BY DEF R!FindListed, R!SaveListed
  <1>2. CASE R!FindListed(w)
    <2>1. parcel.saved \in BOOLEAN
      BY ParcelRow DEF ParcelSound, RowSound
    <2>2. JobsSound'
      BY <1>2, <2>1, JobShapes, JobTurns DEF R!FindListed, ParcelSound
    <2>3. QED
      BY <1>1, <1>2, <2>2, RowStays, LeadStays, CandidateStays DEF ParcelSound, R!FindListed
  <1>3. CASE R!SaveListed(w)
    <2>1. JobsSound'
      BY <1>3, JobShapes, JobTurns DEF R!SaveListed, ParcelSound
    <2>2. PICK s \in {50, 57, 65, 75} :
            parcel' = IF job[w].known THEN parcel
                      ELSE [parcel EXCEPT !.score = s, !.viable = FALSE, !.saved = TRUE]
      BY <1>3 DEF R!SaveListed, R!ListingScores
    <2>3. CASE parcel' = parcel
      BY <1>1, <2>1, <2>3, RowStays, LeadStays, CandidateStays DEF ParcelSound
    <2>4. CASE parcel' = [parcel EXCEPT !.score = s, !.viable = FALSE, !.saved = TRUE]
      <3> DEFINE p == [parcel EXCEPT !.score = s, !.viable = FALSE, !.saved = TRUE]
      <3>1. /\ parcel = [x \in Column |-> parcel[x]]
            /\ parcel.value \in R!Value /\ parcel.mao \in {R!Mao(v) : v \in R!Value}
            /\ parcel.trust \in R!Trust /\ parcel.motive \in Motive \cup {0, -1}
            /\ parcel.phones \in {"none", "scrubbed", "operator"}
        BY ParcelRow DEF ParcelSound, RowSound
      <3>2. /\ p = [x \in Column |-> p[x]] /\ p.score = s /\ p.viable = FALSE /\ p.saved = TRUE
            /\ p.value = parcel.value /\ p.mao = parcel.mao /\ p.trust = parcel.trust
            /\ p.motive = parcel.motive /\ p.phones = parcel.phones
        BY <3>1 DEF Column
      <3> HIDE DEF p
      <3>3. p \in R!Parcel
        <4>1. s \in 0 .. 100
          OBVIOUS
        <4>2. QED
          BY <3>1, <3>2, <4>1, ParcelRow
      <3>4. parcel' = p
        BY <2>4 DEF p
      <3>5. RowSound' /\ R!PriceLostToVerdictOnly
        BY <3>2, <3>4, <3>3, RowRewritten DEF ParcelSound
      <3>6. QED
        BY <1>1, <2>1, <3>5, LeadStays, CandidateStays DEF ParcelSound
    <2>5. QED
      BY <2>2, <2>3, <2>4
  <1>4. QED
    BY <1>2, <1>3

LEMMA ParcelEnrichment ==
    ASSUME ParcelSound, NEW w \in Writer, R!ReadForEnrichment(w) \/ R!SaveEnriched(w) \/ R!SaveLead(w)
    PROVE  ParcelSound' /\ R!PriceLostToVerdictOnly
  <1>1. job[w] \in R!Job
    BY DEF ParcelSound, JobsSound
  <1>2. CASE R!ReadForEnrichment(w)
    <2>1. UNCHANGED <<parcel, leads, contact, candidate>>
      BY <1>2 DEF R!ReadForEnrichment
    <2>2. [at |-> "enriching", copy |-> parcel] \in R!Job
      BY JobShapes DEF ParcelSound, RowSound
    <2>3. JobsSound'
      BY <1>2, <2>2, JobTurns DEF R!ReadForEnrichment, ParcelSound
    <2>4. QED
      BY <2>1, <2>3, RowStays, LeadStays, CandidateStays DEF ParcelSound
  <1>3. CASE R!SaveEnriched(w)
    <2>1. job[w].copy \in R!Parcel
      BY <1>1, <1>3, ParcelJobFields DEF R!SaveEnriched
    <2>2. PICK new \in R!Assessments, verdicts \in SUBSET R!Verdict :
            /\ parcel' = R!Upserted([R!Over(job[w].copy, new) EXCEPT
                            !.phones = IF "callable" \in verdicts THEN "scrubbed" ELSE "none"])
            /\ R!Goes(w, [at |-> "enriched", callable |-> "callable" \in verdicts,
                          dnc |-> "dnc" \in verdicts])
      BY <1>3 DEF R!SaveEnriched
    <2>3. Writable([R!Over(job[w].copy, new) EXCEPT
                      !.phones = IF "callable" \in verdicts THEN "scrubbed" ELSE "none"], Column)
      BY <2>1, EnrichedWritable
    <2>4. RowSound' /\ R!PriceLostToVerdictOnly
      BY <2>2, <2>3, UpsertSound DEF ParcelSound
    <2>5. [at |-> "enriched", callable |-> "callable" \in verdicts, dnc |-> "dnc" \in verdicts] \in R!Job
      BY DEF R!Job
    <2>6. JobsSound'
      BY <2>2, <2>5, JobTurns DEF ParcelSound
    <2>7. UNCHANGED <<leads, contact, candidate>>
      BY <1>3 DEF R!SaveEnriched
    <2>8. QED
      BY <2>4, <2>6, <2>7, LeadStays, CandidateStays DEF ParcelSound
  <1>4. CASE R!SaveLead(w)
    <2>1. job[w].callable \in BOOLEAN /\ job[w].dnc \in BOOLEAN
      BY <1>1, <1>4, ParcelJobFields DEF R!SaveLead
    <2>2. LeadSound'
      BY <1>4, <2>1 DEF R!SaveLead, ParcelSound, LeadSound
    <2>3. JobsSound'
      BY <1>4, JobShapes, JobTurns DEF R!SaveLead, ParcelSound
    <2>4. UNCHANGED <<parcel, candidate>>
      BY <1>4 DEF R!SaveLead
    <2>5. QED
      BY <2>2, <2>3, <2>4, RowStays, CandidateStays DEF ParcelSound
  <1>5. QED
    BY <1>2, <1>3, <1>4

LEMMA ParcelValuation ==
    ASSUME ParcelSound, NEW w \in Writer, R!Choose(w) \/ R!Answer(w) \/ R!SaveValue(w)
    PROVE  ParcelSound' /\ R!PriceLostToVerdictOnly
  <1>1. job[w] \in R!Job
    BY DEF ParcelSound, JobsSound
  <1>2. UNCHANGED <<leads, contact, candidate>>
    BY DEF R!Choose, R!Answer, R!SaveValue
  <1>3. /\ parcel = [x \in Column |-> parcel[x]]
        /\ parcel.value \in R!Value /\ parcel.mao \in {R!Mao(v) : v \in R!Value}
        /\ parcel.trust \in R!Trust /\ parcel.motive \in Motive \cup {0, -1}
        /\ parcel.score \in 0 .. 100 /\ parcel.viable \in BOOLEAN /\ parcel.saved \in BOOLEAN
        /\ parcel.phones \in {"none", "scrubbed", "operator"}
    BY ParcelRow DEF ParcelSound, RowSound
  <1>4. CASE R!Choose(w)
    <2>1. JobsSound' /\ UNCHANGED parcel
      BY <1>4, JobShapes, JobTurns DEF R!Choose, ParcelSound
    <2>2. QED
      BY <1>2, <2>1, RowStays, LeadStays, CandidateStays DEF ParcelSound
  <1>5. CASE R!Goes(w, R!Free) /\ parcel' = [parcel EXCEPT !.trust = "rentcast_no_data"]
    <2> DEFINE p == [parcel EXCEPT !.trust = "rentcast_no_data"]
    <2>1. /\ p = [x \in Column |-> p[x]] /\ p.trust = "rentcast_no_data"
          /\ p.value = parcel.value /\ p.mao = parcel.mao /\ p.motive = parcel.motive
          /\ p.score = parcel.score /\ p.viable = parcel.viable /\ p.saved = parcel.saved
          /\ p.phones = parcel.phones
      BY <1>3 DEF Column
    <2>2. parcel' = p
      BY <1>5
    <2> HIDE DEF p
    <2>3. p \in R!Parcel
      <3>1. p.trust \in R!Trust
        BY <2>1 DEF R!Trust
      <3>2. QED
        BY <1>3, <2>1, <3>1, ParcelRow
    <2>4. RowSound' /\ R!PriceLostToVerdictOnly
      BY <2>1, <2>2, <2>3, RowRewritten DEF ParcelSound
    <2>5. JobsSound'
      BY <1>5, JobShapes, JobTurns DEF ParcelSound
    <2>6. QED
      BY <1>2, <2>4, <2>5, LeadStays, CandidateStays DEF ParcelSound
  <1>6. ASSUME NEW v \in Worth, NEW m \in Motive, UNCHANGED parcel,
               R!Goes(w, [at |-> "rescoring", value |-> v,
                          motive |-> IF parcel.motive = R!Unknown THEN m ELSE parcel.motive])
        PROVE  ParcelSound' /\ R!PriceLostToVerdictOnly
    <2>1. (IF parcel.motive = R!Unknown THEN m ELSE parcel.motive) \in Motive \cup {0}
      BY <1>3 DEF R!Unknown
    <2>2. JobsSound'
      BY <1>6, <2>1, JobShapes, JobTurns DEF ParcelSound
    <2>3. QED
      BY <1>2, <1>6, <2>2, RowStays, LeadStays, CandidateStays DEF ParcelSound
  <1>7. CASE R!SaveValue(w)
    <2> DEFINE p == R!Valued(job[w].value, job[w].motive)
    <2>1. job[w].motive \in Motive \cup {0} /\ job[w].value \in Worth
      BY <1>1, <1>7, ParcelJobFields DEF R!SaveValue
    <2>2. /\ p = [x \in Column |-> p[x]] /\ p.trust = "rentcast_avm"
          /\ p.value = job[w].value /\ p.mao = R!Mao(job[w].value)
          /\ p.score = R!Points(job[w].motive, job[w].value)
          /\ p.motive = parcel.motive /\ p.viable = parcel.viable /\ p.saved = parcel.saved
          /\ p.phones = parcel.phones
      BY <1>3 DEF R!Valued, Column
    <2>3. parcel' = p
      BY <1>7 DEF R!SaveValue
    <2> HIDE DEF p
    <2>4. p \in R!Parcel
      <3>1. p.trust \in R!Trust /\ p.value \in R!Value
        BY <2>1, <2>2 DEF R!Trust, R!Value
      <3>2. p.mao \in {R!Mao(v) : v \in R!Value}
        BY <2>2, <3>1
      <3>3. p.score \in 0 .. 100
        BY <2>1, <2>2, PointsBound
      <3>4. QED
        BY <1>3, <2>2, <3>1, <3>2, <3>3, ParcelRow
    <2>5. p.value \in Worth /\ p.mao = R!Mao(p.value)
      BY <2>1, <2>2
    <2>6. RowSound' /\ R!PriceLostToVerdictOnly
      BY <2>2, <2>3, <2>4, <2>5, RowRewritten DEF ParcelSound
    <2>7. JobsSound'
      BY <1>7, JobShapes, JobTurns DEF R!SaveValue, ParcelSound
    <2>8. QED
      BY <1>2, <2>6, <2>7, LeadStays, CandidateStays DEF ParcelSound
  <1>8. QED
    BY <1>4, <1>5, <1>6, <1>7 DEF R!Answer

LEMMA ParcelActivate ==
    ASSUME ParcelSound, NEW w \in Writer, R!SetPhone(w) \/ R!Activate(w)
    PROVE  ParcelSound' /\ R!PriceLostToVerdictOnly
  <1>1. CASE R!SetPhone(w)
    <2> DEFINE p == [parcel EXCEPT !.phones = "operator"]
    <2>1. /\ parcel = [x \in Column |-> parcel[x]]
          /\ parcel.value \in R!Value /\ parcel.mao \in {R!Mao(v) : v \in R!Value}
          /\ parcel.trust \in R!Trust /\ parcel.motive \in Motive \cup {0, -1}
          /\ parcel.score \in 0 .. 100 /\ parcel.viable \in BOOLEAN /\ parcel.saved \in BOOLEAN
      BY ParcelRow DEF ParcelSound, RowSound
    <2>2. /\ p = [x \in Column |-> p[x]] /\ p.phones = "operator"
          /\ p.value = parcel.value /\ p.mao = parcel.mao /\ p.trust = parcel.trust
          /\ p.motive = parcel.motive
          /\ p.score = parcel.score /\ p.viable = parcel.viable /\ p.saved = parcel.saved
      BY <2>1 DEF Column
    <2>3. parcel' = p
      BY <1>1 DEF R!SetPhone
    <2> HIDE DEF p
    <2>4. p \in R!Parcel
      BY <2>1, <2>2, ParcelRow
    <2>5. RowSound' /\ R!PriceLostToVerdictOnly
      BY <2>2, <2>3, <2>4, RowRewritten DEF ParcelSound
    <2>6. JobsSound'
      BY <1>1, JobShapes, JobTurns DEF R!SetPhone, ParcelSound
    <2>7. UNCHANGED <<leads, contact, candidate>>
      BY <1>1 DEF R!SetPhone
    <2>8. QED
      BY <2>5, <2>6, <2>7, LeadStays, CandidateStays DEF ParcelSound
  <1>2. CASE R!Activate(w)
    <2>1. LeadSound'
      BY <1>2 DEF R!Activate, ParcelSound, LeadSound
    <2>2. JobsSound'
      BY <1>2, JobShapes, JobTurns DEF R!Activate, ParcelSound
    <2>3. UNCHANGED <<parcel, candidate>>
      BY <1>2 DEF R!Activate
    <2>4. QED
      BY <2>1, <2>2, <2>3, RowStays, CandidateStays DEF ParcelSound
  <1>3. QED
    BY <1>1, <1>2

LEMMA ParcelCandidate ==
    ASSUME ParcelSound, R!Persist \/ (\E w \in Writer : R!ShowCandidate(w) \/ R!Review(w))
    PROVE  ParcelSound' /\ R!PriceLostToVerdictOnly
  <1>1. CASE R!Persist
    <2>1. PICK p \in Payload :
            candidate' = IF candidate.status # "none" /\ candidate.print = p THEN candidate
                         ELSE [status |-> "needs_property_review", print |-> p]
      BY <1>1 DEF R!Persist
    <2>2. CandidateSound'
      BY <2>1 DEF ParcelSound, CandidateSound, R!ReviewedAsShown
    <2>3. UNCHANGED <<parcel, leads, contact, job, begun>>
      BY <1>1 DEF R!Persist
    <2>4. QED
      BY <2>2, <2>3, RowStays, LeadStays, JobsStay DEF ParcelSound
  <1>2. ASSUME NEW w \in Writer, R!ShowCandidate(w) PROVE ParcelSound' /\ R!PriceLostToVerdictOnly
    <2>1. [at |-> "reviewing", print |-> candidate.print] \in R!Job
      BY <1>2, JobShapes DEF R!ShowCandidate, ParcelSound, CandidateSound
    <2>2. JobsSound'
      BY <1>2, <2>1, JobTurns DEF R!ShowCandidate, ParcelSound
    <2>3. UNCHANGED <<parcel, leads, contact, candidate>>
      BY <1>2 DEF R!ShowCandidate
    <2>4. QED
      BY <2>2, <2>3, RowStays, LeadStays, CandidateStays DEF ParcelSound
  <1>3. ASSUME NEW w \in Writer, R!Review(w) PROVE ParcelSound' /\ R!PriceLostToVerdictOnly
    <2>1. PICK verdict \in {"dismissed", "linked_to_reviewed_lead"} :
            candidate' = IF R!Reviewable(job[w].print)
                         THEN [status |-> verdict, print |-> candidate.print, on |-> job[w].print]
                         ELSE candidate
      BY <1>3 DEF R!Review
    <2>2. CandidateSound'
      BY <2>1 DEF R!Reviewable, ParcelSound, CandidateSound, R!ReviewedAsShown
    <2>3. JobsSound'
      BY <1>3, JobShapes, JobTurns DEF R!Review, ParcelSound
    <2>4. UNCHANGED <<parcel, leads, contact>>
      BY <1>3 DEF R!Review
    <2>5. QED
      BY <2>2, <2>3, <2>4, RowStays, LeadStays DEF ParcelSound
  <1>4. QED
    BY <1>1, <1>2, <1>3

LEMMA ParcelStep ==
    ASSUME ParcelSound, R!Next \/ UNCHANGED parcels PROVE ParcelSound' /\ R!PriceLostToVerdictOnly
  <1>1. CASE UNCHANGED parcels
    BY <1>1, RowStays, LeadStays, CandidateStays, JobsStay DEF parcels, ParcelSound
  <1>2. CASE R!Next
    <2>1. CASE R!Persist
      BY <2>1, ParcelCandidate
    <2>2. ASSUME NEW w \in Writer,
                 \/ R!Import(w) \/ R!Look(w) \/ R!Create(w) \/ R!StoreContacts(w)
                 \/ R!FindListed(w) \/ R!SaveListed(w)
          PROVE  ParcelSound' /\ R!PriceLostToVerdictOnly
      BY <2>2, ParcelImport, ParcelLook, ParcelCreate, ParcelListed
    <2>3. ASSUME NEW w \in Writer,
                 \/ R!ReadForEnrichment(w) \/ R!SaveEnriched(w) \/ R!SaveLead(w)
                 \/ R!Choose(w) \/ R!Answer(w) \/ R!SaveValue(w) \/ R!SetPhone(w) \/ R!Activate(w)
                 \/ R!ShowCandidate(w) \/ R!Review(w)
          PROVE  ParcelSound' /\ R!PriceLostToVerdictOnly
      BY <2>3, ParcelEnrichment, ParcelValuation, ParcelActivate, ParcelCandidate
    <2>4. QED
      BY <1>2, <2>1, <2>2, <2>3 DEF R!Next
  <1>3. QED
    BY <1>1, <1>2
-----------------------------------------------------------------------------
(***************************************************************************)
(* DistressScore and ScoredEvidence.  The points of a parcel stay on their *)
(* scale, and no sign that is added takes points away: those that a new    *)
(* one replaces are worth no more.                                         *)
(***************************************************************************)
Evidence == [distress : Distress, facts : SUBSET E!Fact, years : Years, taxYears : 0 .. 3,
             sound : BOOLEAN]

LEMMA EvidenceBounds == Years \subseteq Int /\ Standings \subseteq Nat /\ Worth \subseteq Nat
  <1>1. E!EvidenceAssumption
    BY RecordsAssumption
  <1>2. QED
    BY <1>1 DEF E!EvidenceAssumption

LEMMA AddsBound == ASSUME NEW a, NEW n \in Nat PROVE E!Adds(a, n) \in 0 .. n
  BY DEF E!Adds

LEMMA AddsMore == ASSUME NEW a, NEW b, a => b, NEW n \in Nat PROVE E!Adds(a, n) <= E!Adds(b, n)
  BY DEF E!Adds

LEMMA LeastBound == ASSUME NEW m \in Nat, NEW n \in Nat PROVE E!Least(m, n) \in 0 .. n
  BY DEF E!Least

LEMMA TenureBound == ASSUME NEW y \in Int PROVE E!Tenure(y) \in Nat
  BY DEF E!Tenure

LEMMA SeveralMore ==
    ASSUME NEW m \in Nat, NEW n \in Nat, m <= n
    PROVE  E!Several(m) \in Nat /\ E!Several(n) \in Nat /\ E!Several(m) <= E!Several(n)
  BY DEF E!Several, E!FromThree

LEMMA SignsBound ==
    ASSUME NEW e \in Evidence
    PROVE  E!Signs(e) \in Nat /\ E!Pairs(e) \in Nat /\ E!Signals(e) \in Nat
  <1>1. E!Signs(e) \in Nat
    BY DEF E!Signs, E!Adds
  <1>2. E!Pairs(e) \in Nat
    BY DEF E!Pairs, E!Adds
  <1>3. E!Signals(e) \in Nat
    BY DEF E!Signals, E!Adds
  <1>4. QED
    BY <1>1, <1>2, <1>3

LEMMA MotivationBound == ASSUME NEW e \in Evidence PROVE E!Motivation(e) \in 0 .. 100
  <1>1. e.years \in Int
    BY EvidenceBounds DEF Evidence
  <1>2. E!Tenure(e.years) \in Nat /\ E!Several(E!Signals(e)) \in Nat
    BY <1>1, SignsBound, TenureBound, SeveralMore
  <1>3. E!Signs(e) + E!Pairs(e) + E!Tenure(e.years) + E!Several(E!Signals(e)) \in Nat
    BY <1>2, SignsBound
  <1>4. QED
    BY <1>3, LeastBound DEF E!Motivation

\* More evidence: the same owner, no fact less, taxes no younger.
Grows(e, f) ==
    /\ e.facts \subseteq f.facts /\ e.taxYears <= f.taxYears
    /\ e.distress = f.distress /\ e.years = f.years

LEMMA EvidenceGrows ==
    ASSUME NEW e \in Evidence, NEW f \in Evidence, Grows(e, f)
    PROVE  /\ \A x : E!Has(e, x) => E!Has(f, x)
           /\ E!NoticeOfSale(e) => E!NoticeOfSale(f)
           /\ E!PreForeclosure(e) => E!PreForeclosure(f)
           /\ E!TaxDue(e) => E!TaxDue(f)
           /\ E!Absentee(e) => E!Absentee(f)
           /\ E!Clear(e) => E!Clear(f)
           /\ E!Lien(e) => E!Lien(f)
           /\ E!Foreclosure(e) => E!Foreclosure(f)
  <1>1. \A x : E!Has(e, x) => E!Has(f, x)
    BY DEF Grows, E!Has
  <1>2. e.taxYears > 0 => f.taxYears > 0
    BY DEF Grows, Evidence
  <1>3. e.distress = f.distress
    BY DEF Grows
  <1>4. QED
    BY <1>1, <1>2, <1>3 DEF E!NoticeOfSale, E!PreForeclosure, E!TaxDue, E!Absentee, E!Clear, E!Lien,
                            E!Foreclosure

LEMMA SignsGrow ==
    ASSUME NEW e \in Evidence, NEW f \in Evidence, Grows(e, f)
    PROVE  E!Signs(e) <= E!Signs(f)
  <1> DEFINE late(x) == E!Adds(x.taxYears >= 3, 45) + E!Adds(x.taxYears \in {1, 2}, 30)
             notice(x) == E!Adds(E!PreForeclosure(x), 55)
                             + E!Adds(E!Has(x, "nod") /\ ~ E!PreForeclosure(x), 55)
             rest(x) == E!Adds(E!Has(x, "largeLien"), 25) + E!Adds(x.distress = "code_violation", 18)
                           + E!Adds(E!Has(x, "vacant"), 42) + E!Adds(E!Has(x, "outOfState"), 30)
                           + E!Adds(E!Absentee(x), 22) + E!Adds(E!Clear(x), 15)
                           + E!Adds(E!Has(x, "reduced"), 15)
             first(x) == E!Adds(E!NoticeOfSale(x), 65)
  <1>1. late(e) \in Nat /\ late(f) \in Nat /\ late(e) <= late(f)
    BY DEF Grows, Evidence, E!Adds
  <1>2. notice(e) \in Nat /\ notice(f) \in Nat /\ notice(e) <= notice(f)
    BY EvidenceGrows DEF E!Adds
  <1>3. rest(e) \in Nat /\ rest(f) \in Nat /\ rest(e) <= rest(f)
    <2>1. e.distress = f.distress
      BY DEF Grows
    <2>2. QED
      BY <2>1, EvidenceGrows DEF E!Adds
  <1>4. first(e) \in Nat /\ first(f) \in Nat /\ first(e) <= first(f)
    BY EvidenceGrows DEF E!Adds
  <1>5. \A x \in {e, f} : E!Signs(x) = first(x) + notice(x) + late(x) + rest(x)
    BY DEF E!Signs, E!Adds
  <1> HIDE DEF late, notice, rest, first
  <1>6. QED
    BY <1>1, <1>2, <1>3, <1>4, <1>5

LEMMA PairsGrow ==
    ASSUME NEW e \in Evidence, NEW f \in Evidence, Grows(e, f)
    PROVE  E!Pairs(e) <= E!Pairs(f) /\ E!Signals(e) <= E!Signals(f)
  <1>1. E!Pairs(e) <= E!Pairs(f)
    BY EvidenceGrows DEF E!Pairs, E!Adds
  <1>2. E!Signals(e) <= E!Signals(f)
    BY EvidenceGrows DEF E!Signals, E!Adds
  <1>3. QED
    BY <1>1, <1>2

LEMMA MotivationGrows ==
    ASSUME NEW e \in Evidence, NEW f \in Evidence, Grows(e, f)
    PROVE  E!Motivation(e) <= E!Motivation(f)
  <1>1. e.years = f.years /\ e.years \in Int
    BY EvidenceBounds DEF Evidence, Grows
  <1>2. E!Tenure(e.years) \in Nat /\ E!Tenure(f.years) = E!Tenure(e.years)
    BY <1>1, TenureBound
  <1>3. /\ E!Signs(e) \in Nat /\ E!Signs(f) \in Nat /\ E!Signs(e) <= E!Signs(f)
        /\ E!Pairs(e) \in Nat /\ E!Pairs(f) \in Nat /\ E!Pairs(e) <= E!Pairs(f)
        /\ E!Signals(e) \in Nat /\ E!Signals(f) \in Nat /\ E!Signals(e) <= E!Signals(f)
    BY SignsBound, SignsGrow, PairsGrow
  <1>4. /\ E!Several(E!Signals(e)) \in Nat /\ E!Several(E!Signals(f)) \in Nat
        /\ E!Several(E!Signals(e)) <= E!Several(E!Signals(f))
    BY <1>3, SeveralMore
  <1>5. QED
    BY <1>2, <1>3, <1>4 DEF E!Motivation, E!Least

LEMMA MoveBound == ASSUME NEW e \in Evidence PROVE E!Move(e) \in 0 .. 30
  <1>1. e.years \in Int
    BY EvidenceBounds DEF Evidence
  <1>2. QED
    BY <1>1 DEF E!Move, E!Least

LEMMA DealBound == ASSUME NEW s \in Nat, NEW v \in Int PROVE E!Deal(s, v) \in 0 .. 100
  <1>1. E!Band(v) \in Nat
    BY DEF E!Band
  <1>2. QED
    <2>1. s + E!Band(v) \in Nat
      BY <1>1
    <2>2. QED
      BY <2>1, LeastBound DEF E!Deal

\* Without a motive neither the deal nor the move brings a parcel to 50 points.
LEMMA MotiveCounts ==
    ASSUME NEW d \in 0 .. 100, NEW m \in 0 .. 30
    PROVE  E!Score(0, d, m) < 50
  <1>1. 65 * 0 + 35 * d + 10 * m \in 0 .. 3800
    OBVIOUS
  <1>2. (65 * 0 + 35 * d + 10 * m) \div 100 \in 0 .. 38
    BY <1>1
  <1>3. QED
    BY <1>2 DEF E!Score, E!Weighed, E!Least

LEMMA ScoreIsInt ==
    ASSUME NEW d \in 0 .. 100, NEW m \in 0 .. 30
    PROVE  E!Score(0, d, m) \in Int
  BY DEF E!Score, E!Weighed, E!Least

LEMMA ScoresHold == evidence \in Evidence => E!EvidenceInv
  <1> SUFFICES ASSUME evidence \in Evidence PROVE E!EvidenceInv
    OBVIOUS
  <1>1. E!TypeOK
    BY DEF E!TypeOK, Evidence
  <1>2. /\ E!Motivation(evidence) \in 0 .. 100 /\ E!Move(evidence) \in 0 .. 30 /\ E!Unknown = -1
    BY MotivationBound, MoveBound DEF E!Unknown
  <1>3. E!CalledHasMotive
    <2> SUFFICES ASSUME NEW s \in Standings, NEW v \in Worth,
                        LET row == E!Assessed(evidence, s, E!Unknown)
                        IN  E!Rescored(row, s, v) >= 50 \/ row.score >= 50
                 PROVE  LET row == E!Assessed(evidence, s, E!Unknown)
                        IN  row.motive > 0 /\ row.viable
      BY DEF E!CalledHasMotive
    <2> DEFINE row == E!Assessed(evidence, s, E!Unknown)
    <2>1. s \in Nat /\ v \in Int /\ -1 \in Int
      BY EvidenceBounds
    <2>2. E!Deal(s, v) \in 0 .. 100 /\ E!Deal(s, -1) \in 0 .. 100
      BY <2>1, DealBound
    <2>3. CASE E!Unfit(evidence)
      <3>1. row.motive = 0 /\ row.score = 0 /\ row.move = -1
        BY <1>2, <2>3 DEF E!Assessed
      <3>2. E!Rescored(row, s, v) = E!Score(0, E!Deal(s, v), 0)
        BY <1>2, <3>1 DEF E!Rescored
      <3>3. E!Score(0, E!Deal(s, v), 0) < 50
        BY <2>2, MotiveCounts
      <3>4. ~(row.score >= 50) /\ ~(E!Score(0, E!Deal(s, v), 0) >= 50)
        <4>1. E!Score(0, E!Deal(s, v), 0) \in Int
          BY <2>2, ScoreIsInt
        <4>2. QED
          BY <3>1, <3>3, <4>1
      <3>5. QED
        BY <3>2, <3>4
    <2>4. CASE ~ E!Unfit(evidence)
      <3>1. /\ row.motive = E!Motivation(evidence) /\ row.move = E!Move(evidence) /\ row.viable
            /\ row.score = E!Score(row.motive, E!Deal(s, -1), row.move)
        BY <1>2, <2>4 DEF E!Assessed
      <3>2. E!Rescored(row, s, v) = E!Score(row.motive, E!Deal(s, v), row.move)
        <4>1. row.move # -1
          BY <1>2, <3>1
        <4>2. QED
          BY <1>2, <4>1 DEF E!Rescored
      <3>3. CASE row.motive = 0
        <4>1. /\ E!Score(0, E!Deal(s, v), row.move) < 50 /\ E!Score(0, E!Deal(s, -1), row.move) < 50
              /\ E!Score(0, E!Deal(s, v), row.move) \in Int /\ E!Score(0, E!Deal(s, -1), row.move) \in Int
          BY <1>2, <2>2, <3>1, MotiveCounts, ScoreIsInt
        <4> HIDE DEF row
        <4>2. row.score < 50 /\ E!Rescored(row, s, v) < 50 /\ row.score \in Int /\ E!Rescored(row, s, v) \in Int
          BY <3>1, <3>2, <3>3, <4>1
        <4>3. QED
          BY <4>2 DEF row
      <3>4. CASE row.motive # 0
        BY <1>2, <3>1, <3>4
      <3>5. QED
        BY <3>3, <3>4
    <2>5. QED
      BY <2>3, <2>4
  <1>4. E!RescoreAgrees
    BY <1>2 DEF E!RescoreAgrees, E!Rescored, E!Assessed
  <1>5. QED
    BY <1>1, <1>3, <1>4 DEF E!EvidenceInv

LEMMA EvidenceStart == E!Init => evidence \in Evidence
  BY DEF E!Init, Evidence

LEMMA EvidenceStep ==
    ASSUME evidence \in Evidence, E!Next \/ UNCHANGED evidence
    PROVE  evidence' \in Evidence /\ Grows(evidence, evidence')
  <1>1. CASE E!NewYear
    <2>1. evidence.taxYears \in 0 .. 2 /\ evidence.taxYears + 1 \in 0 .. 3
      BY <1>1 DEF E!NewYear, Evidence
    <2>2. evidence' = [evidence EXCEPT !.taxYears = evidence.taxYears + 1]
      BY <1>1 DEF E!NewYear
    <2>3. QED
      BY <2>1, <2>2 DEF Evidence, Grows
  <1>2. ASSUME NEW fact \in E!Fact, E!Learn(fact)
        PROVE  evidence' \in Evidence /\ Grows(evidence, evidence')
    <2>1. evidence' = [evidence EXCEPT !.facts = evidence.facts \cup {fact}]
      BY <1>2 DEF E!Learn
    <2>2. evidence.facts \cup {fact} \in SUBSET E!Fact
      BY DEF Evidence
    <2>3. QED
      BY <2>1, <2>2 DEF Evidence, Grows
  <1>3. CASE UNCHANGED evidence
    BY <1>3 DEF Evidence, Grows
  <1>4. QED
    BY <1>1, <1>2, <1>3 DEF E!Next, E!Same

LEMMA MoreEvidence ==
    ASSUME evidence \in Evidence, E!Next \/ UNCHANGED evidence
    PROVE  E!MoreIsNotLess
  <1>1. evidence' \in Evidence /\ Grows(evidence, evidence')
    BY EvidenceStep
  <1>2. E!Motivation(evidence) <= E!Motivation(evidence')
    BY <1>1, MotivationGrows
  <1>3. E!Motivation(evidence) \in Int /\ E!Motivation(evidence') \in Int
    BY <1>1, MotivationBound
  <1>4. QED
    BY <1>2, <1>3 DEF E!MoreIsNotLess
-----------------------------------------------------------------------------
(***************************************************************************)
(* LeadEngagement.  The points grow with what they count, so that a        *)
(* refresh, which computes with reads of three moments, stays between the  *)
(* first of them and the last.  Replies cannot outnumber the texts: what a *)
(* thread has read and what all of them are about to write are texts of    *)
(* the inbox already.                                                      *)
(***************************************************************************)
CallRow == [direction : G!Direction, seconds : Nat]
ReplyKind == {"hot", "other"}
Reply == {G!Still} \cup [at : {"logged"}, kind : ReplyKind]
         \cup [at : {"read"}, kind : ReplyKind, hot : Nat, other : Nat]
Writing == {r \in Replier : replying[r] # G!Still}

\* What counts for the points grows: of a row, of the calls.
CountedRow(row) == row.appointment \in BOOLEAN /\ row.hot \in Nat /\ row.other \in Nat
MoreRow(row, later) ==
    /\ row.appointment => later.appointment
    /\ row.hot <= later.hot /\ row.other <= later.other
MoreCalls(calls, later) ==
    Len(calls) <= Len(later) /\ \A i \in 1 .. Len(calls) : later[i] = calls[i]

RefreshSound ==
    /\ refresh = G!Asleep \/ refresh.at \in {"lead", "calls", "scored"}
    /\ refresh # G!Asleep => CountedRow(refresh.row) /\ refresh.since \in 0 .. 70
    /\ refresh.at = "lead" => refresh.since <= G!Strength(refresh.row, spoken, inbox)
    /\ refresh.at = "calls" =>
         /\ refresh.calls \in Seq(CallRow) /\ MoreCalls(refresh.calls, spoken)
         /\ refresh.since <= G!Strength(refresh.row, refresh.calls, inbox)
    /\ refresh.at = "scored" =>
         /\ refresh.since <= refresh.strength /\ refresh.strength \in 0 .. 70
         /\ refresh.points \in 0 .. 200
         /\ refresh.strength <= G!Strength(refresh.row, spoken, inbox)

RepliesSound ==
    /\ DOMAIN replying = Replier /\ \A r \in Replier : replying[r] \in Reply
    /\ IsFiniteSet(Writing)
    /\ card.hot + card.other + Cardinality(Writing) <= inbox /\ inbox <= contacts
    /\ \A r \in Replier : replying[r].at = "read" =>
         replying[r].hot + replying[r].other + Cardinality(Writing) <= inbox

EngagedInv == G!TypeOK /\ spoken \in Seq(CallRow) /\ RepliesSound /\ RefreshSound

LEMMA EngagementBounds ==
    /\ Recent \in Nat /\ Lately \in Nat /\ Once \in Nat /\ LastDay \in Nat /\ MaxContacts \in Nat
    /\ Distressed \in 0 .. 100
  <1>1. G!EngagementAssumption
    BY RecordsAssumption
  <1>2. QED
    BY <1>1 DEF G!EngagementAssumption

LEMMA StrengthBound ==
    ASSUME NEW row, NEW calls, NEW texts
    PROVE  /\ G!Intensity(row, calls, texts) \in 0 .. 40
           /\ G!Pattern(row, calls, texts) \in 0 .. 30
           /\ G!Strength(row, calls, texts) \in 0 .. 70
  <1>1. G!Intensity(row, calls, texts) \in 0 .. 40
    BY DEF G!Intensity
  <1>2. G!Pattern(row, calls, texts) \in 0 .. 30
    BY DEF G!Pattern
  <1>3. QED
    BY <1>1, <1>2 DEF G!Strength

LEMMA MoreCallsCount ==
    ASSUME NEW calls \in Seq(CallRow), NEW later \in Seq(CallRow), MoreCalls(calls, later)
    PROVE  /\ G!Inbound(calls) => G!Inbound(later)
           /\ \A n : /\ G!Lasting(calls, n) \subseteq G!Lasting(later, n)
                     /\ IsFiniteSet(G!Lasting(later, n))
  <1>1. /\ DOMAIN calls = 1 .. Len(calls) /\ DOMAIN later = 1 .. Len(later)
        /\ Len(calls) \in Nat /\ Len(later) \in Nat
    OBVIOUS
  <1>2. DOMAIN calls \subseteq DOMAIN later /\ \A i \in DOMAIN calls : later[i] = calls[i]
    BY <1>1 DEF MoreCalls
  <1>3. G!Inbound(calls) => G!Inbound(later)
    BY <1>2 DEF G!Inbound
  <1>4. IsFiniteSet(DOMAIN later)
    BY <1>1, FS_Interval
  <1>5. ASSUME NEW n
        PROVE  G!Lasting(calls, n) \subseteq G!Lasting(later, n) /\ IsFiniteSet(G!Lasting(later, n))
    <2>1. G!Lasting(calls, n) \subseteq G!Lasting(later, n)
      BY <1>2 DEF G!Lasting
    <2>2. G!Lasting(later, n) \subseteq DOMAIN later
      BY DEF G!Lasting
    <2>3. QED
      BY <1>4, <2>1, <2>2, FS_Subset
  <1>6. QED
    BY <1>3, <1>5

\* Points are never lost to a row, a call or a text more.
LEMMA StrengthGrows ==
    ASSUME NEW row, NEW later, CountedRow(row), CountedRow(later), MoreRow(row, later),
           NEW calls \in Seq(CallRow), NEW calls2 \in Seq(CallRow), MoreCalls(calls, calls2),
           NEW m \in Nat, NEW n \in Nat, m <= n
    PROVE  G!Strength(row, calls, m) <= G!Strength(later, calls2, n)
  <1> DEFINE some(k) == G!Lasting(calls, k)
             more(k) == G!Lasting(calls2, k)
  <1>1. /\ G!Inbound(calls) => G!Inbound(calls2)
        /\ \A k : some(k) \subseteq more(k) /\ IsFiniteSet(more(k))
    BY MoreCallsCount
  <1>2. \A k : some(k) # {} => more(k) # {}
    BY <1>1
  <1>3. Cardinality(some(6)) \in Nat /\ Cardinality(more(6)) \in Nat
        /\ Cardinality(some(6)) <= Cardinality(more(6))
    BY <1>1, FS_Subset, FS_CardinalityType
  <1>4. /\ row.appointment => later.appointment
        /\ row.hot > 0 => later.hot > 0
        /\ row.other > 0 \/ m > 0 => later.other > 0 \/ n > 0
        /\ \A k \in {1, 2} : G!Answered(row, m, k) => G!Answered(later, n, k)
    BY DEF CountedRow, MoreRow, G!Answered
  <1>5. G!Intensity(row, calls, m) <= G!Intensity(later, calls2, n)
    BY <1>1, <1>2, <1>4 DEF G!Intensity
  <1>6. Cardinality(some(6)) >= 3 => Cardinality(more(6)) >= 3
    BY <1>3
  <1>7. /\ G!Answered(row, m, 1) => G!Answered(later, n, 1)
        /\ G!Answered(row, m, 2) => G!Answered(later, n, 2)
    BY <1>4
  <1>8. G!Pattern(row, calls, m) <= G!Pattern(later, calls2, n)
    <2>1. some(6) # {} => more(6) # {}
      BY <1>2
    <2> DEFINE inbound == G!Inbound(calls)
               inbound2 == G!Inbound(calls2)
               three == Cardinality(some(6)) >= 3
               three2 == Cardinality(more(6)) >= 3
               answered(k) == G!Answered(row, m, k)
               answered2(k) == G!Answered(later, n, k)
               one == some(6) # {}
               one2 == more(6) # {}
    <2>2. /\ inbound => inbound2
          /\ three => three2
          /\ answered(1) => answered2(1)
          /\ answered(2) => answered2(2)
          /\ one => one2
      BY <1>1, <1>6, <1>7, <2>1
    <2>3. /\ G!Pattern(row, calls, m) =
               IF inbound \/ three THEN 30 ELSE IF answered(2) THEN 25
               ELSE IF one THEN 15 ELSE IF answered(1) THEN 10 ELSE 0
          /\ G!Pattern(later, calls2, n) =
               IF inbound2 \/ three2 THEN 30 ELSE IF answered2(2) THEN 25
               ELSE IF one2 THEN 15 ELSE IF answered2(1) THEN 10 ELSE 0
      <3>1. /\ three = (G!Cardinality(G!Lasting(calls, 6)) >= 3)
            /\ three2 = (G!Cardinality(G!Lasting(calls2, 6)) >= 3)
        BY SameCardinality
      <3> HIDE DEF three, three2
      <3>2. QED
        BY <3>1, Zenon DEF G!Pattern
    <2> HIDE DEF inbound, inbound2, three, three2, answered, answered2, one, one2
    <2>4. QED
      BY <2>2, <2>3
  <1>9. /\ G!Intensity(row, calls, m) \in 0 .. 40 /\ G!Intensity(later, calls2, n) \in 0 .. 40
        /\ G!Pattern(row, calls, m) \in 0 .. 30 /\ G!Pattern(later, calls2, n) \in 0 .. 30
    BY StrengthBound, Zenon
  <1>10. \A a, b \in 0 .. 40, c, d \in 0 .. 30 : a <= b /\ c <= d => a + c <= b + d
    OBVIOUS
  <1>11. QED
    BY <1>5, <1>8, <1>9, <1>10, Zenon DEF G!Strength

LEMMA SameCalls == ASSUME NEW calls \in Seq(CallRow) PROVE MoreCalls(calls, calls)
  BY DEF MoreCalls

LEMMA OneCallMore ==
    ASSUME NEW calls \in Seq(CallRow), NEW next \in CallRow
    PROVE  Append(calls, next) \in Seq(CallRow) /\ MoreCalls(calls, Append(calls, next))
  BY DEF MoreCalls

LEMMA MoreCallsOnTop ==
    ASSUME NEW a \in Seq(CallRow), NEW b \in Seq(CallRow), NEW c \in Seq(CallRow),
           MoreCalls(a, b), MoreCalls(b, c)
    PROVE  MoreCalls(a, c)
  BY DEF MoreCalls

LEMMA RecencyBound == ASSUME NEW row PROVE G!Recency(row) \in 0 .. 30
  BY DEF G!Recency

LEMMA CompositeBound ==
    ASSUME NEW row, NEW calls, NEW texts PROVE G!Composite(row, calls, texts) \in 0 .. 200
  <1>1. G!Recency(row) \in 0 .. 30 /\ G!Strength(row, calls, texts) \in 0 .. 70
    BY RecencyBound, StrengthBound
  <1>2. \A p \in 0 .. 100, a \in 0 .. 30, b \in 0 .. 70 : p + a + b \in 0 .. 200
    OBVIOUS
  <1>3. QED
    BY <1>1, <1>2, EngagementBounds, Zenon DEF G!Composite

LEMMA CardCounts == G!TypeOK => CountedRow(card)
  BY DEF G!TypeOK, CountedRow

LEMMA ReplyFields ==
    ASSUME NEW r \in Replier, replying[r] \in Reply
    PROVE  /\ replying[r].at \in {"still", "logged", "read"}
           /\ replying[r] # G!Still <=> replying[r].at \in {"logged", "read"}
           /\ replying[r].at \in {"logged", "read"} => replying[r].kind \in ReplyKind
           /\ replying[r].at = "read" => replying[r].hot \in Nat /\ replying[r].other \in Nat
  BY DEF Reply, G!Still

LEMMA EngagementInit == G!Init => EngagedInv
  <1> SUFFICES ASSUME G!Init PROVE EngagedInv
    OBVIOUS
  <1>1. G!TypeOK /\ spoken \in Seq(CallRow)
    BY EngagementBounds DEF G!Init, G!TypeOK, G!Never, G!Asleep
  <1>2. Writing = {}
    BY DEF G!Init, Writing
  <1>3. IsFiniteSet(Writing) /\ Cardinality(Writing) = 0
    BY <1>2, FS_EmptySet
  <1>4. RepliesSound
    BY <1>3 DEF G!Init, RepliesSound, Reply, G!Still
  <1>5. RefreshSound
    BY DEF G!Init, RefreshSound, G!Asleep
  <1>6. QED
    BY <1>1, <1>4, <1>5 DEF EngagedInv

\* What the handlers do not write of the replies, and what a refresh has made of its reads
\* while calls and texts go on.
LEMMA RepliesKept ==
    ASSUME EngagedInv, UNCHANGED <<replying, inbox>>, card'.hot = card.hot, card'.other = card.other,
           contacts' \in Nat, contacts <= contacts'
    PROVE  RepliesSound'
  <1>1. Writing' = Writing
    BY DEF Writing
  <1>2. inbox \in Nat /\ contacts \in Nat
    BY EngagementBounds DEF EngagedInv, G!TypeOK
  <1>3. inbox' <= contacts'
    BY <1>2 DEF EngagedInv, RepliesSound
  <1>4. QED
    BY <1>1, <1>3 DEF EngagedInv, RepliesSound

LEMMA RefreshKept ==
    ASSUME EngagedInv, UNCHANGED refresh, spoken' \in Seq(CallRow), MoreCalls(spoken, spoken'),
           inbox' \in Nat, inbox <= inbox'
    PROVE  RefreshSound'
  <1> DEFINE row == refresh.row
  <1>1. inbox \in Nat /\ spoken \in Seq(CallRow) /\ RefreshSound
    BY EngagementBounds DEF EngagedInv, G!TypeOK
  <1>2. refresh.at \in {"lead", "calls", "scored"} => refresh # G!Asleep
    BY DEF G!Asleep
  <1>3. ASSUME refresh # G!Asleep
        PROVE  /\ MoreRow(row, row) /\ CountedRow(row) /\ refresh.since \in 0 .. 70
               /\ G!Strength(row, spoken, inbox) <= G!Strength(row, spoken', inbox')
               /\ G!Strength(row, spoken, inbox) \in 0 .. 70
               /\ G!Strength(row, spoken', inbox') \in 0 .. 70
    <2>1. MoreRow(row, row) /\ CountedRow(row) /\ refresh.since \in 0 .. 70
      BY <1>1, <1>3 DEF RefreshSound, MoreRow, CountedRow
    <2>2. G!Strength(row, spoken, inbox) <= G!Strength(row, spoken', inbox')
      BY <1>1, <2>1, StrengthGrows
    <2>3. G!Strength(row, spoken, inbox) \in 0 .. 70 /\ G!Strength(row, spoken', inbox') \in 0 .. 70
      BY StrengthBound, Zenon
    <2>4. QED
      BY <2>1, <2>2, <2>3
  <1>4. \A a, b, c \in 0 .. 70 : a <= b /\ b <= c => a <= c
    OBVIOUS
  <1>5. ASSUME refresh.at = "lead" PROVE refresh.since <= G!Strength(row, spoken', inbox')
    <2>1. refresh.since <= G!Strength(row, spoken, inbox)
      BY <1>1, <1>5, Zenon DEF RefreshSound
    <2>2. QED
      BY <1>2, <1>3, <1>4, <1>5, <2>1, Zenon
  <1>6. ASSUME refresh.at = "calls"
        PROVE  /\ MoreCalls(refresh.calls, spoken')
               /\ refresh.since <= G!Strength(row, refresh.calls, inbox')
    <2>1. /\ refresh.calls \in Seq(CallRow) /\ MoreCalls(refresh.calls, spoken)
          /\ refresh.since <= G!Strength(row, refresh.calls, inbox)
      BY <1>1, <1>6, Zenon DEF RefreshSound
    <2>2. MoreCalls(refresh.calls, spoken')
      BY <1>1, <2>1, MoreCallsOnTop
    <2>3. G!Strength(row, refresh.calls, inbox) <= G!Strength(row, refresh.calls, inbox')
      BY <1>1, <1>2, <1>3, <1>6, <2>1, SameCalls, StrengthGrows
    <2>4. /\ G!Strength(row, refresh.calls, inbox) \in 0 .. 70
          /\ G!Strength(row, refresh.calls, inbox') \in 0 .. 70
      BY StrengthBound, Zenon
    <2>5. QED
      BY <1>2, <1>3, <1>4, <1>6, <2>1, <2>2, <2>3, <2>4, Zenon
  <1>7. ASSUME refresh.at = "scored" PROVE refresh.strength <= G!Strength(row, spoken', inbox')
    <2>1. refresh.strength <= G!Strength(row, spoken, inbox) /\ refresh.strength \in 0 .. 70
      BY <1>1, <1>7, Zenon DEF RefreshSound
    <2>2. QED
      BY <1>2, <1>3, <1>4, <1>7, <2>1, Zenon
  <1>8. QED
    BY <1>1, <1>5, <1>6, <1>7, Zenon DEF RefreshSound

\* The last contact is no older, and nothing that counts is less: no points are lost.
LEMMA PointsKept ==
    ASSUME EngagedInv, G!TypeOK', spoken' \in Seq(CallRow), MoreCalls(spoken, spoken'), inbox <= inbox',
           \/ card'.called = card.called /\ card'.texted \in {card.texted, today}
           \/ card'.called = today
    PROVE  G!ContactsCount
  <1> SUFFICES ASSUME today' = today, card.appointment => card'.appointment,
                      ~ (card'.hot < card.hot \/ card'.other < card.other)
               PROVE  G!Composite(card, spoken, inbox)' >= G!Composite(card, spoken, inbox)
    BY Zenon DEF G!ContactsCount
  <1>1. /\ CountedRow(card) /\ CountedRow(card') /\ inbox \in Nat /\ inbox' \in Nat
        /\ spoken \in Seq(CallRow) /\ today \in Nat
        /\ card.called \in -1 .. LastDay /\ card.texted \in -1 .. LastDay
    BY EngagementBounds DEF EngagedInv, G!TypeOK, CountedRow, G!Never
  <1>2. MoreRow(card, card')
    BY <1>1 DEF MoreRow, CountedRow
  <1>3. G!Strength(card, spoken, inbox) <= G!Strength(card', spoken', inbox')
    BY <1>1, <1>2, StrengthGrows
  <1>4. G!Recency(card) <= G!Recency(card)'
    <2>1. CASE card'.called = card.called /\ card'.texted = card.texted
      BY <1>1, <2>1, EngagementBounds DEF G!Recency
    <2>2. CASE card'.called = card.called /\ card'.texted = today
      BY <1>1, <2>2, EngagementBounds DEF G!Recency, G!Never
    <2>3. CASE card'.called = today
      BY <1>1, <2>3, EngagementBounds DEF G!Recency, G!Never
    <2>4. QED
      BY <2>1, <2>2, <2>3
  <1>5. /\ G!Recency(card) \in 0 .. 30
        /\ G!Recency(card)' \in 0 .. 30
        /\ G!Strength(card, spoken, inbox) \in 0 .. 70
        /\ G!Strength(card', spoken', inbox') \in 0 .. 70
    <2>1. G!Recency(card)' \in 0 .. 30
      BY DEF G!Recency
    <2>2. QED
      BY <2>1, RecencyBound, StrengthBound, Zenon
  <1>6. \A p \in 0 .. 100, a, b \in 0 .. 30, c, d \in 0 .. 70 : a <= b /\ c <= d => p + b + d >= p + a + c
    OBVIOUS
  <1>7. QED
    BY <1>3, <1>4, <1>5, <1>6, EngagementBounds, Zenon DEF G!Composite

CardRow == [appointment : BOOLEAN, called : -1 .. LastDay, texted : -1 .. LastDay,
            hot : 0 .. MaxContacts, other : 0 .. MaxContacts, closed : BOOLEAN,
            points : {-1} \cup 0 .. 200]

LEMMA EngagementTypes ==
    G!TypeOK <=>
        /\ today \in 0 .. LastDay /\ contacts \in 0 .. MaxContacts /\ inbox \in 0 .. MaxContacts
        /\ card \in CardRow /\ refresh.at \in {"asleep", "lead", "calls", "scored"}
  BY DEF G!TypeOK, CardRow, G!Never

LEMMA OneContactMore ==
    ASSUME EngagedInv, G!Contact
    PROVE  contacts' \in 0 .. MaxContacts /\ contacts <= contacts' /\ contacts' = contacts + 1
  BY EngagementBounds, EngagementTypes DEF EngagedInv, G!Contact

LEMMA EngagementContacts ==
    ASSUME EngagedInv,
           \/ G!Dialled \/ G!Texted \/ G!Book \/ G!CancelBooking \/ G!OptOut \/ G!NextDay
    PROVE  EngagedInv' /\ G!ContactsCount
  <1> USE EngagementBounds
  <1>1. /\ today \in 0 .. LastDay /\ contacts \in 0 .. MaxContacts /\ inbox \in 0 .. MaxContacts
        /\ card \in CardRow /\ refresh.at \in {"asleep", "lead", "calls", "scored"}
        /\ spoken \in Seq(CallRow)
    BY EngagementTypes, Zenon DEF EngagedInv
  <1>2. /\ UNCHANGED <<spoken, inbox, replying, refresh>>
        /\ today' \in 0 .. LastDay /\ contacts' \in 0 .. MaxContacts /\ contacts <= contacts'
        /\ card' \in CardRow /\ card'.hot = card.hot /\ card'.other = card.other
        /\ \/ card'.called = card.called /\ card'.texted \in {card.texted, today}
           \/ card'.called = today
    <2>1. CASE G!Dialled
      <3>1. card' = [card EXCEPT !.called = today] /\ today \in -1 .. LastDay
        BY <1>1, <2>1 DEF G!Dialled
      <3>2. card' \in CardRow
        BY <1>1, <3>1 DEF CardRow
      <3>3. card'.hot = card.hot /\ card'.other = card.other /\ card'.called = today
        BY <1>1, <3>1 DEF CardRow
      <3>4. QED
        BY <1>1, <2>1, <3>2, <3>3, OneContactMore DEF G!Dialled
    <2>2. CASE G!Texted
      <3>1. card' = [card EXCEPT !.texted = today] /\ today \in -1 .. LastDay
        BY <1>1, <2>2 DEF G!Texted
      <3>2. card' \in CardRow
        BY <1>1, <3>1 DEF CardRow
      <3>3. /\ card'.hot = card.hot /\ card'.other = card.other
            /\ card'.called = card.called /\ card'.texted = today
        BY <1>1, <3>1 DEF CardRow
      <3>4. QED
        BY <1>1, <2>2, <3>2, <3>3, OneContactMore DEF G!Texted
    <2>3. CASE G!Book
      <3>1. card' = [card EXCEPT !.appointment = TRUE]
        BY <2>3 DEF G!Book
      <3>2. card' \in CardRow
        BY <1>1, <3>1 DEF CardRow
      <3>3. /\ card'.hot = card.hot /\ card'.other = card.other
            /\ card'.called = card.called /\ card'.texted = card.texted
        BY <1>1, <3>1 DEF CardRow
      <3>4. QED
        BY <1>1, <2>3, <3>2, <3>3, OneContactMore DEF G!Book
    <2>4. CASE G!OptOut
      <3>1. card' = [card EXCEPT !.closed = TRUE]
        BY <2>4 DEF G!OptOut
      <3>2. card' \in CardRow
        BY <1>1, <3>1 DEF CardRow
      <3>3. /\ card'.hot = card.hot /\ card'.other = card.other
            /\ card'.called = card.called /\ card'.texted = card.texted
        BY <1>1, <3>1 DEF CardRow
      <3>4. QED
        BY <1>1, <2>4, <3>2, <3>3, OneContactMore DEF G!OptOut
    <2>5. CASE G!CancelBooking
      <3>1. card' = [card EXCEPT !.appointment = FALSE]
        BY <1>1, <2>5 DEF G!CancelBooking
      <3>2. card' \in CardRow
        BY <1>1, <3>1 DEF CardRow
      <3>3. /\ card'.hot = card.hot /\ card'.other = card.other
            /\ card'.called = card.called /\ card'.texted = card.texted
        BY <1>1, <3>1 DEF CardRow
      <3>4. QED
        BY <1>1, <2>5, <3>2, <3>3 DEF G!CancelBooking
    <2>6. CASE G!NextDay
      BY <1>1, <2>6 DEF G!NextDay, CardRow
    <2>7. QED
      BY <2>1, <2>2, <2>3, <2>4, <2>5, <2>6
  <1>3. G!TypeOK'
    BY <1>1, <1>2 DEF G!TypeOK, CardRow, G!Never
  <1>4. RepliesSound'
    <2>1. contacts' \in Nat
      BY <1>2
    <2>2. QED
      BY <1>2, <2>1, RepliesKept
  <1>5. inbox' \in Nat /\ inbox <= inbox' /\ spoken' \in Seq(CallRow) /\ MoreCalls(spoken, spoken')
    BY <1>1, <1>2, SameCalls
  <1>6. RefreshSound'
    BY <1>2, <1>5, RefreshKept
  <1>7. G!ContactsCount
    BY <1>2, <1>3, <1>5, PointsKept
  <1>8. QED
    BY <1>3, <1>4, <1>5, <1>6, <1>7 DEF EngagedInv

LEMMA EngagementSpoke ==
    ASSUME EngagedInv, NEW d \in G!Direction, G!Spoke(d)
    PROVE  EngagedInv' /\ G!ContactsCount
  <1>1. /\ today \in 0 .. LastDay /\ contacts \in 0 .. MaxContacts /\ inbox \in 0 .. MaxContacts
        /\ card \in CardRow /\ refresh.at \in {"asleep", "lead", "calls", "scored"}
        /\ spoken \in Seq(CallRow)
    BY EngagementTypes, Zenon DEF EngagedInv
  <1>2. /\ contacts' \in 0 .. MaxContacts /\ contacts <= contacts'
        /\ UNCHANGED <<today, card, inbox, replying, refresh>>
        /\ spoken' = Append(spoken, [direction |-> d, seconds |-> 0])
    BY OneContactMore DEF G!Spoke
  <1>3. [direction |-> d, seconds |-> 0] \in CallRow
    BY DEF CallRow
  <1>4. spoken' \in Seq(CallRow) /\ MoreCalls(spoken, spoken')
    BY <1>1, <1>2, <1>3, OneCallMore
  <1>5. G!TypeOK'
    BY <1>1, <1>2 DEF G!TypeOK, CardRow, G!Never
  <1>6. contacts' \in Nat /\ inbox' \in Nat /\ inbox <= inbox'
    BY <1>1, <1>2, EngagementBounds
  <1>7. RepliesSound'
    BY <1>2, <1>6, RepliesKept
  <1>8. RefreshSound'
    BY <1>2, <1>4, <1>6, RefreshKept
  <1>9. G!ContactsCount
    BY <1>2, <1>4, <1>5, <1>6, PointsKept
  <1>10. QED
    BY <1>4, <1>5, <1>7, <1>8, <1>9 DEF EngagedInv

\* One thread turns to its reply, or is done with it.
LEMMA ReplyTurns ==
    ASSUME EngagedInv, NEW r \in Replier, NEW x \in Reply, replying' = [replying EXCEPT ![r] = x]
    PROVE  /\ DOMAIN replying' = Replier /\ replying'[r] = x
           /\ \A q \in Replier : replying'[q] \in Reply
           /\ \A q \in Replier \ {r} : replying'[q] = replying[q]
           /\ IsFiniteSet(Writing') /\ Cardinality(Writing) \in Nat
           /\ x = G!Still =>
                IF replying[r] = G!Still THEN Writing' = Writing
                ELSE Cardinality(Writing') = Cardinality(Writing) - 1
           /\ x # G!Still =>
                IF replying[r] = G!Still THEN Cardinality(Writing') = Cardinality(Writing) + 1
                ELSE Writing' = Writing
  <1>1. DOMAIN replying = Replier /\ (\A q \in Replier : replying[q] \in Reply) /\ IsFiniteSet(Writing)
    BY DEF EngagedInv, RepliesSound
  <1>2. /\ DOMAIN replying' = Replier /\ replying'[r] = x
        /\ \A q \in Replier : replying'[q] \in Reply
        /\ \A q \in Replier \ {r} : replying'[q] = replying[q]
    BY <1>1
  <1>3. x = G!Still => Writing' = Writing \ {r}
    BY <1>1, <1>2 DEF Writing
  <1>4. x # G!Still => Writing' = Writing \cup {r}
    BY <1>1, <1>2 DEF Writing
  <1>5. replying[r] = G!Still <=> r \notin Writing
    BY DEF Writing
  <1>6. /\ IsFiniteSet(Writing \ {r}) /\ IsFiniteSet(Writing \cup {r})
        /\ Cardinality(Writing) \in Nat
        /\ r \in Writing => Cardinality(Writing \ {r}) = Cardinality(Writing) - 1
        /\ r \notin Writing => Cardinality(Writing \cup {r}) = Cardinality(Writing) + 1
    BY <1>1, FS_AddElement, FS_RemoveElement, FS_CardinalityType
  <1>7. IsFiniteSet(Writing')
    BY <1>3, <1>4, <1>6
  <1>8. /\ r \notin Writing => Writing \ {r} = Writing
        /\ r \in Writing => Writing \cup {r} = Writing
    OBVIOUS
  <1>9. QED
    BY <1>2, <1>3, <1>4, <1>5, <1>6, <1>7, <1>8

LEMMA EngagementText ==
    ASSUME EngagedInv, NEW r \in Replier, NEW kind \in ReplyKind, G!TextCame(r, kind)
    PROVE  EngagedInv' /\ G!ContactsCount
  <1>1. /\ today \in 0 .. LastDay /\ contacts \in 0 .. MaxContacts /\ inbox \in 0 .. MaxContacts
        /\ card \in CardRow /\ refresh.at \in {"asleep", "lead", "calls", "scored"}
        /\ spoken \in Seq(CallRow) /\ RepliesSound
    BY EngagementTypes, Zenon DEF EngagedInv
  <1> DEFINE x == [at |-> "logged", kind |-> kind]
  <1>2. /\ contacts' \in 0 .. MaxContacts /\ contacts' = contacts + 1
        /\ inbox' = inbox + 1 /\ inbox <= contacts
        /\ UNCHANGED <<today, card, spoken, refresh>>
        /\ replying[r] = G!Still /\ replying' = [replying EXCEPT ![r] = x]
    BY <1>1, OneContactMore DEF G!TextCame, RepliesSound
  <1>3. x \in Reply /\ x # G!Still /\ x.at = "logged"
    BY DEF Reply, G!Still
  <1> HIDE DEF x
  <1>4. /\ DOMAIN replying' = Replier /\ replying'[r] = x
        /\ \A q \in Replier : replying'[q] \in Reply
        /\ \A q \in Replier \ {r} : replying'[q] = replying[q]
        /\ IsFiniteSet(Writing') /\ Cardinality(Writing) \in Nat
        /\ Cardinality(Writing') = Cardinality(Writing) + 1
    BY <1>2, <1>3, ReplyTurns
  <1>5. inbox' \in 0 .. MaxContacts /\ inbox' \in Nat /\ inbox <= inbox' /\ inbox' <= contacts'
    BY <1>1, <1>2, EngagementBounds
  <1>6. card.hot + card.other + Cardinality(Writing') <= inbox'
    <2>1. card.hot \in Nat /\ card.other \in Nat
      BY <1>1, EngagementBounds DEF CardRow
    <2>2. QED
      BY <1>1, <1>2, <1>4, <2>1, EngagementBounds DEF RepliesSound
  <1>7. ASSUME NEW q \in Replier, replying'[q].at = "read"
        PROVE  replying'[q].hot + replying'[q].other + Cardinality(Writing') <= inbox'
    <2>1. q # r /\ replying'[q] = replying[q]
      BY <1>3, <1>4, <1>7
    <2>2. replying[q].hot \in Nat /\ replying[q].other \in Nat
      BY <1>1, <1>7, <2>1, ReplyFields DEF RepliesSound
    <2>3. replying[q].hot + replying[q].other + Cardinality(Writing) <= inbox
      BY <1>1, <1>7, <2>1 DEF RepliesSound
    <2>4. QED
      BY <1>1, <1>2, <1>4, <2>1, <2>2, <2>3, EngagementBounds
  <1>8. RepliesSound'
    BY <1>2, <1>4, <1>5, <1>6, <1>7 DEF RepliesSound
  <1>9. spoken' \in Seq(CallRow) /\ MoreCalls(spoken, spoken')
    BY <1>1, <1>2, SameCalls
  <1>10. G!TypeOK'
    BY <1>1, <1>2, <1>5 DEF G!TypeOK, CardRow, G!Never
  <1>11. RefreshSound'
    BY <1>2, <1>5, <1>9, RefreshKept
  <1>12. G!ContactsCount
    BY <1>2, <1>5, <1>9, <1>10, PointsKept
  <1>13. QED
    BY <1>8, <1>9, <1>10, <1>11, <1>12 DEF EngagedInv

\* A thread that reads, writes or fails: no text comes, and what it leaves is no more than
\* the texts there are.
LEMMA EngagementReply ==
    ASSUME EngagedInv, NEW r \in Replier, NEW x \in Reply,
           replying' = [replying EXCEPT ![r] = x], replying[r] # G!Still,
           UNCHANGED <<today, spoken, inbox, refresh, contacts>>,
           card' \in CardRow, card'.called = card.called, card'.texted = card.texted,
           IF x = G!Still
           THEN card'.hot + card'.other + Cardinality(Writing) - 1 <= inbox
           ELSE card' = card,
           x.at = "read" => x.hot + x.other + Cardinality(Writing) <= inbox
    PROVE  EngagedInv' /\ G!ContactsCount
  <1>1. /\ today \in 0 .. LastDay /\ contacts \in 0 .. MaxContacts /\ inbox \in 0 .. MaxContacts
        /\ card \in CardRow /\ refresh.at \in {"asleep", "lead", "calls", "scored"}
        /\ spoken \in Seq(CallRow) /\ RepliesSound
    BY EngagementTypes, Zenon DEF EngagedInv
  <1>2. /\ DOMAIN replying' = Replier /\ replying'[r] = x
        /\ \A q \in Replier : replying'[q] \in Reply
        /\ \A q \in Replier \ {r} : replying'[q] = replying[q]
        /\ IsFiniteSet(Writing') /\ Cardinality(Writing) \in Nat
        /\ x = G!Still => Cardinality(Writing') = Cardinality(Writing) - 1
        /\ x # G!Still => Cardinality(Writing') = Cardinality(Writing)
    BY ReplyTurns
  <1>3. inbox' \in Nat /\ inbox <= inbox' /\ spoken' \in Seq(CallRow) /\ MoreCalls(spoken, spoken')
    BY <1>1, SameCalls, EngagementBounds
  <1>4. card.hot \in Nat /\ card.other \in Nat /\ card'.hot \in Nat /\ card'.other \in Nat
    BY <1>1, EngagementBounds DEF CardRow
  <1>5. card'.hot + card'.other + Cardinality(Writing') <= inbox'
    <2>1. CASE x = G!Still
      BY <1>1, <1>2, <1>4, <2>1
    <2>2. CASE x # G!Still
      BY <1>1, <1>2, <1>4, <2>2 DEF RepliesSound
    <2>3. QED
      BY <2>1, <2>2
  <1>6. ASSUME NEW q \in Replier, replying'[q].at = "read"
        PROVE  replying'[q].hot + replying'[q].other + Cardinality(Writing') <= inbox'
    <2>1. CASE q = r
      <3>1. x # G!Still
        BY <1>2, <1>6, <2>1 DEF G!Still
      <3>2. QED
        BY <1>2, <1>6, <2>1, <3>1
    <2>2. CASE q # r
      <3>1. replying'[q] = replying[q]
        BY <1>2, <2>2
      <3>2. replying[q].hot \in Nat /\ replying[q].other \in Nat
        BY <1>1, <1>6, <3>1, ReplyFields DEF RepliesSound
      <3>3. replying[q].hot + replying[q].other + Cardinality(Writing) <= inbox
        BY <1>1, <1>6, <3>1 DEF RepliesSound
      <3>4. Cardinality(Writing') = Cardinality(Writing) \/ Cardinality(Writing') = Cardinality(Writing) - 1
        BY <1>2
      <3>5. QED
        BY <1>1, <1>2, <3>1, <3>2, <3>3, <3>4
    <2>3. QED
      BY <2>1, <2>2
  <1>7. RepliesSound'
    BY <1>1, <1>2, <1>5, <1>6 DEF RepliesSound
  <1>8. G!TypeOK'
    BY <1>1 DEF G!TypeOK, CardRow, G!Never
  <1>9. RefreshSound'
    BY <1>3, RefreshKept
  <1>10. G!ContactsCount
    BY <1>3, <1>8, PointsKept
  <1>11. QED
    BY <1>3, <1>7, <1>8, <1>9, <1>10 DEF EngagedInv

LEMMA EngagementReplies ==
    ASSUME EngagedInv, NEW r \in Replier,
           G!ReadReplies(r) \/ G!AppendReply(r) \/ G!ReplyFails(r)
    PROVE  EngagedInv' /\ G!ContactsCount
  <1>1. /\ card \in CardRow /\ RepliesSound /\ replying[r] \in Reply
        /\ card.hot \in Nat /\ card.other \in Nat
        /\ inbox \in 0 .. MaxContacts /\ inbox <= MaxContacts
    BY EngagementTypes, EngagementBounds DEF EngagedInv, CardRow, RepliesSound
  <1>2. /\ IsFiniteSet(Writing) /\ Cardinality(Writing) \in Nat
        /\ replying[r] # G!Still => Cardinality(Writing) >= 1
    <2>1. IsFiniteSet(Writing)
      BY <1>1 DEF RepliesSound
    <2>2. replying[r] # G!Still => r \in Writing
      BY DEF Writing
    <2>3. Cardinality(Writing) = 0 <=> Writing = {}
      BY <2>1, FS_EmptySet
    <2>4. Cardinality(Writing) \in Nat
      BY <2>1, FS_CardinalityType
    <2>5. QED
      BY <2>1, <2>2, <2>3, <2>4
  <1>3. CASE G!ReadReplies(r)
    <2> DEFINE x == [at |-> "read", kind |-> replying[r].kind, hot |-> card.hot, other |-> card.other]
    <2>1. replying[r].at = "logged" /\ replying[r].kind \in ReplyKind /\ replying[r] # G!Still
      BY <1>1, <1>3, ReplyFields DEF G!ReadReplies
    <2>2. /\ x \in Reply /\ x # G!Still /\ x.at = "read" /\ x.hot = card.hot /\ x.other = card.other
      BY <1>1, <2>1 DEF Reply, G!Still
    <2>3. /\ replying' = [replying EXCEPT ![r] = x]
          /\ UNCHANGED <<today, card, spoken, inbox, refresh, contacts>>
      BY <1>3 DEF G!ReadReplies
    <2> HIDE DEF x
    <2>4. x.hot + x.other + Cardinality(Writing) <= inbox
      BY <1>1, <2>2 DEF RepliesSound
    <2>5. card' \in CardRow
      BY <1>1, <2>3
    <2>6. QED
      BY <2>1, <2>2, <2>3, <2>4, <2>5, EngagementReply
  <1>4. CASE G!AppendReply(r)
    <2> DEFINE h == IF replying[r].kind = "hot" THEN 1 ELSE 0
               o == IF replying[r].kind = "other" THEN 1 ELSE 0
    <2>1. /\ replying[r].at = "read" /\ replying[r].kind \in ReplyKind /\ replying[r] # G!Still
          /\ replying[r].hot \in Nat /\ replying[r].other \in Nat
      BY <1>1, <1>4, ReplyFields DEF G!AppendReply
    <2>2. /\ replying' = [replying EXCEPT ![r] = G!Still]
          /\ card' = [card EXCEPT !.hot = replying[r].hot + h, !.other = replying[r].other + o]
          /\ UNCHANGED <<today, spoken, inbox, refresh, contacts>>
      BY <1>4 DEF G!AppendReply
    <2>3. h \in {0, 1} /\ o \in {0, 1} /\ h + o = 1
      BY <2>1 DEF ReplyKind
    <2> HIDE DEF h, o
    <2>4. replying[r].hot + replying[r].other + Cardinality(Writing) <= inbox
      BY <1>1, <2>1 DEF RepliesSound
    <2>5. /\ replying[r].hot + h + (replying[r].other + o) + Cardinality(Writing) - 1 <= inbox
          /\ replying[r].hot + h \in 0 .. MaxContacts
          /\ replying[r].other + o \in 0 .. MaxContacts
      BY <1>1, <1>2, <2>1, <2>3, <2>4, EngagementBounds
    <2>6. card' \in CardRow
      BY <1>1, <2>2, <2>5 DEF CardRow
    <2>7. /\ card'.hot = replying[r].hot + h /\ card'.other = replying[r].other + o
          /\ card'.called = card.called /\ card'.texted = card.texted
      BY <1>1, <2>2 DEF CardRow
    <2>8. G!Still \in Reply /\ ~ (G!Still.at = "read")
      BY DEF Reply, G!Still
    <2>9. card'.hot + card'.other + Cardinality(Writing) - 1 <= inbox
      BY <2>5, <2>7
    <2>10. QED
      BY <2>1, <2>2, <2>6, <2>7, <2>8, <2>9, EngagementReply
  <1>5. CASE G!ReplyFails(r)
    <2>1. /\ replying[r] # G!Still /\ replying' = [replying EXCEPT ![r] = G!Still]
          /\ UNCHANGED <<today, card, spoken, inbox, refresh, contacts>>
      BY <1>1, <1>5, ReplyFields DEF G!ReplyFails
    <2>2. G!Still \in Reply /\ ~ (G!Still.at = "read")
      BY DEF Reply, G!Still
    <2>3. card'.hot + card'.other + Cardinality(Writing) - 1 <= inbox
      BY <1>1, <1>2, <2>1 DEF RepliesSound
    <2>4. card' \in CardRow
      BY <1>1, <2>1
    <2>5. QED
      BY <2>1, <2>2, <2>3, <2>4, EngagementReply
  <1>6. QED
    BY <1>3, <1>4, <1>5

\* A step of the refresh writes the points at most.
LEMMA EngagementRefresh ==
    ASSUME EngagedInv, RefreshSound', refresh'.at \in {"asleep", "lead", "calls", "scored"},
           UNCHANGED <<today, spoken, inbox, replying, contacts>>,
           NEW p \in {-1} \cup 0 .. 200, card' = card \/ card' = [card EXCEPT !.points = p]
    PROVE  EngagedInv' /\ G!ContactsCount
  <1>1. /\ today \in 0 .. LastDay /\ contacts \in 0 .. MaxContacts /\ inbox \in 0 .. MaxContacts
        /\ card \in CardRow /\ spoken \in Seq(CallRow) /\ RepliesSound
    BY EngagementTypes, Zenon DEF EngagedInv
  <1>2. card' \in CardRow
    <2>1. CASE card' = card
      BY <1>1, <2>1
    <2>2. CASE card' = [card EXCEPT !.points = p]
      BY <1>1, <2>2 DEF CardRow
    <2>3. QED
      BY <2>1, <2>2
  <1>3. /\ card'.hot = card.hot /\ card'.other = card.other
        /\ card'.called = card.called /\ card'.texted = card.texted
    <2>1. CASE card' = card
      BY <2>1
    <2>2. CASE card' = [card EXCEPT !.points = p]
      BY <1>1, <2>2 DEF CardRow
    <2>3. QED
      BY <2>1, <2>2
  <1>4. G!TypeOK'
    BY <1>1, <1>2 DEF G!TypeOK, CardRow, G!Never
  <1>5. /\ contacts' \in Nat /\ contacts <= contacts' /\ inbox' \in Nat /\ inbox <= inbox'
        /\ spoken' \in Seq(CallRow) /\ MoreCalls(spoken, spoken')
    BY <1>1, SameCalls, EngagementBounds
  <1>6. RepliesSound'
    BY <1>3, <1>5, RepliesKept
  <1>7. G!ContactsCount
    BY <1>3, <1>4, <1>5, PointsKept
  <1>8. QED
    BY <1>4, <1>5, <1>6, <1>7 DEF EngagedInv

LEMMA RefreshFields ==
    ASSUME EngagedInv
    PROVE  /\ refresh.at \in {"asleep", "lead", "calls", "scored"}
           /\ refresh.at \in {"lead", "calls", "scored"} =>
                CountedRow(refresh.row) /\ refresh.since \in 0 .. 70 /\ MoreRow(refresh.row, refresh.row)
  <1>1. refresh.at \in {"asleep", "lead", "calls", "scored"} /\ RefreshSound
    BY EngagementTypes, Zenon DEF EngagedInv
  <1>2. refresh.at # "asleep" => refresh # G!Asleep
    BY DEF G!Asleep
  <1>3. refresh # G!Asleep => CountedRow(refresh.row) /\ refresh.since \in 0 .. 70
    BY <1>1 DEF RefreshSound
  <1>4. CountedRow(refresh.row) => MoreRow(refresh.row, refresh.row)
    BY DEF CountedRow, MoreRow
  <1>5. QED
    BY <1>1, <1>2, <1>3, <1>4

LEMMA EngagementReadLead ==
    ASSUME EngagedInv, G!ReadLead PROVE EngagedInv' /\ G!ContactsCount
  <1>1. /\ card \in CardRow /\ spoken \in Seq(CallRow) /\ inbox \in Nat
    BY EngagementTypes, EngagementBounds DEF EngagedInv
  <1> DEFINE row == [x \in G!Scored |-> card[x]]
             nothing == [G!Unbooked(card) EXCEPT !.hot = 0, !.other = 0]
             since == G!Strength(nothing, spoken, inbox)
  <1>2. /\ row.appointment = card.appointment /\ row.hot = card.hot /\ row.other = card.other
    BY DEF G!Scored
  <1>3. ~ nothing.appointment /\ nothing.appointment \in BOOLEAN /\ nothing.hot = 0 /\ nothing.other = 0
    BY <1>1 DEF G!Unbooked, CardRow
  <1>4. CountedRow(row) /\ CountedRow(nothing) /\ MoreRow(nothing, row)
    <2>1. card.appointment \in BOOLEAN /\ card.hot \in Nat /\ card.other \in Nat
      BY <1>1, EngagementBounds DEF CardRow
    <2>2. QED
      BY <1>2, <1>3, <2>1 DEF CountedRow, MoreRow
  <1>5. refresh' = [at |-> "lead", row |-> row, since |-> since]
    BY DEF G!ReadLead, G!Restrict
  <1>6. UNCHANGED <<today, card, spoken, inbox, replying, contacts>>
    BY DEF G!ReadLead
  <1> HIDE DEF row, nothing
  <1>7. since <= G!Strength(row, spoken, inbox)
    BY <1>1, <1>4, SameCalls, StrengthGrows
  <1>8. since \in 0 .. 70
    BY StrengthBound, Zenon
  <1> HIDE DEF since
  <1>9. refresh'.at = "lead" /\ refresh'.row = row /\ refresh'.since = since
    BY <1>5
  <1>10. RefreshSound'
    BY <1>4, <1>6, <1>7, <1>8, <1>9 DEF RefreshSound
  <1>11. QED
    BY <1>6, <1>9, <1>10, EngagementRefresh

LEMMA EngagementReadCalls ==
    ASSUME EngagedInv, G!ReadCalls PROVE EngagedInv' /\ G!ContactsCount
  <1>1. /\ spoken \in Seq(CallRow) /\ RefreshSound /\ refresh.at = "lead"
    BY DEF EngagedInv, G!ReadCalls
  <1>2. CountedRow(refresh.row) /\ refresh.since \in 0 .. 70
    BY <1>1, RefreshFields
  <1>3. /\ refresh'.at = "calls" /\ refresh'.row = refresh.row /\ refresh'.since = refresh.since
        /\ refresh'.calls = spoken
        /\ UNCHANGED <<today, card, spoken, inbox, replying, contacts>>
    BY DEF G!ReadCalls
  <1>4. refresh.since <= G!Strength(refresh.row, spoken, inbox)
    BY <1>1, Zenon DEF RefreshSound
  <1>5. MoreCalls(spoken, spoken)
    BY <1>1, SameCalls
  <1>6. RefreshSound'
    BY <1>1, <1>2, <1>3, <1>4, <1>5 DEF RefreshSound
  <1>7. QED
    BY <1>3, <1>6, EngagementRefresh

LEMMA EngagementReadTexts ==
    ASSUME EngagedInv, G!ReadTexts PROVE EngagedInv' /\ G!ContactsCount
  <1> DEFINE row == refresh.row
             now0 == G!Strength(row, refresh.calls, inbox)
             points == G!Composite(row, refresh.calls, inbox)
  <1>1. /\ spoken \in Seq(CallRow) /\ inbox \in Nat /\ RefreshSound /\ refresh.at = "calls"
    BY EngagementTypes, EngagementBounds DEF EngagedInv, G!ReadTexts
  <1>2. CountedRow(row) /\ refresh.since \in 0 .. 70 /\ MoreRow(row, row)
    BY <1>1, RefreshFields
  <1>3. /\ refresh.calls \in Seq(CallRow) /\ MoreCalls(refresh.calls, spoken)
        /\ refresh.since <= now0
    BY <1>1, Zenon DEF RefreshSound
  <1>4. now0 <= G!Strength(row, spoken, inbox)
    BY <1>1, <1>2, <1>3, StrengthGrows
  <1>5. now0 \in 0 .. 70 /\ points \in 0 .. 200
    BY StrengthBound, CompositeBound, Zenon
  <1>6. /\ refresh' = [at |-> "scored", row |-> row, since |-> refresh.since,
                       strength |-> now0, points |-> points]
        /\ UNCHANGED <<today, card, spoken, inbox, replying, contacts>>
    BY DEF G!ReadTexts
  <1> HIDE DEF row, now0, points
  <1>7. /\ refresh'.at = "scored" /\ refresh'.row = row /\ refresh'.since = refresh.since
        /\ refresh'.strength = now0 /\ refresh'.points = points
    BY <1>6
  <1>8. RefreshSound'
    BY <1>2, <1>3, <1>4, <1>5, <1>6, <1>7 DEF RefreshSound
  <1>9. QED
    BY <1>6, <1>7, <1>8, EngagementRefresh

LEMMA EngagementSave ==
    ASSUME EngagedInv, G!SaveScores \/ G!Skip \/ UNCHANGED engagement
    PROVE  EngagedInv' /\ G!ContactsCount
  <1>1. CASE G!SaveScores
    <2>1. refresh.points \in 0 .. 200
      BY <1>1 DEF EngagedInv, RefreshSound, G!SaveScores
    <2>2. /\ refresh' = G!Asleep /\ card' = [card EXCEPT !.points = refresh.points]
          /\ UNCHANGED <<today, spoken, inbox, replying, contacts>>
      BY <1>1 DEF G!SaveScores
    <2>3. RefreshSound' /\ refresh'.at = "asleep"
      BY <2>2 DEF RefreshSound, G!Asleep
    <2>4. QED
      BY <2>1, <2>2, <2>3, EngagementRefresh
  <1>2. CASE G!Skip
    <2>1. /\ refresh' = G!Asleep /\ UNCHANGED <<today, card, spoken, inbox, replying, contacts>>
      BY <1>2 DEF G!Skip
    <2>2. RefreshSound' /\ refresh'.at = "asleep"
      BY <2>1 DEF RefreshSound, G!Asleep
    <2>3. QED
      BY <2>1, <2>2, EngagementRefresh
  <1>3. CASE UNCHANGED engagement
    <2>1. UNCHANGED <<today, card, spoken, inbox, replying, refresh, contacts>>
      BY <1>3 DEF engagement
    <2>2. RefreshSound'
      BY <2>1 DEF EngagedInv, RefreshSound
    <2>3. refresh'.at \in {"asleep", "lead", "calls", "scored"}
      BY <2>1, RefreshFields
    <2>4. QED
      BY <2>1, <2>2, <2>3, EngagementRefresh
  <1>4. QED
    BY <1>1, <1>2, <1>3

LEMMA EngagementStep ==
    ASSUME EngagedInv, G!Next \/ UNCHANGED engagement
    PROVE  EngagedInv' /\ G!ContactsCount
  <1>1. CASE G!Passed
    <2>1. UNCHANGED engagement
      BY <1>1 DEF G!Passed, G!engagementVars, engagement
    <2>2. QED
      BY <2>1, EngagementSave
  <1>2. QED
    BY <1>1, EngagementContacts, EngagementSpoke, EngagementText, EngagementReplies,
       EngagementReadLead, EngagementReadCalls, EngagementReadTexts, EngagementSave
       DEF G!Next, ReplyKind

LEMMA EngagementHolds == EngagedInv => G!EngagementInv
  <1> SUFFICES ASSUME EngagedInv PROVE G!EngagementInv
    OBVIOUS
  <1>1. G!TypeOK /\ inbox \in Nat /\ spoken \in Seq(CallRow) /\ card \in CardRow
    BY EngagementTypes, EngagementBounds DEF EngagedInv
  <1>2. G!LostRepliesCount
    BY <1>1 DEF G!LostRepliesCount, G!Intensity, G!Pattern, G!Answered
  <1>3. G!ScoreIsOfItsTime
    <2> SUFFICES ASSUME refresh.at = "scored" PROVE G!ScoreIsOfItsTime
      BY DEF G!ScoreIsOfItsTime
    <2> DEFINE row == refresh.row
               both == [card EXCEPT !.appointment = card.appointment \/ row.appointment,
                                    !.hot = card.hot + row.hot, !.other = card.other + row.other]
    <2>1. /\ refresh.since <= refresh.strength /\ refresh.strength \in 0 .. 70
          /\ refresh.strength <= G!Strength(row, spoken, inbox)
      BY Zenon DEF EngagedInv, RefreshSound
    <2>2. CountedRow(row) /\ CountedRow(card)
      BY <1>1, CardCounts, RefreshFields
    <2>3. /\ both.appointment = (card.appointment \/ row.appointment)
          /\ both.hot = card.hot + row.hot /\ both.other = card.other + row.other
      BY <1>1 DEF CardRow
    <2> HIDE DEF row
    <2>4. CountedRow(both) /\ MoreRow(row, both)
      <3> HIDE DEF both
      <3>1. QED
        BY <2>2, <2>3 DEF CountedRow, MoreRow
    <2>5. G!Strength(row, spoken, inbox) <= G!Strength(both, spoken, inbox)
      <3> HIDE DEF both
      <3>1. QED
        BY <1>1, <2>2, <2>4, SameCalls, StrengthGrows
    <2>6. G!Strength(row, spoken, inbox) \in 0 .. 70 /\ G!Strength(both, spoken, inbox) \in 0 .. 70
      BY StrengthBound, Zenon
    <2>7. \A a, b, c \in 0 .. 70 : a <= b /\ b <= c => a <= c
      OBVIOUS
    <2>8. refresh.strength <= G!Strength(both, spoken, inbox)
      BY <2>1, <2>5, <2>6, <2>7, Zenon
    <2>9. QED
      BY <2>1, <2>8, Zenon DEF G!ScoreIsOfItsTime, row
  <1>4. QED
    BY <1>1, <1>2, <1>3 DEF G!EngagementInv
-----------------------------------------------------------------------------
(***************************************************************************)
(* The parts side by side.  The calls take the steps of CallLedger, so that*)
(* what CallLedgerProofs shows of these holds here.                        *)
(***************************************************************************)
PartsInv ==
    /\ LedgerInv
    /\ part = "bookings" => B!BookingsSound
    /\ part = "reviews" => ReviewInv
    /\ part = "budget" => BudgetInv
    /\ part = "parcels" => ParcelSound
    /\ part = "scores" => evidence \in Evidence
    /\ part = "engagement" => EngagedInv

LEMMA RecordsStart == RecordsInit => PartsInv
  BY LedgerInit, BookingInit, ReviewInit, BudgetInit, ParcelInit, EvidenceStart, EngagementInit
     DEF RecordsInit, PartsInv

LEMMA IdleBookings ==
    ASSUME B!BookingsSound, UNCHANGED bookings PROVE B!BookingsSound'
  BY DEF bookings, B!BookingsSound, B!TypeOK, B!NoDoubleBooking, B!ShownIsConfirmed, B!Confirmed,
     B!CommandOnce, B!Overlaps, B!Begins

LEMMA IdleReviews == ASSUME ReviewInv, UNCHANGED reviews PROVE ReviewInv'
  <1>1. UNCHANGED <<house, changes, stopped, approval, desk, caller, decided, quoted>>
    BY DEF reviews
  <1>2. P!TypeOK' /\ P!QuotedWasApproved'
    BY <1>1 DEF ReviewInv, P!ReviewsSound, P!TypeOK, P!QuotedWasApproved
  <1>3. DesksSound'
    BY <1>1 DEF ReviewInv, DesksSound, DeskSound, P!Pending
  <1>4. QED
    BY <1>1, <1>2, <1>3, NoRowChanges

LEMMA IdleBudget == ASSUME BudgetInv, UNCHANGED budget PROVE BudgetInv'
  BY DEF budget, BudgetInv, Q!BudgetSound, Q!TypeOK, Q!WithinBudget, Q!Used, Q!InWindow,
     Q!ReservedRequests, Q!RecordedWasPaid, HeldAlone, HeldIsOpen, SavedWasPaid, PaidFor

LEMMA LedgerKept == ASSUME LedgerInv, [Next]_vars PROVE LedgerInv'
  BY LedgerStep

LEMMA OthersStep ==
    ASSUME PartsInv, [RecordsNext]_all
    PROVE  /\ part = "parcels" => ParcelSound' /\ R!PriceLostToVerdictOnly
           /\ part = "scores" => evidence' \in Evidence /\ E!MoreIsNotLess
           /\ part = "engagement" => EngagedInv' /\ G!ContactsCount
  <1>1. ASSUME part = "parcels" PROVE ParcelSound' /\ R!PriceLostToVerdictOnly
    <2>1. R!Next \/ UNCHANGED parcels
      BY <1>1 DEF RecordsNext, all
    <2>2. QED
      BY <1>1, <2>1, ParcelStep DEF PartsInv
  <1>2. ASSUME part = "scores" PROVE evidence' \in Evidence /\ E!MoreIsNotLess
    <2>1. E!Next \/ UNCHANGED evidence
      BY <1>2 DEF RecordsNext, all
    <2>2. QED
      BY <1>2, <2>1, EvidenceStep, MoreEvidence DEF PartsInv
  <1>3. ASSUME part = "engagement" PROVE EngagedInv' /\ G!ContactsCount
    <2>1. G!Next \/ UNCHANGED engagement
      BY <1>3 DEF RecordsNext, all
    <2>2. QED
      BY <1>3, <2>1, EngagementStep DEF PartsInv
  <1>4. QED
    BY <1>1, <1>2, <1>3

LEMMA RecordsStep == ASSUME PartsInv, [RecordsNext]_all PROVE PartsInv'
  <1>1. [Next]_vars
    BY DEF RecordsNext, all
  <1>2. LedgerInv'
    BY <1>1, LedgerKept DEF PartsInv
  <1>3. part' = part
    BY DEF RecordsNext, all
  <1>4. CASE part = "bookings"
    <2>1. B!Next \/ UNCHANGED bookings
      BY <1>4 DEF RecordsNext, all
    <2>2. B!BookingsSound'
      BY <1>4, <2>1, BookingStep, IdleBookings DEF PartsInv
    <2>3. QED
      BY <1>2, <1>3, <1>4, <2>2 DEF PartsInv
  <1>5. CASE part = "reviews"
    <2>1. P!Next \/ UNCHANGED reviews
      BY <1>5 DEF RecordsNext, all
    <2>2. ReviewInv'
      BY <1>5, <2>1, ReviewStep, IdleReviews DEF PartsInv
    <2>3. QED
      BY <1>2, <1>3, <1>5, <2>2 DEF PartsInv
  <1>6. CASE part = "budget"
    <2>1. Q!Next \/ UNCHANGED budget
      BY <1>6 DEF RecordsNext, all
    <2>2. BudgetInv'
      BY <1>6, <2>1, BudgetStep, IdleBudget DEF PartsInv
    <2>3. QED
      BY <1>2, <1>3, <1>6, <2>2 DEF PartsInv
  <1>7. CASE part \in {"parcels", "scores", "engagement"}
    <2>1. /\ part = "parcels" => ParcelSound'
          /\ part = "scores" => evidence' \in Evidence
          /\ part = "engagement" => EngagedInv'
      BY OthersStep
    <2>2. QED
      BY <1>2, <1>3, <1>7, <2>1 DEF PartsInv
  <1>8. CASE part \notin {"bookings", "reviews", "budget", "parcels", "scores", "engagement"}
    BY <1>2, <1>3, <1>8 DEF PartsInv
  <1>9. QED
    BY <1>4, <1>5, <1>6, <1>7, <1>8

LEMMA RecordsInvariant == RecordsSpec => []PartsInv
  <1>1. PartsInv /\ [RecordsNext]_all => PartsInv'
    BY RecordsStep
  <1>2. QED
    BY RecordsStart, <1>1, PTL DEF RecordsSpec

\* No two confirmed walkthroughs overlap, what a lead's row shows is in the calendar, and an
\* operator's command is carried out once: reserve_voice_appointment, apply_source_operation
\* and the reminders, for any leads, slots and commands.
THEOREM BookingsAreSound == RecordsSpec => []BookingsSound
  <1>1. PartsInv => BookingsSound
    BY DEF PartsInv, BookingsSound
  <1>2. QED
    BY RecordsInvariant, <1>1, PTL

\* Whatever requests, decisions on the two routes, corrections of the lead and expiries
\* come between, one request waits at a time, it is decided once, and a price told to a seller
\* is one that an operator approved for that property.
THEOREM ReviewsAreSound == RecordsSpec => []ReviewsSound
  <1>1. PartsInv => ReviewsSound
    BY DEF PartsInv, ReviewInv, ReviewsSound
  <1>2. QED
    BY RecordsInvariant, <1>1, PTL

\* However many batches run and wherever they stop, the provider is not asked beyond the cap
\* of the month, never twice under one reservation, and an estimate on a house was paid for.
THEOREM BudgetIsKept == RecordsSpec => []BudgetSound
  <1>1. PartsInv => BudgetSound
    BY DEF PartsInv, BudgetInv, BudgetSound
  <1>2. QED
    BY RecordsInvariant, <1>1, PTL

\* For any writers, estimates, facts and contacts: a parcel has one lead, an offer that fits a
\* value of known origin, and a price gives way to a price or to a verdict that disqualifies
\* the parcel, never to a writer that has none (upsert_property, the enrichment, the paid
\* valuation); nobody is called without a motive, and a fact more never counts less
\* (calculate_distress_score, rescore_with_arv); and what two replies and the nightly refresh
\* overtake of each other takes no points from a lead (score_lead_engagement).
THEOREM RecordsAreSound == RecordsSpec => RecordsSound
  <1>1. PartsInv =>
            /\ part = "parcels" => R!RecordsInv
            /\ part = "scores" => E!EvidenceInv
            /\ part = "engagement" => G!EngagementInv
    BY ParcelHolds, ScoresHold, EngagementHolds DEF PartsInv
  <1>2. PartsInv /\ [RecordsNext]_all =>
            [/\ part = "parcels" => R!PriceLostToVerdictOnly
             /\ part = "scores" => E!MoreIsNotLess
             /\ part = "engagement" => G!ContactsCount]_all
    BY OthersStep
  <1>3. QED
    BY RecordsInvariant, <1>1, <1>2, PTL DEF RecordsSpec, RecordsSound

\* The other records take no step of the calls: the composition implements the ledger, with
\* whatever is shown of it.
THEOREM LedgerRefined == RecordsSpec => Spec
  <1>1. RecordsInit => Init
    BY DEF RecordsInit
  <1>2. [RecordsNext]_all => [Next]_vars
    BY DEF RecordsNext, all
  <1>3. QED
    BY <1>1, <1>2, PTL DEF RecordsSpec, Spec
=============================================================================
