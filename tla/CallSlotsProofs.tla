--------------------------- MODULE CallSlotsProofs ---------------------------
(***************************************************************************)
(* Theorems about CallSlots for any leads, dialers, provider calls, limit  *)
(* and times, and however the answer to a dial may fail.  They account for *)
(* every call whose dialer has not taken it for refused; what becomes of   *)
(* the others is shown by run SlotsDisconnect.                             *)
(***************************************************************************)
EXTENDS CallSlots, FiniteSetTheorems, TLAPS

HeldLeads == {l \in Lead : Held(l)}
OnCall(l) == \E c \in Known : call[c].lead = l
Owner(l, d) == slot[l].kind = "slot" /\ slot[l].owner = d

\* A live call's slot outlives it, and is bound to it or not bound yet.
CallCovered ==
    \A c \in Known :
        LET s == slot[call[c].lead]
        IN  s.kind = "slot" /\ s.left > call[c].left /\ s.call \in {NoCall, c}

\* A dialer about to dial owns an unbound slot that outlives the call it will
\* place, for a lead that is on no call.
HolderCovered ==
    \A d \in Dialer : dial[d].at = "holding" =>
        LET l == dial[d].lead
        IN  /\ Owner(l, d) /\ slot[l].call = NoCall
            /\ slot[l].left > CallTime + dial[d].left
            /\ ~OnCall(l)

\* A dialer that has placed a call and still owns the slot has placed the one
\* call that may be live on the lead.
PlacerKnows ==
    \A d \in Dialer : dial[d].at \in {"placed", "accepted"} =>
        (Owner(dial[d].lead, d)
            => \A c \in Known : call[c].lead = dial[d].lead => c = dial[d].call)

\* A dialer that gives its slot up has no call on the lead.
FailureIsQuiet ==
    \A d \in Dialer : dial[d].at = "failed" => (Owner(dial[d].lead, d) => ~OnCall(dial[d].lead))

SlotInv ==
    /\ TypeOK
    /\ CallCovered /\ HolderCovered /\ PlacerKnows /\ FailureIsQuiet
    /\ OneCallPerLead

\* The fields that the records of well-typed states have.
LEMMA DialFields ==
    ASSUME TypeOK, NEW d \in Dialer
    PROVE  /\ dial[d] # Idle => dial[d].lead \in Lead
           /\ dial[d].at \in {"idle", "holding", "placed", "accepted", "failed"}
           /\ dial[d].at = "idle" <=> dial[d] = Idle
           /\ dial[d].at = "holding" => dial[d].left \in 0 .. DialTime
           /\ dial[d].at \in {"placed", "accepted"} => dial[d].call \in Call
  BY DEF TypeOK, Dial, Idle

LEMMA SlotFields ==
    ASSUME TypeOK, NEW l \in Lead
    PROVE  /\ slot[l] = NoSlot \/ slot[l].kind = "slot"
           /\ slot[l].kind = "slot" =>
                /\ slot[l] \in [kind : {"slot"}, left : 0 .. SlotTime, owner : Dialer,
                                call : Call \cup {NoCall}]
                /\ slot[l].left \in 0 .. SlotTime /\ slot[l].owner \in Dialer
  BY DEF TypeOK, Slot, NoSlot

LEMMA CallFields ==
    ASSUME TypeOK, NEW c \in Call
    PROVE  /\ call[c] = NoProviderCall \/ call[c].status \in {"live", "ended"}
           /\ call[c].status \in {"live", "ended"} =>
                /\ call[c] \in [status : {"live", "ended"}, lead : Lead, left : 0 .. CallTime,
                              denied : BOOLEAN]
                /\ call[c].lead \in Lead /\ call[c].left \in 0 .. CallTime
  BY DEF TypeOK, ProviderCall, NoProviderCall

\* Type correctness is inductive.
LEMMA TypeStep == TypeOK /\ [Next]_vars => TypeOK'
  <1> SUFFICES ASSUME TypeOK, [Next]_vars PROVE TypeOK'
    OBVIOUS
  <1> USE SlotAssumption
  <1>1. ASSUME NEW d \in Dialer, NEW l \in Lead, Acquire(d, l) PROVE TypeOK'
    <2> DEFINE kept == [m \in Lead |-> IF Held(m) THEN slot[m] ELSE NoSlot]
               new == [kind |-> "slot", left |-> SlotTime, owner |-> d, call |-> NoCall]
               held == [at |-> "holding", lead |-> l, left |-> DialTime]
    <2>1. kept \in [Lead -> Slot] /\ new \in Slot /\ held \in Dial
      BY DEF TypeOK, Slot, Dial
    <2>2. slot' \in [Lead -> Slot]
      <3>1. slot' \in {kept, [kept EXCEPT ![l] = new]} BY <1>1 DEF Acquire
      <3> QED BY <2>1, <3>1
    <2>3. dial' \in [Dialer -> Dial]
      <3>1. dial' \in {dial, [dial EXCEPT ![d] = held]} BY <1>1 DEF Acquire
      <3> HIDE DEF held
      <3> QED BY <2>1, <3>1 DEF TypeOK
    <2> QED BY <1>1, <2>2, <2>3 DEF TypeOK, Acquire
  <1>2. ASSUME NEW d \in Dialer, Place(d) PROVE TypeOK'
    BY <1>2, DialFields DEF TypeOK, Place, Dial, ProviderCall, Idle
  <1>3. ASSUME NEW d \in Dialer, Reject(d) PROVE TypeOK'
    <2>1. dial[d].lead \in Lead BY <1>3, DialFields DEF Reject, Idle
    <2> QED BY <1>3, <2>1 DEF TypeOK, Reject, Dial
  <1>4. ASSUME NEW d \in Dialer, LoseAnswer(d) PROVE TypeOK'
    <2> DEFINE p == dial[d].call
    <2>1. dial[d].lead \in Lead /\ dial[d].at \in {"holding", "placed"}
      BY <1>4, DialFields DEF LoseAnswer, Idle
    <2>2. PICK r \in {Idle, [at |-> "failed", lead |-> dial[d].lead]} :
             dial' = [dial EXCEPT ![d] = r]
      BY <1>4 DEF LoseAnswer
    <2>3. r \in Dial BY <2>1, <2>2 DEF Dial
    <2>4. dial' \in [Dialer -> Dial] BY <2>2, <2>3 DEF TypeOK
    <2>5. call' \in [Call -> ProviderCall]
      <3>1. CASE call' = call BY <3>1 DEF TypeOK
      <3>2. CASE dial[d].at = "placed" /\ call' = [call EXCEPT ![p].denied = TRUE]
        <4>1. p \in Call BY <3>2, DialFields
        <4>2. CASE call[p] = NoProviderCall
          <5>1. [call[p] EXCEPT !.denied = TRUE] = NoProviderCall BY <4>2 DEF NoProviderCall
          <5>2. call' = [call EXCEPT ![p] = NoProviderCall] BY <3>2, <4>1, <5>1 DEF TypeOK
          <5> QED BY <5>2 DEF TypeOK, ProviderCall
        <4>3. CASE call[p] # NoProviderCall
          <5>1. [call[p] EXCEPT !.denied = TRUE] \in ProviderCall
            BY <4>1, <4>3, CallFields DEF ProviderCall
          <5> QED BY <3>2, <4>1, <5>1 DEF TypeOK
        <4> QED BY <4>2, <4>3
      <3> QED BY <1>4, <3>1, <3>2 DEF LoseAnswer
    <2> QED BY <1>4, <2>4, <2>5 DEF TypeOK, LoseAnswer
  <1>5. ASSUME NEW d \in Dialer, Accept(d) PROVE TypeOK'
    BY <1>5 DEF TypeOK, Accept, Dial, Idle
  <1>6. ASSUME NEW d \in Dialer, Bind(d) PROVE TypeOK'
    <2>1. dial[d].lead \in Lead /\ dial[d].call \in Call
      BY <1>6, DialFields DEF Bind, Idle
    <2> QED BY <1>6, <2>1, SlotFields DEF TypeOK, Bind, Dial, Slot
  <1>7. ASSUME NEW d \in Dialer, Release(d) PROVE TypeOK'
    BY <1>7, DialFields DEF TypeOK, Release, Dial, Slot
  <1>8. ASSUME NEW d \in Dialer, Crash(d) PROVE TypeOK'
    BY <1>8 DEF TypeOK, Crash, Dial
  <1>9. ASSUME NEW c \in Call, Renew(c) PROVE TypeOK'
    <2>1. call[c].lead \in Lead BY <1>9, CallFields DEF Renew
    <2> QED BY <1>9, <2>1, SlotFields DEF TypeOK, Renew, Held, Slot
  <1>10. ASSUME NEW c \in Call, End(c) PROVE TypeOK'
    BY <1>10, CallFields DEF TypeOK, End, ProviderCall
  <1>11. ASSUME NEW c \in Call, Terminal(c) PROVE TypeOK'
    BY <1>11, CallFields DEF TypeOK, Terminal, Slot
  <1>12. ASSUME Tick PROVE TypeOK'
    <2>1. slot' \in [Lead -> Slot]
      BY <1>12, SlotFields DEF TypeOK, Tick, Slot, Decrement
    <2>2. call' \in [Call -> ProviderCall]
      BY <1>12, CallFields DEF TypeOK, Tick, ProviderCall, Known, Live
    <2>3. dial' \in [Dialer -> Dial]
      <3> SUFFICES ASSUME NEW d \in Dialer, dial[d].at = "holding"
                   PROVE  [dial[d] EXCEPT !.left = @ - 1] \in Dial
        BY <1>12 DEF TypeOK, Tick
      <3>1. dial[d] \in [at : {"holding"}, lead : Lead, left : 0 .. DialTime]
        BY DEF TypeOK, Dial, Idle
      <3> QED BY <1>12, <3>1 DEF Tick, Dial
    <2> QED BY <2>1, <2>2, <2>3 DEF TypeOK
  <1>13. CASE UNCHANGED vars
    BY <1>13 DEF TypeOK, vars
  <1> QED
    BY <1>1, <1>2, <1>3, <1>4, <1>5, <1>6, <1>7, <1>8, <1>9, <1>10, <1>11, <1>12, <1>13 DEF Next

\* For every number of leads, dialers and calls: slots, dials and provider
\* calls keep their shape, and no time left is negative.
THEOREM TypeCorrect == Spec => []TypeOK
  <1>1. Init => TypeOK
    BY DEF Init, TypeOK, Slot, Dial, ProviderCall
  <1> QED BY <1>1, TypeStep, PTL DEF Spec

\* Every step preserves the cover that slots give to calls and dialers.
LEMMA CoverStep == SlotInv /\ [Next]_vars => SlotInv'
  <1> SUFFICES ASSUME SlotInv, [Next]_vars PROVE SlotInv'
    OBVIOUS
  <1> USE SlotAssumption
  <1>0. TypeOK /\ TypeOK'
    BY TypeStep DEF SlotInv
  <1>a. /\ \A d \in Dialer : dial[d] # Idle => dial[d].lead \in Lead
        /\ \A c \in Known : call[c].lead \in Lead /\ call[c].left \in 0 .. CallTime
        /\ \A l \in Lead : slot[l].kind = "slot" => slot[l].left \in 0 .. SlotTime
    BY <1>0, DialFields, CallFields, SlotFields DEF Known, Live
  <1> DEFINE Cover == CallCovered /\ HolderCovered /\ PlacerKnows /\ FailureIsQuiet /\ OneCallPerLead
  <1> SUFFICES Cover'
    BY <1>0 DEF SlotInv
  <1>b. Cover
    BY DEF SlotInv
  \* Steps of one dialer that leave slots and calls alone.
  <1>q. ASSUME NEW d \in Dialer, NEW to, dial[d] # Idle,
               dial' = [dial EXCEPT ![d] = to], UNCHANGED <<slot, call>>,
               \/ to = Idle
               \/ /\ dial[d].at = "holding"
                  /\ to = [at |-> "failed", lead |-> dial[d].lead]
               \/ /\ dial[d].at = "placed"
                  /\ to = [at |-> "accepted", lead |-> dial[d].lead, call |-> dial[d].call]
        PROVE  Cover'
    <2>1. dial \in [Dialer -> Dial] BY <1>0 DEF TypeOK
    <2>2. Known' = Known /\ \A l : OnCall(l)' = OnCall(l) /\ \A e : Owner(l, e)' = Owner(l, e)
      BY <1>q DEF Known, Live, OnCall, Owner
    <2>3. CallCovered' /\ OneCallPerLead'
      BY <1>b, <1>q, <2>2 DEF CallCovered, OneCallPerLead
    <2>4. HolderCovered' BY <1>b, <1>q, <2>1, <2>2 DEF HolderCovered, Idle
    <2>5. PlacerKnows' BY <1>b, <1>q, <2>1, <2>2 DEF PlacerKnows, Idle
    <2>6. FailureIsQuiet'
      BY <1>b, <1>q, <2>1, <2>2 DEF FailureIsQuiet, HolderCovered, Idle
    <2> QED BY <2>3, <2>4, <2>5, <2>6
  <1>1. ASSUME NEW d \in Dialer, NEW l \in Lead, Acquire(d, l) PROVE Cover'
    <2> DEFINE kept == [m \in Lead |-> IF Held(m) THEN slot[m] ELSE NoSlot]
    <2>1. dial \in [Dialer -> Dial] /\ slot \in [Lead -> Slot] BY <1>0 DEF TypeOK
    <2>2. dial[d] = Idle /\ UNCHANGED call /\ Known' = Known /\ (\A m : OnCall(m)' = OnCall(m))
      BY <1>1 DEF Acquire, Known, Live, OnCall
    <2>3. \A c \in Known : Held(call[c].lead)
      BY <1>a, <1>b DEF CallCovered, Held
    <2>4. \A e \in Dialer : dial[e].at = "holding" => Held(dial[e].lead)
      <3> SUFFICES ASSUME NEW e \in Dialer, dial[e].at = "holding" PROVE Held(dial[e].lead)
        OBVIOUS
      <3>1. dial[e].lead \in Lead /\ dial[e].left \in 0 .. DialTime
        BY <1>0, DialFields DEF Idle
      <3>2. slot[dial[e].lead].kind = "slot" /\ slot[dial[e].lead].left > CallTime + dial[e].left
        BY <1>b DEF HolderCovered, Owner
      <3> QED BY <1>a, <3>1, <3>2 DEF Held
    <2>5. CASE slot' = kept /\ UNCHANGED dial
      <3>1. \A m \in Lead : Held(m) => slot'[m] = slot[m] BY <2>5
      <3>2. \A m \in Lead, e \in Dialer : Owner(m, e)' => Owner(m, e) BY <2>5 DEF Owner, NoSlot
      <3>3. CallCovered' BY <1>a, <1>b, <2>2, <2>3, <3>1 DEF CallCovered
      <3>4. HolderCovered'
        BY <1>a, <1>b, <2>2, <2>4, <2>5, <3>1 DEF HolderCovered, Owner, Idle
      <3>5. PlacerKnows' /\ FailureIsQuiet' /\ OneCallPerLead'
        BY <1>a, <1>b, <2>2, <2>5, <3>2 DEF PlacerKnows, FailureIsQuiet, OneCallPerLead, Idle
      <3> QED BY <3>3, <3>4, <3>5
    <2>6. CASE /\ ~Held(l)
               /\ slot' = [kept EXCEPT ![l] = [kind |-> "slot", left |-> SlotTime,
                                               owner |-> d, call |-> NoCall]]
               /\ \/ dial' = [dial EXCEPT ![d] = [at |-> "holding", lead |-> l,
                                                  left |-> DialTime]]
                  \/ UNCHANGED dial
      <3>0. ~OnCall(l) BY <2>3, <2>6 DEF OnCall
      <3>1. \A m \in Lead : Held(m) => slot'[m] = slot[m] BY <2>6
      <3>2. \A m \in Lead, e \in Dialer : Owner(m, e)' => Owner(m, e) \/ (m = l /\ e = d)
        BY <2>6 DEF Owner, NoSlot
      <3>3. CallCovered' BY <1>a, <1>b, <2>2, <2>3, <3>1 DEF CallCovered
      <3>4. /\ \A e \in Dialer : e # d => dial'[e] = dial[e]
            /\ dial'[d] \in {Idle, [at |-> "holding", lead |-> l, left |-> DialTime]}
        BY <2>1, <2>2, <2>6
      <3>5. HolderCovered'
        <4> SUFFICES ASSUME NEW e \in Dialer, dial'[e].at = "holding"
                     PROVE  LET m == dial'[e].lead
                            IN  /\ slot'[m].kind = "slot" /\ slot'[m].owner = e
                                /\ slot'[m].call = NoCall
                                /\ slot'[m].left > CallTime + dial'[e].left
                                /\ \A c \in Known' : call'[c].lead # m
          BY DEF HolderCovered, Owner, OnCall
        <4>1. CASE e = d
          <5>1. dial'[e] = [at |-> "holding", lead |-> l, left |-> DialTime]
            BY <3>4, <4>1 DEF Idle
          <5>2. slot'[l] = [kind |-> "slot", left |-> SlotTime, owner |-> d, call |-> NoCall]
            BY <2>6
          <5> QED BY <2>2, <3>0, <4>1, <5>1, <5>2 DEF OnCall
        <4>2. CASE e # d
          <5>1. dial'[e] = dial[e] /\ dial[e].at = "holding" BY <3>4, <4>2
          <5>2. dial[e].lead \in Lead BY <1>a, <5>1 DEF Idle
          <5>3. slot'[dial[e].lead] = slot[dial[e].lead] BY <2>4, <3>1, <5>1, <5>2
          <5> QED BY <1>b, <2>2, <5>1, <5>3 DEF HolderCovered, Owner, OnCall
        <4> QED BY <4>1, <4>2
      <3>6. PlacerKnows' /\ FailureIsQuiet' /\ OneCallPerLead'
        BY <1>a, <1>b, <2>2, <3>2, <3>4 DEF PlacerKnows, FailureIsQuiet, OneCallPerLead, Idle
      <3> QED BY <3>3, <3>5, <3>6
    <2> QED BY <1>1, <2>5, <2>6 DEF Acquire, Busy
  <1>2. ASSUME NEW d \in Dialer, Place(d) PROVE Cover'
    <2> DEFINE l == dial[d].lead
    <2>1. PICK c \in Call :
            /\ call[c] = NoProviderCall
            /\ call' = [call EXCEPT ![c] = [status |-> "live", lead |-> l, left |-> CallTime,
                                            denied |-> FALSE]]
            /\ dial' = [dial EXCEPT ![d] = [at |-> "placed", lead |-> l, call |-> c]]
      BY <1>2 DEF Place
    <2>2. dial[d].at = "holding" /\ slot' = slot /\ l \in Lead /\ dial[d].left \in 0 .. DialTime
      BY <1>0, <1>2, DialFields DEF Place, Idle
    <2>3. /\ Owner(l, d) /\ slot[l].call = NoCall /\ ~OnCall(l)
          /\ slot[l].left > CallTime + dial[d].left /\ slot[l].left \in 0 .. SlotTime
      BY <1>a, <1>b, <2>2 DEF HolderCovered, Owner
    <2>4. dial \in [Dialer -> Dial] /\ call \in [Call -> ProviderCall] BY <1>0 DEF TypeOK
    <2>5. /\ Known' = Known \cup {c} /\ c \notin Known
          /\ \A b \in Known : call'[b] = call[b] /\ call[b].lead # l
          /\ call'[c].lead = l /\ call'[c].left = CallTime
      BY <2>1, <2>3, <2>4 DEF Known, Live, NoProviderCall, OnCall
    <2>6. \A m \in Lead : m # l => OnCall(m)' = OnCall(m)
      BY <2>5 DEF OnCall
    <2>7. \A e \in Dialer : e # d => dial'[e] = dial[e] /\ ~Owner(l, e)
      BY <2>1, <2>3, <2>4 DEF Owner
    <2>8. dial'[d] = [at |-> "placed", lead |-> l, call |-> c]
      BY <2>1, <2>4
    <2>9. \A m, e : Owner(m, e)' = Owner(m, e) BY <2>2 DEF Owner
    <2>10. CallCovered' BY <1>b, <2>2, <2>3, <2>5 DEF CallCovered, Owner
    <2>11. OneCallPerLead' BY <1>b, <2>5 DEF OneCallPerLead
    <2>12. HolderCovered'
      BY <1>a, <1>b, <2>2, <2>6, <2>7, <2>8, <2>9 DEF HolderCovered, Idle
    <2>13. PlacerKnows' BY <1>a, <1>b, <2>5, <2>7, <2>8, <2>9 DEF PlacerKnows, Idle
    <2>14. FailureIsQuiet' BY <1>a, <1>b, <2>6, <2>7, <2>8, <2>9 DEF FailureIsQuiet, Idle
    <2> QED BY <2>10, <2>11, <2>12, <2>13, <2>14
  <1>3. ASSUME NEW d \in Dialer, Reject(d) PROVE Cover'
    <2> DEFINE to == [at |-> "failed", lead |-> dial[d].lead]
    <2>1. dial[d] # Idle /\ dial[d].at = "holding" /\ UNCHANGED <<slot, call>>
      BY <1>3 DEF Reject, Idle
    <2>2. dial' = [dial EXCEPT ![d] = to] BY <1>3 DEF Reject
    <2>3. to = [at |-> "failed", lead |-> dial[d].lead] OBVIOUS
    <2> HIDE DEF to
    <2> QED BY <1>q, <2>1, <2>2, <2>3
  <1>4. ASSUME NEW d \in Dialer, LoseAnswer(d) PROVE Cover'
    <2> DEFINE to == [at |-> "failed", lead |-> dial[d].lead]
    <2>1. dial[d] # Idle /\ dial[d].at \in {"holding", "placed"} /\ slot' = slot
      BY <1>4 DEF LoseAnswer, Idle
    <2>2. CASE dial' = [dial EXCEPT ![d] = Idle] /\ call' = call
      BY <1>q, <2>1, <2>2
    <2>3. CASE dial' = [dial EXCEPT ![d] = to] /\ call' = call /\ dial[d].at = "holding"
      <3>1. to = [at |-> "failed", lead |-> dial[d].lead] OBVIOUS
      <3> HIDE DEF to
      <3> QED BY <1>q, <2>1, <2>3, <3>1
    \* The call is no longer known, and no other is on the lead of a dialer that owns its slot.
    <2>4. CASE /\ dial' = [dial EXCEPT ![d] = to] /\ dial[d].at = "placed"
               /\ call' = [call EXCEPT ![dial[d].call].denied = TRUE]
      <3>1. dial \in [Dialer -> Dial] /\ call \in [Call -> ProviderCall] BY <1>0 DEF TypeOK
      <3>2. dial[d].call \in Call BY <1>0, <2>4, DialFields
      <3>3. /\ Known' \subseteq Known /\ dial[d].call \notin Known'
            /\ \A c \in Known' : call'[c] = call[c]
        BY <2>4, <3>1, <3>2, <1>0, CallFields DEF Known, Live, NoProviderCall
      <3>4. \A l : OnCall(l)' => OnCall(l) BY <3>3 DEF OnCall
      <3>5. \A l, e : Owner(l, e)' = Owner(l, e) BY <2>1 DEF Owner
      <3>6. /\ dial'[d] = to /\ to.at = "failed" /\ to.lead = dial[d].lead
            /\ \A e \in Dialer : e # d => dial'[e] = dial[e]
        BY <2>4, <3>1
      <3> HIDE DEF to
      <3>7. CallCovered' /\ OneCallPerLead'
        BY <1>b, <2>1, <3>3 DEF CallCovered, OneCallPerLead
      <3>8. HolderCovered' BY <1>b, <2>1, <3>4, <3>5, <3>6 DEF HolderCovered
      <3>9. PlacerKnows' BY <1>b, <3>3, <3>5, <3>6 DEF PlacerKnows
      <3>10. Owner(dial[d].lead, d) => \A c \in Known' : call'[c].lead # dial[d].lead
        BY <1>b, <2>4, <3>3 DEF PlacerKnows
      <3>11. FailureIsQuiet'
        BY <1>b, <3>4, <3>5, <3>6, <3>10 DEF FailureIsQuiet, OnCall
      <3> QED BY <3>7, <3>8, <3>9, <3>11
    <2> QED BY <1>4, <2>1, <2>2, <2>3, <2>4 DEF LoseAnswer
  <1>5. ASSUME NEW d \in Dialer, Accept(d) PROVE Cover'
    <2> DEFINE to == [at |-> "accepted", lead |-> dial[d].lead, call |-> dial[d].call]
    <2>1. dial[d] \in [at : {"placed"}, lead : Lead, call : Call]
      BY <1>0, <1>5 DEF TypeOK, Accept, Dial, Idle
    <2>2. [dial[d] EXCEPT !.at = "accepted"] = to
      BY <2>1
    <2>3. dial' = [dial EXCEPT ![d] = to]
      BY <1>5, <2>2 DEF Accept
    <2>4. dial[d] # Idle /\ dial[d].at = "placed" /\ UNCHANGED <<slot, call>>
      BY <1>5 DEF Accept, Idle
    <2> HIDE DEF to
    <2> QED BY <1>q, <2>3, <2>4 DEF to
  <1>6. ASSUME NEW d \in Dialer, Crash(d) PROVE Cover'
    BY <1>6, <1>q DEF Crash
  \* Steps that change one slot, and perhaps set one dialer to idle.
  <1>r. ASSUME NEW l \in Lead, UNCHANGED call,
               slot' = [slot EXCEPT ![l] = slot'[l]],
               \A e \in Dialer : dial'[e] \in {dial[e], Idle},
               \A e \in Dialer : Owner(l, e)' => Owner(l, e),
               \A c \in Known : call[c].lead = l =>
                  /\ slot'[l].kind = "slot" /\ slot'[l].left > call[c].left
                  /\ slot'[l].call \in {NoCall, c},
               \A e \in Dialer : dial'[e].at = "holding" /\ dial'[e].lead = l => slot'[l] = slot[l]
        PROVE  Cover'
    <2>1. dial \in [Dialer -> Dial] /\ slot \in [Lead -> Slot] BY <1>0 DEF TypeOK
    <2>2. Known' = Known /\ (\A m : OnCall(m)' = OnCall(m)) BY <1>r DEF Known, Live, OnCall
    <2>3. \A m \in Lead : m # l => slot'[m] = slot[m] BY <1>r, <2>1
    <2>4. \A m \in Lead, e \in Dialer : Owner(m, e)' => Owner(m, e) BY <1>r, <2>3 DEF Owner
    <2>5. CallCovered' BY <1>a, <1>b, <1>r, <2>2, <2>3 DEF CallCovered
    <2>6. HolderCovered'
      BY <1>a, <1>b, <1>r, <2>2, <2>3 DEF HolderCovered, Owner, Idle
    <2>7. PlacerKnows' BY <1>a, <1>b, <1>r, <2>2, <2>4 DEF PlacerKnows, Idle
    <2>8. FailureIsQuiet' BY <1>a, <1>b, <1>r, <2>2, <2>4 DEF FailureIsQuiet, Idle
    <2>9. OneCallPerLead' BY <1>b, <1>r, <2>2 DEF OneCallPerLead
    <2> QED BY <2>5, <2>6, <2>7, <2>8, <2>9
  <1>7. ASSUME NEW d \in Dialer, Bind(d) PROVE Cover'
    <2>0. PICK l \in Lead : l = dial[d].lead
      BY <1>7, <1>a DEF Bind, Idle
    <2>1. /\ dial[d].at = "accepted" /\ dial[d].lead = l /\ dial[d] # Idle /\ UNCHANGED call
          /\ dial' = [dial EXCEPT ![d] = Idle]
      BY <1>7, <2>0 DEF Bind, Idle
    <2>2. dial \in [Dialer -> Dial] /\ slot \in [Lead -> Slot] BY <1>0 DEF TypeOK
    <2>3. CASE UNCHANGED slot
      BY <2>1, <2>3, <1>q
    <2>4. CASE Owner(l, d) /\ slot' = [slot EXCEPT ![l].call = dial[d].call]
      <3>1. /\ slot'[l].kind = "slot" /\ slot'[l].left = slot[l].left
            /\ slot'[l].call = dial[d].call /\ slot'[l].owner = slot[l].owner
        BY <2>1, <2>2, <2>4, <1>0, SlotFields DEF Owner
      <3>2. \A c \in Known : call[c].lead = l =>
               slot'[l].left > call[c].left /\ slot'[l].call = c
        BY <1>b, <2>1, <2>4, <3>1 DEF CallCovered, PlacerKnows
      <3>3. \A e \in Dialer : dial'[e].at = "holding" => dial'[e].lead # l
        BY <1>b, <2>1, <2>2, <2>4 DEF HolderCovered, Owner, Idle
      <3>4. \A e \in Dialer : Owner(l, e)' => Owner(l, e) BY <3>1, <2>4 DEF Owner
      <3>5. slot' = [slot EXCEPT ![l] = slot'[l]] BY <2>1, <2>2, <2>4
      <3>6. \A e \in Dialer : dial'[e] \in {dial[e], Idle} BY <2>1, <2>2
      <3> QED BY <1>r, <2>1, <3>1, <3>2, <3>3, <3>4, <3>5, <3>6
    <2> QED BY <1>7, <2>0, <2>3, <2>4 DEF Bind, Owner
  <1>8. ASSUME NEW d \in Dialer, Release(d) PROVE Cover'
    <2>0. PICK l \in Lead : l = dial[d].lead
      BY <1>8, <1>a DEF Release, Idle
    <2>1. /\ dial[d].at = "failed" /\ dial[d].lead = l /\ dial[d] # Idle /\ UNCHANGED call
          /\ dial' = [dial EXCEPT ![d] = Idle]
      BY <1>8, <2>0 DEF Release, Idle
    <2>2. dial \in [Dialer -> Dial] /\ slot \in [Lead -> Slot] BY <1>0 DEF TypeOK
    <2>3. CASE UNCHANGED slot
      BY <2>1, <2>3, <1>q
    <2>4. CASE /\ slot[l].kind = "slot" => slot[l].owner = d
               /\ slot' = [slot EXCEPT ![l] = NoSlot]
      <3>1. slot'[l] = NoSlot BY <2>1, <2>2, <2>4
      <3>2. ~OnCall(l)
        BY <1>b, <2>1, <2>4 DEF FailureIsQuiet, CallCovered, OnCall, Owner
      <3>3. \A e \in Dialer : dial'[e].at = "holding" => dial'[e].lead # l
        BY <1>b, <2>1, <2>2, <2>4 DEF HolderCovered, Owner, Idle
      <3>4. \A e \in Dialer : ~Owner(l, e)' BY <3>1 DEF Owner, NoSlot
      <3>5. slot' = [slot EXCEPT ![l] = slot'[l]] BY <2>1, <2>2, <2>4
      <3>6. \A e \in Dialer : dial'[e] \in {dial[e], Idle} BY <2>1, <2>2
      <3> QED BY <1>r, <2>1, <3>2, <3>3, <3>4, <3>5, <3>6 DEF OnCall
    <2> QED BY <1>8, <2>0, <2>3, <2>4 DEF Release
  <1>9. ASSUME NEW c \in Call, Renew(c) PROVE Cover'
    <2>0. PICK l \in Lead : l = call[c].lead
      BY <1>0, <1>9, CallFields DEF Renew
    <2>1. /\ call[c].lead = l /\ UNCHANGED <<call, dial>>
          /\ slot[l].kind = "slot" /\ slot[l].call = c
          /\ slot' = [slot EXCEPT ![l].left = SlotTime]
      BY <1>9, <2>0 DEF Renew, Known, Live, Held
    <2>2. slot \in [Lead -> Slot] BY <1>0 DEF TypeOK
    <2>3. /\ slot'[l].kind = "slot" /\ slot'[l].left = SlotTime
          /\ slot'[l].call = c /\ slot'[l].owner = slot[l].owner
      BY <2>1, <2>2, <1>0, SlotFields
    <2>4. \A b \in Known : call[b].lead = l => b = c
      BY <1>b, <2>1, SlotAssumption DEF CallCovered
    <2>5. \A e \in Dialer : dial'[e].at = "holding" => dial'[e].lead # l
      BY <1>b, <2>1, SlotAssumption DEF HolderCovered
    <2>6. slot' = [slot EXCEPT ![l] = slot'[l]] BY <2>1, <2>2
    <2>7. \A e \in Dialer : Owner(l, e)' => Owner(l, e) BY <2>1, <2>3 DEF Owner
    <2>8. \A b \in Known : SlotTime > call[b].left BY <1>a
    <2>9. UNCHANGED call /\ \A e \in Dialer : dial'[e] \in {dial[e], Idle} BY <2>1
    <2>10. \A b \in Known : call[b].lead = l =>
              /\ slot'[l].kind = "slot" /\ slot'[l].left > call[b].left
              /\ slot'[l].call \in {NoCall, b}
      BY <2>3, <2>4, <2>8
    <2> QED BY <1>r, <2>5, <2>6, <2>7, <2>9, <2>10
  <1>10. ASSUME NEW c \in Call, End(c) PROVE Cover'
    <2>1. call \in [Call -> ProviderCall] /\ UNCHANGED <<slot, dial>>
      BY <1>0, <1>10 DEF TypeOK, End
    <2>2. Known' = Known \ {c} /\ \A b \in Known' : call'[b] = call[b]
      BY <1>10, <2>1, <1>0, CallFields DEF End, Known, Live
    <2>3. \A m : OnCall(m)' => OnCall(m) BY <2>2 DEF OnCall
    <2> QED
      BY <1>b, <2>1, <2>2, <2>3
      DEF CallCovered, HolderCovered, PlacerKnows, FailureIsQuiet, OneCallPerLead, Owner
  <1>11. ASSUME NEW c \in Call, Terminal(c) PROVE Cover'
    <2>0. PICK l \in Lead : l = call[c].lead
      BY <1>0, <1>11, CallFields DEF Terminal
    <2>1. /\ call[c].status = "ended" /\ call[c].lead = l /\ UNCHANGED <<call, dial>>
          /\ slot[l].kind = "slot" /\ slot[l].call = c
          /\ slot' = [slot EXCEPT ![l] = NoSlot]
      BY <1>11, <2>0 DEF Terminal, ReleasesByCall
    <2>2. slot \in [Lead -> Slot] BY <1>0 DEF TypeOK
    <2>3. slot'[l] = NoSlot BY <2>1, <2>2
    <2>4. \A b \in Known : call[b].lead # l
      BY <1>b, <2>1 DEF CallCovered, Known, Live
    <2>5. \A e \in Dialer : dial'[e].at = "holding" => dial'[e].lead # l
      BY <1>b, <2>1 DEF HolderCovered
    <2>6. slot' = [slot EXCEPT ![l] = slot'[l]] BY <2>1, <2>2
    <2>7. \A e \in Dialer : ~Owner(l, e)' BY <2>3 DEF Owner, NoSlot
    <2>8. UNCHANGED call /\ \A e \in Dialer : dial'[e] \in {dial[e], Idle} BY <2>1
    <2> QED BY <1>r, <2>4, <2>5, <2>6, <2>7, <2>8
  <1>12. ASSUME Tick PROVE Cover'
    <2>1. /\ dial \in [Dialer -> Dial] /\ slot \in [Lead -> Slot]
          /\ call \in [Call -> ProviderCall]
      BY <1>0 DEF TypeOK
    <2>2. /\ Known' = Known
          /\ \A c \in Known : /\ call'[c].lead = call[c].lead
                             /\ call'[c].left = call[c].left - 1 /\ call[c].left > 0
      BY <1>12, <2>1, <1>0, CallFields DEF Tick, Known, Live, NoProviderCall
    <2>3. \A m : OnCall(m)' = OnCall(m) BY <2>2 DEF OnCall
    <2>4. \A l \in Lead :
             /\ slot'[l].kind = slot[l].kind
             /\ slot[l].kind = "slot" =>
                  /\ slot'[l].owner = slot[l].owner /\ slot'[l].call = slot[l].call
                  /\ slot[l].left > 0 => slot'[l].left = slot[l].left - 1
      <3> SUFFICES ASSUME NEW l \in Lead
                   PROVE  /\ slot'[l].kind = slot[l].kind
                          /\ slot[l].kind = "slot" =>
                               /\ slot'[l].owner = slot[l].owner /\ slot'[l].call = slot[l].call
                               /\ slot[l].left > 0 => slot'[l].left = slot[l].left - 1
        OBVIOUS
      <3>1. slot'[l] = IF slot[l] = NoSlot THEN NoSlot
                       ELSE [slot[l] EXCEPT !.left = Decrement(@)]
        BY <1>12 DEF Tick
      <3>2. CASE slot[l] = NoSlot BY <3>1, <3>2 DEF NoSlot
      <3>3. CASE slot[l].kind = "slot"
        BY <3>1, <3>3, <1>0, SlotFields DEF NoSlot, Decrement
      <3> QED BY <3>2, <3>3, <1>0, SlotFields
    <2>5. \A l \in Lead : \A e : Owner(l, e)' = Owner(l, e) BY <2>4 DEF Owner
    <2>6. \A e \in Dialer :
             /\ dial[e].at # "holding" => dial'[e] = dial[e]
             /\ dial[e].at = "holding" =>
                  /\ dial'[e].at = "holding" /\ dial'[e].lead = dial[e].lead
                  /\ dial'[e].left = dial[e].left - 1 /\ dial[e].left \in 0 .. DialTime
                  /\ dial[e].left > 0
      <3> SUFFICES ASSUME NEW e \in Dialer, dial[e].at = "holding"
                   PROVE  /\ dial'[e].at = "holding" /\ dial'[e].lead = dial[e].lead
                          /\ dial'[e].left = dial[e].left - 1 /\ dial[e].left \in 0 .. DialTime
                          /\ dial[e].left > 0
        BY <1>12 DEF Tick
      <3>1. dial[e] \in [at : {"holding"}, lead : Lead, left : 0 .. DialTime]
        BY <1>0 DEF TypeOK, Dial, Idle
      <3>2. dial'[e] = [dial[e] EXCEPT !.left = @ - 1] /\ dial[e].left > 0 BY <1>12 DEF Tick
      <3> QED BY <3>1, <3>2
    <2>7. CallCovered'
      <3> SUFFICES ASSUME NEW c \in Known
                   PROVE  LET s == slot'[call[c].lead]
                          IN  s.kind = "slot" /\ s.left > call'[c].left /\ s.call \in {NoCall, c}
        BY <2>2 DEF CallCovered
      <3>1. call[c].lead \in Lead /\ call[c].left \in 0 .. CallTime BY <1>a
      <3>2. /\ slot[call[c].lead].kind = "slot" /\ slot[call[c].lead].left > call[c].left
            /\ slot[call[c].lead].call \in {NoCall, c}
            /\ slot[call[c].lead].left \in 0 .. SlotTime
        BY <1>a, <1>b, <3>1 DEF CallCovered
      <3> QED BY <2>2, <2>4, <3>1, <3>2
    <2>8. HolderCovered'
      <3> SUFFICES ASSUME NEW e \in Dialer, dial'[e].at = "holding"
                   PROVE  LET l == dial'[e].lead
                          IN  /\ slot'[l].kind = "slot" /\ slot'[l].owner = e
                              /\ slot'[l].call = NoCall
                              /\ slot'[l].left > CallTime + dial'[e].left
                              /\ \A c \in Known' : call'[c].lead # l
        BY DEF HolderCovered, Owner, OnCall
      <3>1. dial[e].at = "holding" BY <2>6
      <3>2. dial[e].lead \in Lead BY <1>a, <3>1 DEF Idle
      <3>3. /\ Owner(dial[e].lead, e) /\ slot[dial[e].lead].call = NoCall
            /\ slot[dial[e].lead].left > CallTime + dial[e].left /\ ~OnCall(dial[e].lead)
        BY <1>b, <3>1 DEF HolderCovered
      <3>4. slot[dial[e].lead].kind = "slot" /\ slot[dial[e].lead].left \in 0 .. SlotTime
        BY <1>a, <3>2, <3>3 DEF Owner
      <3>5. slot'[dial[e].lead].left = slot[dial[e].lead].left - 1
        BY <2>4, <2>6, <3>1, <3>2, <3>3, <3>4
      <3> QED BY <2>2, <2>4, <2>6, <3>1, <3>2, <3>3, <3>4, <3>5 DEF Owner, OnCall
    <2>9. PlacerKnows' BY <1>a, <1>b, <2>2, <2>5, <2>6 DEF PlacerKnows, Idle
    <2>10. FailureIsQuiet' BY <1>a, <1>b, <2>3, <2>5, <2>6 DEF FailureIsQuiet, Idle
    <2>11. OneCallPerLead' BY <1>b, <2>2 DEF OneCallPerLead
    <2> QED BY <2>7, <2>8, <2>9, <2>10, <2>11
  <1>13. CASE UNCHANGED vars
    BY <1>b, <1>13
    DEF vars, CallCovered, HolderCovered, PlacerKnows, FailureIsQuiet, OneCallPerLead,
        Owner, OnCall, Known, Live
  <1> QED
    BY <1>1, <1>2, <1>3, <1>4, <1>5, <1>6, <1>7, <1>8, <1>9, <1>10, <1>11, <1>12, <1>13 DEF Next

LEMMA CoverInit == Init => SlotInv
  BY DEF Init, SlotInv, TypeOK, Slot, Dial, ProviderCall, Idle, NoSlot, NoProviderCall, Known, Live,
         CallCovered, HolderCovered, PlacerKnows, FailureIsQuiet, OneCallPerLead

LEMMA CoverSound == Spec => []SlotInv
  BY CoverInit, CoverStep, PTL DEF Spec

\* Of two live calls of a lead the dialer of one has taken it for refused (call_lead's
\* generic handler), however dials fail, processes die, slots expire and callbacks are
\* lost or repeated.
THEOREM OneCall == Spec => []OneCallPerLead
  <1>1. SlotInv => OneCallPerLead
    BY DEF SlotInv
  <1> QED BY <1>1, CoverSound, PTL

\* A live call that its dialer has not taken for refused keeps its slot: no callback,
\* bind, renewal or release of another attempt takes it, a call that was taken for
\* refused included, and it does not expire while the call lasts.
LEMMA CoverHolds == SlotInv => KnownCallHoldsSlot
  <1> SUFFICES ASSUME SlotInv, NEW c \in Known PROVE Held(call[c].lead)
    BY DEF KnownCallHoldsSlot
  <1>1. call[c].lead \in Lead /\ call[c].left \in 0 .. CallTime
    BY CallFields DEF SlotInv, Known, Live
  <1>2. slot[call[c].lead].kind = "slot" /\ slot[call[c].lead].left > call[c].left
    BY DEF SlotInv, CallCovered
  <1>3. slot[call[c].lead].left \in 0 .. SlotTime
    BY <1>1, <1>2, SlotFields DEF SlotInv
  <1> QED BY <1>1, <1>2, <1>3, SlotAssumption DEF Held

\* The same in every reachable state, whatever answers the provider gives.
THEOREM SlotOutlivesCall == Spec => []KnownCallHoldsSlot
  BY CoverSound, CoverHolds, PTL

\* Only the acquire script makes an expired or free slot held again, one at a
\* time and only below the limit.
Bounded == IsFiniteSet(HeldLeads) /\ Cardinality(HeldLeads) <= MaxConcurrent

LEMMA BoundedStep == TypeOK /\ Bounded /\ [Next]_vars => Bounded'
  <1> SUFFICES ASSUME TypeOK, Bounded, [Next]_vars PROVE Bounded'
    OBVIOUS
  <1> USE SlotAssumption
  <1>1. ASSUME HeldLeads' \subseteq HeldLeads PROVE Bounded'
    <2>1. IsFiniteSet(HeldLeads') /\ Cardinality(HeldLeads') <= Cardinality(HeldLeads)
      BY <1>1, FS_Subset DEF Bounded
    <2>2. Cardinality(HeldLeads') \in Nat /\ Cardinality(HeldLeads) \in Nat
      BY <2>1, FS_CardinalityType DEF Bounded
    <2> QED BY <2>1, <2>2 DEF Bounded
  <1>2. ASSUME NEW d \in Dialer, NEW l \in Lead, Acquire(d, l) PROVE Bounded'
    <2> DEFINE kept == [m \in Lead |-> IF Held(m) THEN slot[m] ELSE NoSlot]
    <2>1. CASE slot' = kept
      <3>1. HeldLeads' \subseteq HeldLeads
        BY <2>1 DEF HeldLeads, Held, NoSlot
      <3> QED BY <1>1, <3>1
    <2>2. CASE /\ ~Held(l) /\ ~Full
               /\ slot' = [kept EXCEPT ![l] = [kind |-> "slot", left |-> SlotTime,
                                               owner |-> d, call |-> NoCall]]
      <3>1. HeldLeads' \subseteq HeldLeads \cup {l}
        BY <2>2 DEF HeldLeads, Held, NoSlot
      <3>2. l \notin HeldLeads /\ IsFiniteSet(HeldLeads) /\ Cardinality(HeldLeads) \in Nat
        BY <2>2, FS_CardinalityType DEF HeldLeads, Bounded
      <3>3. /\ IsFiniteSet(HeldLeads \cup {l})
            /\ Cardinality(HeldLeads \cup {l}) = Cardinality(HeldLeads) + 1
        BY <3>2, FS_AddElement
      <3>4. IsFiniteSet(HeldLeads') /\ Cardinality(HeldLeads') <= Cardinality(HeldLeads) + 1
        BY <3>1, <3>3, FS_Subset
      <3>5. Cardinality(HeldLeads) < MaxConcurrent
        BY <2>2, <3>2 DEF Full, HeldLeads
      <3>6. Cardinality(HeldLeads') \in Nat BY <3>4, FS_CardinalityType
      <3> QED BY <3>2, <3>4, <3>5, <3>6 DEF Bounded
    <2> QED BY <1>2, <2>1, <2>2 DEF Acquire, Busy
  <1>3. ASSUME NEW d \in Dialer,
               Place(d) \/ Reject(d) \/ LoseAnswer(d) \/ Accept(d) \/ Crash(d)
        PROVE  Bounded'
    <2>1. HeldLeads' \subseteq HeldLeads
      BY <1>3 DEF Place, Reject, LoseAnswer, Accept, Crash, HeldLeads, Held
    <2> QED BY <1>1, <2>1
  <1>4. ASSUME NEW d \in Dialer, Bind(d) \/ Release(d) PROVE Bounded'
    <2>1. \A l \in Lead : slot'[l].kind = "slot" =>
             slot[l].kind = "slot" /\ slot'[l].left = slot[l].left
      BY <1>4, SlotFields DEF Bind, Release, NoSlot, TypeOK
    <2>2. HeldLeads' \subseteq HeldLeads BY <2>1 DEF HeldLeads, Held
    <2> QED BY <1>1, <2>2
  <1>5. ASSUME NEW c \in Call, Renew(c) \/ End(c) \/ Terminal(c) PROVE Bounded'
    <2>1. \A l \in Lead : slot'[l].kind = "slot" =>
             slot[l].kind = "slot" /\ (slot'[l].left = slot[l].left \/ Held(l))
      BY <1>5, SlotFields DEF Renew, End, Terminal, NoSlot, TypeOK, Held
    <2>2. HeldLeads' \subseteq HeldLeads BY <2>1 DEF HeldLeads, Held
    <2> QED BY <1>1, <2>2
  <1>6. ASSUME Tick PROVE Bounded'
    <2>1. \A l \in Lead : Held(l)' => Held(l)
      BY <1>6, SlotFields DEF Tick, Held, Decrement, NoSlot
    <2>2. HeldLeads' \subseteq HeldLeads BY <2>1 DEF HeldLeads
    <2> QED BY <1>1, <2>2
  <1>7. ASSUME UNCHANGED vars PROVE Bounded'
    <2>1. HeldLeads' \subseteq HeldLeads BY <1>7 DEF HeldLeads, Held, vars
    <2> QED BY <1>1, <2>1
  <1> QED BY <1>2, <1>3, <1>4, <1>5, <1>6, <1>7 DEF Next

\* At most MaxConcurrent slots are held: nothing but the script adds one.
LEMMA BoundedSound == Spec => []Bounded
  <1>1. Init => Bounded
    <2> SUFFICES ASSUME Init PROVE Bounded
      OBVIOUS
    <2>1. HeldLeads = {} BY DEF Init, HeldLeads, Held, NoSlot
    <2> QED BY <2>1, FS_EmptySet, SlotAssumption DEF Bounded
  <1> QED BY <1>1, TypeCorrect, BoundedStep, PTL DEF Spec

\* Never more calls at the provider than the limit, but for those taken for refused:
\* each of the others has a held slot of its own, and the slots are limited.
THEOREM CapacityRespected == Spec => []CapacityHeld
  <1>1. SlotInv /\ Bounded => CapacityHeld
    <2> SUFFICES ASSUME SlotInv, Bounded PROVE CapacityHeld
      OBVIOUS
    <2> DEFINE f == [c \in Known |-> call[c].lead]
    <2>1. \A c \in Known : call[c].lead \in HeldLeads
      BY CoverHolds, CallFields DEF SlotInv, KnownCallHoldsSlot, HeldLeads, Known, Live
    <2>2. f \in [Known -> HeldLeads] /\ \A b, c \in Known : f[b] = f[c] => b = c
      BY <2>1 DEF SlotInv, OneCallPerLead
    <2>3. f \in Injection(Known, HeldLeads)
      BY <2>2 DEF Injection, IsInjective
    <2>4. IsFiniteSet(Known) /\ Cardinality(Known) <= Cardinality(HeldLeads)
      BY <2>3, FS_Injection DEF Bounded
    <2>5. Cardinality(Known) \in Nat /\ Cardinality(HeldLeads) \in Nat
      BY <2>4, FS_CardinalityType DEF Bounded
    <2> QED BY <2>4, <2>5, SlotAssumption DEF CapacityHeld, Bounded
  <1> QED BY <1>1, CoverSound, BoundedSound, PTL
=============================================================================
