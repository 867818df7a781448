--------------------------- MODULE DueClaimsProofs ---------------------------
(***************************************************************************)
(* Theorems about DueClaims for any set of leads, follow-ups and pollers,  *)
(* and any limits and claim times.                                         *)
(***************************************************************************)
EXTENDS DueClaims, TLAPS

\* What a run that stands at one of its stages carries.
LEMMA RunFields ==
    ASSUME TypeOK, NEW p \in Poller
    PROVE  /\ poller[p].at \in {"idle", "followups", "callbacks", "dialling", "dialled"}
           /\ poller[p].at = "idle" => poller[p] = Idle
           /\ poller[p].at \in {"followups", "callbacks"}
                 => poller[p] \in [at : {"followups", "callbacks"}, todo : SUBSET Item]
           /\ poller[p].at = "dialling"
                 => poller[p] \in [at : {"dialling"}, todo : SUBSET Item, item : Item]
           /\ poller[p].at = "dialled"
                 => poller[p] \in [at : {"dialled"}, todo : SUBSET Item, item : Item,
                                   success : BOOLEAN]
  BY DEF TypeOK, Run, Idle

\* An item names a follow-up or one agreed time of a lead, by which it is known.
LEMMA ItemFields ==
    ASSUME NEW i \in Item
    PROVE  \/ i.kind = "followup" /\ i.row \in Followup /\ i = ForFollowup(i.row)
           \/ /\ i.kind = "callback" /\ i.lead \in Lead /\ i.time \in 1 .. LastTime
              /\ i = ForCallback(i.lead, i.time)
  BY DEF Item, ForFollowup, ForCallback

LEMMA ItemsTyped ==
    /\ \A f \in Followup : ForFollowup(f) \in Item
    /\ \A l \in Lead, t \in 1 .. LastTime : ForCallback(l, t) \in Item
  BY DEF Item, ForFollowup, ForCallback

\* A row's fields, one by one.
LEMMA FollowupFields ==
    ASSUME TypeOK, NEW f \in Followup
    PROVE  /\ followup[f] \in Followups
           /\ followup[f].holder \in Poller \cup {NoPoller}
           /\ followup[f].left \in Nat /\ followup[f].due \in Nat
  BY DEF TypeOK, Followups

LEMMA CallbackFields ==
    ASSUME TypeOK, NEW l \in Lead
    PROVE  /\ callback[l] \in Callbacks
           /\ callback[l].time \in Nat /\ callback[l].time <= LastTime
           /\ callback[l].holder \in Poller \cup {NoPoller}
           /\ callback[l].left \in Nat /\ callback[l].due \in Nat
           /\ agreed[l] \in Nat /\ agreed[l] <= LastTime
  BY ClaimAssumption DEF TypeOK, Callbacks

\* The claims only take rows that are due.
LEMMA BatchOfDue == ASSUME NEW S, NEW n, NEW B \in Batch(S, n) PROVE B \subseteq S
  BY DEF Batch
-----------------------------------------------------------------------------
(***************************************************************************)
(* The inductive invariant: what a poller carries between its dial and the *)
(* settling of its claim stays true while claims lapse, operators close    *)
(* rows and leads agree on other times.                                    *)
(***************************************************************************)
SuccessWasDialled ==
    \A p \in Poller :
        poller[p].at = "dialled" /\ poller[p].success = TRUE => dialled[poller[p].item] > 0

UnclaimedHasNoOwner ==
    \A f \in Followup : followup[f].state \in {"absent", "pending"} => followup[f].holder = NoPoller

TimeWasAgreed == \A l \in Lead : callback[l].time <= agreed[l]

ClaimInv ==
    TypeOK /\ SuccessWasDialled /\ UnclaimedHasNoOwner /\ TimeWasAgreed /\ CompletedWasDialled

LEMMA InitInv == Init => ClaimInv
  BY ClaimAssumption DEF Init, ClaimInv, TypeOK, SuccessWasDialled, UnclaimedHasNoOwner,
     TimeWasAgreed, CompletedWasDialled, Followups, Callbacks, Run, Idle

\* An operator, or a promise, writes a row.
LEMMA RowsKeepInv ==
    ASSUME ClaimInv, NEW f \in Followup, CreateFollowup(f) \/ CloseFollowup(f)
    PROVE  ClaimInv'
  <1> USE ClaimAssumption
  <1>1. /\ followup' \in [Followup -> Followups]
        /\ \A g \in Followup : g # f => followup'[g] = followup[g]
        /\ followup'[f].holder = followup[f].holder
        /\ \/ followup[f].state = "absent" /\ followup'[f].state = "pending"
           \/ followup'[f].state \in {"completed", "cancelled"} /\ f \in closed'
    <2>1. CASE CreateFollowup(f)
      <3>1. PICK wait \in 0 .. MaxWait :
               followup' = [followup EXCEPT ![f].state = "pending", ![f].due = wait]
        BY <2>1 DEF CreateFollowup
      <3>2. followup'[f] = [followup[f] EXCEPT !.state = "pending", !.due = wait]
        BY <3>1 DEF ClaimInv, TypeOK
      <3>3. wait \in Nat
        OBVIOUS
      <3>4. followup'[f] \in Followups
        BY <3>2, <3>3, FollowupFields DEF ClaimInv, Followups
      <3>5. QED
        BY <2>1, <3>1, <3>2, <3>4, FollowupFields DEF CreateFollowup, ClaimInv, TypeOK, Followups
    <2>2. CASE CloseFollowup(f)
      BY <2>2 DEF CloseFollowup, ClaimInv, TypeOK, Followups
    <2>3. QED
      BY <2>1, <2>2
  <1>2. /\ UNCHANGED <<agreed, callback, poller, dialled>>
        /\ closed \subseteq closed' /\ closed' \subseteq Followup
    BY DEF CreateFollowup, CloseFollowup, ClaimInv, TypeOK
  <1>3. QED
    BY <1>1, <1>2 DEF ClaimInv, TypeOK, SuccessWasDialled, UnclaimedHasNoOwner, TimeWasAgreed,
       CompletedWasDialled

\* A new time for a lead is one that was never agreed before.
LEMMA ScheduleKeepsInv ==
    ASSUME ClaimInv, NEW l \in Lead, ScheduleCallback(l)
    PROVE  ClaimInv'
  <1> USE ClaimAssumption
  <1>1. /\ agreed' = [agreed EXCEPT ![l] = @ + 1] /\ agreed[l] + 1 \in 1 .. LastTime
        /\ UNCHANGED <<followup, poller, dialled, closed>>
    BY DEF ScheduleCallback, ClaimInv, TypeOK
  <1>2. /\ callback' \in [Lead -> Callbacks]
        /\ \A k \in Lead : k # l => callback'[k] = callback[k]
        /\ callback'[l].time = agreed[l] + 1
    <2>1. PICK wait \in 0 .. MaxWait :
             \/ callback' = [callback EXCEPT ![l].time = agreed[l] + 1, ![l].due = wait]
             \/ callback' = [callback EXCEPT ![l] = [time |-> agreed[l] + 1, holder |-> NoPoller,
                                                     left |-> 0, due |-> wait]]
      BY DEF ScheduleCallback
    <2>2. \/ callback'[l] = [callback[l] EXCEPT !.time = agreed[l] + 1, !.due = wait]
          \/ callback'[l] = [time |-> agreed[l] + 1, holder |-> NoPoller, left |-> 0, due |-> wait]
      BY <2>1 DEF ClaimInv, TypeOK
    <2>3. wait \in Nat /\ callback[l] \in Callbacks
      BY CallbackFields DEF ClaimInv
    <2>4. callback'[l] \in Callbacks /\ callback'[l].time = agreed[l] + 1
      <3> DEFINE r == callback[l]
                 t == agreed[l] + 1
      <3>1. r \in Callbacks /\ t \in 0 .. LastTime
        BY <1>1, <2>3
      <3> HIDE DEF r, t
      <3>2. /\ [r EXCEPT !.time = t, !.due = wait] \in Callbacks
            /\ [r EXCEPT !.time = t, !.due = wait].time = t
            /\ [time |-> t, holder |-> NoPoller, left |-> 0, due |-> wait] \in Callbacks
        BY <2>3, <3>1 DEF Callbacks
      <3>3. CASE callback'[l] = [r EXCEPT !.time = t, !.due = wait]
        BY <3>2, <3>3 DEF t
      <3>4. CASE callback'[l] = [time |-> t, holder |-> NoPoller, left |-> 0, due |-> wait]
        BY <3>2, <3>4 DEF t
      <3>5. QED
        BY <2>2, <3>3, <3>4 DEF r, t
    <2>5. QED
      BY <2>1, <2>4 DEF ClaimInv, TypeOK
  <1>3. agreed' \in [Lead -> 0 .. LastTime]
    BY <1>1 DEF ClaimInv, TypeOK
  <1>4. TypeOK'
    BY <1>1, <1>2, <1>3 DEF ClaimInv, TypeOK
  <1>5. TimeWasAgreed'
    <2>1. agreed'[l] = agreed[l] + 1 /\ \A k \in Lead : k # l => agreed'[k] = agreed[k]
      BY <1>1 DEF ClaimInv, TypeOK
    <2>2. QED
      BY <1>1, <1>2, <2>1 DEF ClaimInv, TimeWasAgreed
  <1>6. QED
    BY <1>1, <1>4, <1>5 DEF ClaimInv, SuccessWasDialled, UnclaimedHasNoOwner, CompletedWasDialled

\* A claim hands the poller items that it has yet to dial.
LEMMA ClaimFollowupsKeepsInv ==
    ASSUME ClaimInv, NEW p \in Poller, ClaimFollowups(p)
    PROVE  ClaimInv'
  <1> USE ClaimAssumption
  <1>1. PICK B \in SUBSET Followup :
           /\ followup' = [f \in Followup |->
                  IF f \in B THEN [followup[f] EXCEPT !.state = "processing", !.holder = p,
                                                      !.left = ClaimTime]
                  ELSE followup[f]]
           /\ poller' = [poller EXCEPT ![p] = [at |-> "followups",
                                               todo |-> {ForFollowup(f) : f \in B}]]
    BY BatchOfDue DEF ClaimFollowups
  <1>2. UNCHANGED <<agreed, callback, dialled, closed>>
    BY DEF ClaimFollowups
  <1>3. [at |-> "followups", todo |-> {ForFollowup(f) : f \in B}] \in Run
    BY ItemsTyped DEF Run
  <1>4. TypeOK'
    BY <1>1, <1>2, <1>3 DEF ClaimInv, TypeOK, Followups
  <1>5. SuccessWasDialled'
    BY <1>1, <1>2 DEF ClaimInv, TypeOK, SuccessWasDialled
  <1>6. QED
    BY <1>1, <1>2, <1>4, <1>5 DEF ClaimInv, TypeOK, Followups, UnclaimedHasNoOwner, TimeWasAgreed,
       CompletedWasDialled

LEMMA ClaimCallbacksKeepsInv ==
    ASSUME ClaimInv, NEW p \in Poller, ClaimCallbacks(p)
    PROVE  ClaimInv'
  <1> USE ClaimAssumption
  <1>1. PICK B \in SUBSET Lead :
           /\ \A l \in B : callback[l].time # 0
           /\ callback' = [l \in Lead |->
                  IF l \in B THEN [callback[l] EXCEPT !.holder = p, !.left = ClaimTime]
                  ELSE callback[l]]
           /\ poller' = [poller EXCEPT ![p] =
                  [at |-> "callbacks", todo |-> {ForCallback(l, callback[l].time) : l \in B}]]
    BY BatchOfDue DEF ClaimCallbacks, DueCallback
  <1>2. UNCHANGED <<followup, agreed, dialled, closed>>
    BY DEF ClaimCallbacks
  <1>3. [at |-> "callbacks", todo |-> {ForCallback(l, callback[l].time) : l \in B}] \in Run
    <2>1. ASSUME NEW l \in B PROVE callback[l].time \in 1 .. LastTime
      <3>1. callback[l].time # 0
        BY <1>1
      <3>2. callback[l].time \in Nat /\ callback[l].time <= LastTime
        BY CallbackFields DEF ClaimInv
      <3>3. QED
        BY <3>1, <3>2
    <2>2. QED
      BY <2>1, ItemsTyped DEF Run
  <1>4. TypeOK'
    BY <1>1, <1>2, <1>3 DEF ClaimInv, TypeOK, Callbacks
  <1>5. SuccessWasDialled'
    BY <1>1, <1>2 DEF ClaimInv, TypeOK, SuccessWasDialled
  <1>6. QED
    BY <1>1, <1>2, <1>4, <1>5 DEF ClaimInv, TypeOK, Callbacks, UnclaimedHasNoOwner, TimeWasAgreed,
       CompletedWasDialled

\* The steps of a run that touch no row.
LEMMA RunKeepsInv ==
    ASSUME ClaimInv, NEW p \in Poller, FailClaim(p) \/ EndRun(p) \/ StartDial(p) \/ Crash(p)
    PROVE  ClaimInv'
  <1>1. UNCHANGED <<followup, agreed, callback, dialled, closed>>
    BY DEF FailClaim, EndRun, StartDial, Crash
  <1>2. PICK r \in Run : /\ poller' = [poller EXCEPT ![p] = r]
                         /\ ~(r.at = "dialled" /\ r.success = TRUE)
    <2>1. Idle \in Run /\ Idle.at # "dialled"
      BY DEF Run, Idle
    <2>2. \A a \in {"followups", "callbacks"} : [at |-> a, todo |-> {}] \in Run
      BY DEF Run
    <2>3. CASE FailClaim(p)
      BY <2>2, <2>3 DEF FailClaim
    <2>4. CASE EndRun(p) \/ Crash(p)
      BY <2>1, <2>4 DEF EndRun, Crash
    <2>5. CASE StartDial(p)
      <3>1. poller[p].todo \subseteq Item
        BY <2>5, RunFields DEF StartDial, ClaimInv
      <3>2. \A i \in poller[p].todo :
               /\ [at |-> "dialled", todo |-> poller[p].todo \ {i}, item |-> i, success |-> FALSE]
                     \in Run
               /\ [at |-> "dialling", todo |-> poller[p].todo \ {i}, item |-> i] \in Run
        BY <3>1 DEF Run
      <3>3. QED
        BY <2>5, <3>2 DEF StartDial, Dialled
    <2>6. QED
      BY <2>3, <2>4, <2>5
  <1>3. TypeOK'
    BY <1>1, <1>2 DEF ClaimInv, TypeOK
  <1>4. SuccessWasDialled'
    BY <1>1, <1>2 DEF ClaimInv, TypeOK, SuccessWasDialled
  <1>5. QED
    BY <1>1, <1>3, <1>4 DEF ClaimInv, UnclaimedHasNoOwner, TimeWasAgreed, CompletedWasDialled

\* A call that answers success was placed for the item.
LEMMA DialKeepsInv ==
    ASSUME ClaimInv, NEW p \in Poller, Dial(p)
    PROVE  ClaimInv'
  <1> DEFINE i == poller[p].item
  <1>1. i \in Item /\ poller[p].todo \subseteq Item
    BY RunFields DEF Dial, ClaimInv
  <1>2. PICK success \in BOOLEAN, placed \in BOOLEAN :
           /\ success => placed
           /\ dialled' = [dialled EXCEPT ![i] = IF placed /\ @ < 2 THEN @ + 1 ELSE @]
           /\ poller' = [poller EXCEPT ![p] = [at |-> "dialled", todo |-> poller[p].todo,
                                               item |-> i, success |-> success]]
    BY DEF Dial, Answers, Dialled
  <1>3. UNCHANGED <<followup, agreed, callback, closed>>
    BY DEF Dial
  <1>4. [at |-> "dialled", todo |-> poller[p].todo, item |-> i, success |-> success] \in Run
    BY <1>1 DEF Run
  <1> HIDE DEF i
  <1>5. /\ dialled' \in [Item -> 0 .. 2]
        /\ \A j \in Item : dialled'[j] >= dialled[j]
        /\ placed => dialled'[i] > 0
    BY <1>1, <1>2 DEF ClaimInv, TypeOK
  <1>6. TypeOK'
    BY <1>2, <1>3, <1>4, <1>5 DEF ClaimInv, TypeOK
  <1>7. SuccessWasDialled'
    <2> SUFFICES ASSUME NEW q \in Poller, (poller[q].at = "dialled" /\ poller[q].success = TRUE)'
                 PROVE  dialled'[poller'[q].item] > 0
      BY DEF SuccessWasDialled
    <2>1. CASE q = p
      <3>1. poller'[p] = [at |-> "dialled", todo |-> poller[p].todo, item |-> i, success |-> success]
        BY <1>2 DEF ClaimInv, TypeOK
      <3>2. QED
        BY <1>2, <1>5, <2>1, <3>1
    <2>2. CASE q # p
      <3>1. poller'[q] = poller[q]
        BY <1>2, <2>2 DEF ClaimInv, TypeOK
      <3>2. poller[q].item \in Item
        BY <3>1, RunFields DEF ClaimInv
      <3>3. dialled[poller[q].item] > 0
        BY <3>1 DEF ClaimInv, SuccessWasDialled
      <3>4. QED
        BY <1>5, <3>1, <3>2, <3>3 DEF ClaimInv, TypeOK
    <2>3. QED
      BY <2>1, <2>2
  <1>8. CompletedWasDialled'
    BY <1>3, <1>5, <1>6, ItemsTyped DEF ClaimInv, TypeOK, CompletedWasDialled
  <1>9. QED
    BY <1>3, <1>6, <1>7, <1>8 DEF ClaimInv, UnclaimedHasNoOwner, TimeWasAgreed

\* What a poller that settles its claim may write.
LEMMA FinishWrites ==
    ASSUME ClaimInv, NEW p \in Poller, Finish(p)
    PROVE  LET i == poller[p].item IN
           /\ i \in Item
           /\ \/ /\ i.kind = "followup" /\ i.row \in Followup /\ i = ForFollowup(i.row)
                 /\ followup[i.row].state = "processing" /\ followup[i.row].holder = p
                 /\ \E s \in {"completed", "pending"} :
                       /\ s = "completed" => dialled[i] > 0
                       /\ followup' = [followup EXCEPT ![i.row] =
                              [@ EXCEPT !.state = s, !.holder = NoPoller, !.left = 0]]
                 /\ UNCHANGED callback
              \/ /\ i.kind = "callback" /\ i.lead \in Lead
                 /\ callback[i.lead].holder = p
                 /\ i = ForCallback(i.lead, callback[i.lead].time)
                 /\ \E t \in {0, callback[i.lead].time} :
                       /\ t = 0 => dialled[i] > 0
                       /\ callback' = [callback EXCEPT ![i.lead] =
                              [@ EXCEPT !.time = t, !.holder = NoPoller, !.left = 0]]
                 /\ UNCHANGED followup
              \/ UNCHANGED <<followup, callback>>
  <1> DEFINE i == poller[p].item
  <1>1. i \in Item /\ poller[p].success \in BOOLEAN
    BY RunFields DEF Finish, ClaimInv
  <1>2. poller[p].success = TRUE => dialled[i] > 0
    BY DEF Finish, ClaimInv, SuccessWasDialled
  <1>3. FinishClaim(p, i, poller[p].success)
    BY DEF Finish
  <1> HIDE DEF i
  <1>4. CASE i.kind = "followup" /\ OwnsFollowup(p, i.row) /\ UNCHANGED callback
             /\ followup' = [followup EXCEPT ![i.row] =
                    [@ EXCEPT !.state = IF poller[p].success THEN "completed" ELSE "pending",
                              !.holder = NoPoller, !.left = 0]]
    <2>1. i.row \in Followup /\ i = ForFollowup(i.row)
      BY <1>1, <1>4, ItemFields
    <2>2. QED
      BY <1>1, <1>2, <1>4, <2>1 DEF OwnsFollowup, i
  <1>5. CASE i.kind = "callback" /\ OwnsCallback(p, i) /\ UNCHANGED followup
             /\ callback' = [callback EXCEPT ![i.lead] =
                    [@ EXCEPT !.time = IF poller[p].success THEN 0 ELSE callback[i.lead].time,
                              !.holder = NoPoller, !.left = 0]]
    <2>1. i.lead \in Lead /\ i.time \in 1 .. LastTime /\ i = ForCallback(i.lead, i.time)
      BY <1>1, <1>5, ItemFields
    <2>2. callback[i.lead].time = i.time /\ i.time # 0
      BY <1>5, <2>1 DEF OwnsCallback
    <2>3. \E t \in {0, callback[i.lead].time} :
             /\ t = 0 => dialled[i] > 0
             /\ callback' = [callback EXCEPT ![i.lead] =
                    [@ EXCEPT !.time = t, !.holder = NoPoller, !.left = 0]]
      <3> DEFINE t == IF poller[p].success THEN 0 ELSE callback[i.lead].time
      <3>1. callback' = [callback EXCEPT ![i.lead] =
                [@ EXCEPT !.time = t, !.holder = NoPoller, !.left = 0]]
        BY <1>5
      <3>2. t \in {0, callback[i.lead].time} /\ (t = 0 => dialled[i] > 0)
        BY <1>1, <1>2, <2>2
      <3> HIDE DEF t
      <3>3. QED
        BY <3>1, <3>2
    <2>4. QED
      BY <1>1, <1>5, <2>1, <2>2, <2>3 DEF OwnsCallback, i
  <1>6. CASE UNCHANGED <<followup, callback>>
    BY <1>1, <1>6 DEF i
  <1>7. QED
    BY <1>3, <1>4, <1>5, <1>6 DEF FinishClaim

\* Settling a claim completes only a row that was dialled.
LEMMA FinishKeepsInv ==
    ASSUME ClaimInv, NEW p \in Poller, Finish(p)
    PROVE  ClaimInv'
  <1> DEFINE i == poller[p].item
  <1>1. UNCHANGED <<agreed, dialled, closed>>
    BY DEF Finish
  <1>2. PICK r \in Run : poller' = [poller EXCEPT ![p] = r] /\ r.at # "dialled"
    <2>1. poller[p].todo \subseteq Item
      BY RunFields DEF Finish, ClaimInv
    <2>2. \A a \in {"followups", "callbacks"} : [at |-> a, todo |-> poller[p].todo] \in Run
      BY <2>1 DEF Run
    <2>3. QED
      BY <2>2 DEF Finish
  <1>3. poller' \in [Poller -> Run] /\ SuccessWasDialled'
    BY <1>1, <1>2 DEF ClaimInv, TypeOK, SuccessWasDialled
  <1>4. CASE /\ i.row \in Followup /\ i = ForFollowup(i.row) /\ UNCHANGED callback
             /\ \E s \in {"completed", "pending"} :
                       /\ s = "completed" => dialled[i] > 0
                       /\ followup' = [followup EXCEPT ![i.row] =
                              [@ EXCEPT !.state = s, !.holder = NoPoller, !.left = 0]]
    <2> DEFINE f == i.row
    <2>1. PICK s \in {"completed", "pending"} :
             /\ s = "completed" => dialled[ForFollowup(f)] > 0
             /\ followup' = [followup EXCEPT ![f] =
                    [@ EXCEPT !.state = s, !.holder = NoPoller, !.left = 0]]
      BY <1>4
    <2>2. f \in Followup
      BY <1>4
    <2> HIDE DEF f, i
    <2>3. TypeOK'
      BY <1>1, <1>3, <1>4, <2>1, <2>2 DEF ClaimInv, TypeOK, Followups
    <2>4. QED
      BY <1>1, <1>3, <1>4, <2>1, <2>2, <2>3 DEF ClaimInv, TypeOK, Followups, UnclaimedHasNoOwner,
         TimeWasAgreed, CompletedWasDialled
  <1>5. CASE /\ i.lead \in Lead /\ UNCHANGED followup
             /\ \E t \in {0, callback[i.lead].time} :
                       callback' = [callback EXCEPT ![i.lead] =
                              [@ EXCEPT !.time = t, !.holder = NoPoller, !.left = 0]]
    <2> DEFINE l == i.lead
    <2>1. PICK t \in {0, callback[l].time} :
             callback' = [callback EXCEPT ![l] =
                    [@ EXCEPT !.time = t, !.holder = NoPoller, !.left = 0]]
      BY <1>5
    <2>2. l \in Lead
      BY <1>5
    <2> HIDE DEF l, i
    <2>3. callback' \in [Lead -> Callbacks] /\ TimeWasAgreed'
      <3>1. callback'[l] = [callback[l] EXCEPT !.time = t, !.holder = NoPoller, !.left = 0]
        BY <2>1, <2>2 DEF ClaimInv, TypeOK
      <3>2. callback[l] \in Callbacks /\ callback[l].time <= agreed[l]
            /\ agreed[l] \in 0 .. LastTime
        BY <2>2 DEF ClaimInv, TypeOK, TimeWasAgreed
      <3>3. t \in 0 .. LastTime /\ t <= agreed[l]
        BY <3>2, ClaimAssumption DEF Callbacks
      <3>4. callback'[l].time = t /\ callback'[l] \in Callbacks
        <4> DEFINE given == callback[l]
        <4> HIDE DEF given
        <4>1. /\ [given EXCEPT !.time = t, !.holder = NoPoller, !.left = 0] \in Callbacks
              /\ [given EXCEPT !.time = t, !.holder = NoPoller, !.left = 0].time = t
          BY <3>2, <3>3 DEF Callbacks, given
        <4>2. QED
          BY <3>1, <4>1 DEF given
      <3>5. QED
        BY <1>1, <2>1, <2>2, <3>3, <3>4 DEF ClaimInv, TypeOK, TimeWasAgreed
    <2>4. QED
      BY <1>1, <1>3, <1>5, <2>3 DEF ClaimInv, TypeOK, UnclaimedHasNoOwner, CompletedWasDialled
  <1>6. CASE UNCHANGED <<followup, callback>>
    BY <1>1, <1>3, <1>6 DEF ClaimInv, TypeOK, UnclaimedHasNoOwner, TimeWasAgreed, CompletedWasDialled
  <1>7. QED
    BY <1>4, <1>5, <1>6, FinishWrites

LEMMA TickKeepsInv == ClaimInv /\ Tick => ClaimInv'
  <1> SUFFICES ASSUME ClaimInv, Tick PROVE ClaimInv'
    OBVIOUS
  <1>1. \A n \in Nat : Less(n) \in Nat
    BY DEF Less
  <1>2. UNCHANGED <<agreed, poller, dialled, closed>>
    BY DEF Tick
  <1>3. followup' \in [Followup -> Followups]
        /\ \A f \in Followup : /\ followup'[f].state = followup[f].state
                               /\ followup'[f].holder = followup[f].holder
    BY <1>1 DEF Tick, ClaimInv, TypeOK, Followups
  <1>4. callback' \in [Lead -> Callbacks]
        /\ \A l \in Lead : callback'[l].time = callback[l].time
    BY <1>1 DEF Tick, ClaimInv, TypeOK, Callbacks
  <1>5. QED
    BY <1>2, <1>3, <1>4 DEF ClaimInv, TypeOK, SuccessWasDialled, UnclaimedHasNoOwner, TimeWasAgreed,
       CompletedWasDialled

LEMMA StepKeepsInv == ClaimInv /\ [Next]_vars => ClaimInv'
  <1> SUFFICES ASSUME ClaimInv, [Next]_vars PROVE ClaimInv'
    OBVIOUS
  <1>1. CASE UNCHANGED vars
    BY <1>1 DEF vars, ClaimInv, TypeOK, SuccessWasDialled, UnclaimedHasNoOwner, TimeWasAgreed,
       CompletedWasDialled
  <1>2. QED
    BY <1>1, RowsKeepInv, ScheduleKeepsInv, ClaimFollowupsKeepsInv, ClaimCallbacksKeepsInv,
       RunKeepsInv, DialKeepsInv, FinishKeepsInv, TickKeepsInv DEF Next, Step

LEMMA InvHolds == Spec => []ClaimInv
  BY InitInv, StepKeepsInv, PTL DEF Spec
-----------------------------------------------------------------------------
\* Every reachable state of the rows and the pollers is well typed.
THEOREM TypeCorrect == Spec => []TypeOK
  <1>1. ClaimInv => TypeOK
    BY DEF ClaimInv
  <1>2. QED
    BY <1>1, InvHolds, PTL

\* A follow-up is completed only by a call that was placed for it or by an
\* operator (finish_followup_claim), for any number of pollers that die, lose
\* answers and settle late.
THEOREM CompletedOnlyWhenDialled == Spec => []CompletedWasDialled
  <1>1. ClaimInv => CompletedWasDialled
    BY DEF ClaimInv
  <1>2. QED
    BY <1>1, InvHolds, PTL

\* What is completed or cancelled stays so, whoever still dials the row.
THEOREM ClosedFollowupsStay == Spec => ClosedStaysClosed
  <1> DEFINE Stays == \A f \in Followup :
                         followup[f].state \in {"completed", "cancelled"}
                           => followup'[f].state \in {"completed", "cancelled"}
  <1>1. ASSUME ClaimInv, [Next]_vars PROVE [Stays]_vars
    <2>1. ASSUME NEW f \in Followup, CreateFollowup(f) \/ CloseFollowup(f) PROVE Stays
      BY <1>1, <2>1 DEF CreateFollowup, CloseFollowup, ClaimInv, TypeOK, Followups
    <2>2. ASSUME NEW p \in Poller, ClaimFollowups(p) PROVE Stays
      BY <1>1, <2>2, BatchOfDue DEF ClaimFollowups, DueFollowup
    <2>3. ASSUME NEW p \in Poller, Finish(p) PROVE Stays
      BY <1>1, <2>3, FinishWrites DEF ClaimInv, TypeOK
    <2>4. CASE Tick
      BY <1>1, <2>4 DEF Tick, ClaimInv, TypeOK, Followups
    <2>5. CASE UNCHANGED followup
      BY <2>5
    <2>6. QED
      BY <1>1, <2>1, <2>2, <2>3, <2>4, <2>5
         DEF Next, Step, ScheduleCallback, ClaimCallbacks, FailClaim, EndRun, StartDial, Dial,
             Crash, vars
  <1>2. QED
    BY <1>1, InvHolds, PTL DEF Spec, ClosedStaysClosed

\* An agreed time is struck from the lead only after a call was placed for that
\* very time (finish_callback_claim compares it), whatever was agreed meanwhile.
THEOREM CallbacksHonoured == Spec => CallbacksAreHonoured
  <1> DEFINE Honoured == \A l \in Lead :
                            callback[l].time # 0 /\ callback'[l].time = 0
                              => dialled[ForCallback(l, callback[l].time)] > 0
  <1>1. ASSUME ClaimInv, [Next]_vars PROVE [Honoured]_vars
    <2>1. ASSUME NEW l \in Lead, ScheduleCallback(l) PROVE Honoured
      <3>1. agreed[l] \in Nat
        BY <1>1, ClaimAssumption DEF ClaimInv, TypeOK
      <3>2. \A k \in Lead : callback'[k] = callback[k] \/ callback'[k].time = agreed[l] + 1
        BY <1>1, <2>1 DEF ScheduleCallback, ClaimInv, TypeOK, Callbacks
      <3>3. QED
        BY <3>1, <3>2
    <2>2. ASSUME NEW p \in Poller, ClaimCallbacks(p) PROVE Honoured
      <3>1. \A l \in Lead : callback'[l].time = callback[l].time
        BY <1>1, <2>2, CallbackFields DEF ClaimCallbacks, ClaimInv, Callbacks
      <3>2. QED
        BY <3>1
    <2>3. ASSUME NEW p \in Poller, Finish(p) PROVE Honoured
      <3> DEFINE i == poller[p].item
      <3>1. \/ UNCHANGED callback
            \/ /\ i.lead \in Lead /\ i = ForCallback(i.lead, callback[i.lead].time)
               /\ \E t \in {0, callback[i.lead].time} :
                       /\ t = 0 => dialled[i] > 0
                       /\ callback' = [callback EXCEPT ![i.lead] =
                              [@ EXCEPT !.time = t, !.holder = NoPoller, !.left = 0]]
        BY <1>1, <2>3, FinishWrites
      <3> DEFINE k == i.lead
      <3>2. CASE UNCHANGED callback
        BY <3>2
      <3>3. ASSUME k \in Lead, i = ForCallback(k, callback[k].time),
                   NEW t \in {0, callback[k].time}, t = 0 => dialled[i] > 0,
                   callback' = [callback EXCEPT ![k] =
                              [@ EXCEPT !.time = t, !.holder = NoPoller, !.left = 0]]
            PROVE  Honoured
        <4> HIDE DEF k, i
        <4>1. callback'[k] = [callback[k] EXCEPT !.time = t, !.holder = NoPoller, !.left = 0]
          BY <1>1, <3>3 DEF ClaimInv, TypeOK
        <4>2. callback'[k].time = t
          BY <1>1, <3>3, <4>1, CallbackFields DEF ClaimInv, Callbacks
        <4>3. \A l \in Lead : l # k => callback'[l] = callback[l]
          BY <1>1, <3>3 DEF ClaimInv, TypeOK
        <4>4. QED
          BY <3>3, <4>2, <4>3
      <3>4. QED
        BY <3>1, <3>2, <3>3
    <2>4. CASE Tick
      BY <1>1, <2>4 DEF Tick, ClaimInv, TypeOK, Callbacks
    <2>5. CASE UNCHANGED callback
      BY <2>5
    <2>6. QED
      BY <1>1, <2>1, <2>2, <2>3, <2>4, <2>5
         DEF Next, Step, CreateFollowup, CloseFollowup, ClaimFollowups, FailClaim, EndRun,
             StartDial, Dial, Crash, vars
  <1>2. QED
    BY <1>1, InvHolds, PTL DEF Spec, CallbacksAreHonoured

(***************************************************************************)
(* "An expired worker cannot clear a newer claim": within the time of its  *)
(* claim a poller's rows are settled or taken by nobody else.              *)
(***************************************************************************)
THEOREM ClaimsExclusive == Spec => ClaimsAreExclusive
  <1> DEFINE Exclusive == \A p \in Poller :
          poller'[p] = poller[p] =>
            /\ \A f \in Followup :
                  followup[f].holder = p /\ ~Lapsed(followup[f]) => followup'[f].holder = p
            /\ \A l \in Lead :
                  /\ callback[l].holder = p /\ ~Lapsed(callback[l])
                  /\ callback'[l].time = callback[l].time
                  => callback'[l].holder = p
  <1>1. ASSUME ClaimInv, [Next]_vars PROVE [Exclusive]_vars
    <2> USE <1>1
    <2>1. ASSUME NEW f \in Followup, CreateFollowup(f) \/ CloseFollowup(f) PROVE Exclusive
      BY <2>1 DEF CreateFollowup, CloseFollowup, ClaimInv, TypeOK, Followups
    <2>2. ASSUME NEW l \in Lead, ScheduleCallback(l) PROVE Exclusive
      <3>1. \A k \in Lead : callback'[k] = callback[k] \/ k = l
        BY <2>2 DEF ScheduleCallback, ClaimInv, TypeOK
      <3>2. callback'[l].time = agreed[l] + 1
        BY <2>2 DEF ScheduleCallback, ClaimInv, TypeOK, Callbacks
      <3>3. callback'[l].time # callback[l].time
        BY <3>2, ClaimAssumption DEF ClaimInv, TypeOK, Callbacks, TimeWasAgreed
      <3>4. UNCHANGED followup
        BY <2>2 DEF ScheduleCallback
      <3>5. QED
        BY <3>1, <3>3, <3>4
    <2>3. ASSUME NEW q \in Poller, ClaimFollowups(q) PROVE Exclusive
      <3>1. \A f \in Followup :
               \/ followup'[f] = followup[f]
               \/ followup[f].holder = NoPoller
               \/ Lapsed(followup[f])
        BY <2>3, BatchOfDue DEF ClaimFollowups, DueFollowup, ClaimInv, UnclaimedHasNoOwner
      <3>2. QED
        BY <2>3, <3>1, ClaimAssumption DEF ClaimFollowups
    <2>4. ASSUME NEW q \in Poller, ClaimCallbacks(q) PROVE Exclusive
      <3>1. \A l \in Lead :
               \/ callback'[l] = callback[l]
               \/ callback[l].holder = NoPoller
               \/ Lapsed(callback[l])
        BY <2>4, BatchOfDue DEF ClaimCallbacks, DueCallback
      <3>2. QED
        BY <2>4, <3>1, ClaimAssumption DEF ClaimCallbacks
    <2>5. ASSUME NEW q \in Poller, Finish(q) PROVE Exclusive
      <3>1. poller'[q] # poller[q]
        BY <2>5 DEF Finish, ClaimInv, TypeOK
      <3>2. \A f \in Followup : followup'[f] = followup[f] \/ followup[f].holder = q
        BY <2>5, FinishWrites DEF ClaimInv, TypeOK
      <3>3. \A l \in Lead : callback'[l] = callback[l] \/ callback[l].holder = q
        BY <2>5, FinishWrites DEF ClaimInv, TypeOK
      <3>4. QED
        BY <3>1, <3>2, <3>3
    <2>6. CASE Tick
      BY <2>6 DEF Tick, ClaimInv, TypeOK, Followups, Callbacks
    <2>7. CASE UNCHANGED <<followup, callback>>
      BY <2>7
    <2>8. QED
      BY <2>1, <2>2, <2>3, <2>4, <2>5, <2>6, <2>7
         DEF Next, Step, FailClaim, EndRun, StartDial, Dial, Crash, vars
  <1>2. QED
    BY <1>1, InvHolds, PTL DEF Spec, ClaimsAreExclusive
=============================================================================
