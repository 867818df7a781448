---------------------- MODULE ContactSuppressionProofs ----------------------
(***************************************************************************)
(* Theorems about ContactSuppression for any phones, handlers, senders and *)
(* recovery workers, with and without a journal.                           *)
(***************************************************************************)
EXTENDS ContactSuppression, TLAPS

\* The fields that the records of well-typed states have.
LEMMA WorkFields ==
    ASSUME TypeOK, NEW w \in Worker
    PROVE  /\ work[w].at \in {"idle", "listing", "proving", "verifying", "finishing"}
           /\ work[w].at # "idle" => work[w].phone \in Phone
           /\ work[w].at = "finishing" => work[w].saved \in BOOLEAN
           /\ work[w].at = "idle" => work[w] = Idle
  BY DEF TypeOK, Work, Idle

LEMMA StopFields ==
    ASSUME TypeOK, NEW h \in Handler
    PROVE  /\ stop[h].at \in {"idle", "staged", "listed"}
           /\ stop[h].at # "idle" =>
                /\ stop[h] \in [at : {"staged", "listed"}, phone : Phone,
                                by : {"sms", "voice"}, ok : BOOLEAN]
                /\ stop[h].phone \in Phone
           /\ stop[h].at = "idle" => stop[h] = Idle
  BY DEF TypeOK, Stop, Idle

LEMMA SendFields ==
    ASSUME TypeOK, NEW s \in Sender
    PROVE  /\ send[s].at \in {"idle", "local", "remote", "clear"}
           /\ send[s].at # "idle" =>
                /\ send[s] \in [at : {"local", "remote", "clear"}, phone : Phone, stopped : BOOLEAN]
                /\ send[s].phone \in Phone
           /\ send[s].at = "idle" => send[s] = Idle
  BY DEF TypeOK, Send, Idle

\* Type correctness is inductive.
LEMMA TypeStep == TypeOK /\ [Next]_vars => TypeOK'
  <1> SUFFICES ASSUME TypeOK, [Next]_vars PROVE TypeOK'
    OBVIOUS
  <1> USE SuppressionAssumption DEF journal, remote
  <1>1. ASSUME NEW h \in Handler, NEW p \in Phone, NEW by \in {"sms", "voice"}, Stage(h, p, by)
        PROVE  TypeOK'
    <2>1. stop' \in [Handler -> Stop]
      <3>1. \A ok \in BOOLEAN : [at |-> "staged", phone |-> p, by |-> by, ok |-> ok] \in Stop
        BY DEF Stop
      <3>2. PICK ok \in BOOLEAN :
               stop' = [stop EXCEPT ![h] = [at |-> "staged", phone |-> p, by |-> by, ok |-> ok]]
        BY <1>1 DEF Stage
      <3> QED BY <3>1, <3>2 DEF TypeOK
    <2>2. row' \in [Phone -> {"none", "pending", "recovered"}]
      BY <1>1 DEF TypeOK, Stage, Staged
    <2> QED BY <1>1, <2>1, <2>2 DEF TypeOK, Stage
  <1>2. ASSUME NEW h \in Handler, List(h) PROVE TypeOK'
    <2>1. stop[h].phone \in Phone /\ stop[h].at = "staged"
      BY <1>2, StopFields DEF List
    <2>2. dnc' \subseteq Phone BY <1>2, <2>1 DEF TypeOK, List
    <2>3. stop' \in [Handler -> Stop] BY <1>2, <2>1, StopFields DEF TypeOK, List, Stop
    <2> QED BY <1>2, <2>2, <2>3 DEF TypeOK, List
  <1>3. ASSUME NEW h \in Handler, Answer(h) PROVE TypeOK'
    <2>1. stop[h].phone \in Phone BY <1>3, StopFields DEF Answer
    <2> QED BY <1>3, <2>1 DEF TypeOK, Answer, Stop
  <1>4. ASSUME NEW s \in Sender, NEW p \in Phone, StartSend(s, p) PROVE TypeOK'
    BY <1>4 DEF TypeOK, StartSend, Send
  <1>5. ASSUME NEW s \in Sender, CheckLocal(s) PROVE TypeOK'
    BY <1>5, SendFields DEF TypeOK, CheckLocal, Send
  <1>6. ASSUME NEW s \in Sender, CheckRemote(s) PROVE TypeOK'
    BY <1>6, SendFields DEF TypeOK, CheckRemote, Send
  <1>7. ASSUME NEW s \in Sender, Transmit(s) PROVE TypeOK'
    BY <1>7 DEF TypeOK, Transmit, Send
  <1>8. ASSUME NEW w \in Worker, Claim(w) PROVE TypeOK'
    BY <1>8 DEF TypeOK, Claim, Work
  <1>9. ASSUME NEW w \in Worker,
               ListPhone(w) \/ ProveEvent(w) \/ Verify(w) \/ FailRequest(w)
        PROVE  TypeOK'
    <2>1. work[w].phone \in Phone
      BY <1>9, WorkFields DEF ListPhone, ProveEvent, Verify, FailRequest
    <2>2. work' \in [Worker -> Work]
      <3>1. \A place \in {"listing", "proving", "verifying"} :
               [at |-> place, phone |-> work[w].phone] \in Work
        BY <2>1 DEF Work
      <3>2. \A saved \in BOOLEAN :
               [at |-> "finishing", phone |-> work[w].phone, saved |-> saved] \in Work
        BY <2>1 DEF Work
      <3>3. CASE ListPhone(w) \/ ProveEvent(w)
        BY <3>1, <3>3 DEF TypeOK, ListPhone, ProveEvent, GoOn
      <3>4. CASE Verify(w)
        <4>1. (work[w].phone \in dnc) \in BOOLEAN OBVIOUS
        <4> QED BY <3>2, <3>4, <4>1 DEF TypeOK, Verify, Conclude
      <3>5. CASE FailRequest(w)
        BY <3>2, <3>5 DEF TypeOK, FailRequest, Conclude, SavedAfterFailure
      <3> QED BY <1>9, <3>3, <3>4, <3>5
    <2>3. dnc' \subseteq Phone /\ evidence' \subseteq Phone
      BY <1>9, <2>1 DEF TypeOK, ListPhone, ProveEvent, Verify, FailRequest
    <2> QED BY <1>9, <2>2, <2>3 DEF TypeOK, ListPhone, ProveEvent, Verify, FailRequest
  <1>10. ASSUME NEW w \in Worker, Finish(w) PROVE TypeOK'
    BY <1>10 DEF TypeOK, Finish, Work
  <1>11. ASSUME Crash PROVE TypeOK'
    BY <1>11 DEF TypeOK, Crash, Work, Stop
  <1>12. ASSUME Tick PROVE TypeOK'
    BY <1>12 DEF TypeOK, Tick, Less
  <1>13. CASE UNCHANGED vars
    BY <1>13 DEF TypeOK, vars
  <1> QED
    BY <1>1, <1>2, <1>3, <1>4, <1>5, <1>6, <1>7, <1>8, <1>9, <1>10, <1>11, <1>12, <1>13 DEF Next

\* For every number of phones, handlers, senders and workers, the journal,
\* the remote tables and the threads keep their shape.
THEOREM TypeCorrect == Spec => []TypeOK
  <1>1. Init => TypeOK
    BY SuppressionAssumption DEF Init, TypeOK, Work, Stop, Send
  <1> QED BY <1>1, TypeStep, PTL DEF Spec

-----------------------------------------------------------------------------
(***************************************************************************)
(* A STOP that was acknowledged leaves a mark that no step removes: a row  *)
(* of the journal, or the phone's entry in dnc_list.                       *)
(***************************************************************************)
Journalled(p) == configured /\ row[p] # "none"
Marked(p) == Journalled(p) \/ p \in dnc

\* What entitles a handler to acknowledge.
StopBacked ==
    \A h \in Handler : stop[h].at # "idle" /\ stop[h].ok =>
        IF stop[h].at = "listed" /\ stop[h].by = "voice" THEN stop[h].phone \in dnc
        ELSE Journalled(stop[h].phone)

AckedMarked == \A p \in acked : Marked(p)

\* How far a sender may have come with a phone whose STOP was acknowledged.
SendBacked ==
    \A s \in Sender : send[s].at # "idle" /\ send[s].stopped =>
        /\ send[s].at \in {"local", "remote"}
        /\ Marked(send[s].phone)
        /\ send[s].at = "remote" => send[s].phone \in dnc

\* What a recovery worker has written so far.
WorkBacked ==
    \A w \in Worker :
        /\ work[w].at \in {"proving", "verifying"} => work[w].phone \in dnc
        /\ work[w].at = "verifying" => work[w].phone \in evidence
        /\ work[w].at = "finishing" /\ work[w].saved
              => work[w].phone \in dnc /\ work[w].phone \in evidence

\* A recovered row is leased to nobody.
RecoveredIsFree == \A p \in Phone : row[p] = "recovered" => ~Leased(p)

StopInv ==
    /\ TypeOK
    /\ StopBacked /\ AckedMarked /\ SendBacked
    /\ WorkBacked /\ RecoveredIsFree /\ RecoveredIsRecorded

\* No process changes its configuration.
LEMMA ConfigurationStays == ASSUME [Next]_vars PROVE configured' = configured
  BY DEF Next, vars, Stage, List, Answer, StartSend, CheckLocal, CheckRemote, Transmit, Claim,
         ListPhone, ProveEvent, Verify, FailRequest, Finish, Crash, Tick, journal

\* The marks are never taken back.
LEMMA MarksStay ==
    ASSUME TypeOK, [Next]_vars
    PROVE  /\ dnc \subseteq dnc' /\ evidence \subseteq evidence'
           /\ \A p \in Phone : row[p] # "none" => row'[p] # "none"
  <1>1. ASSUME NEW h \in Handler, NEW p \in Phone, NEW by \in {"sms", "voice"}, Stage(h, p, by)
        PROVE  \A q \in Phone : row[q] # "none" => row'[q] # "none"
    BY <1>1 DEF Stage, Staged, TypeOK
  <1>2. ASSUME NEW w \in Worker, Finish(w)
        PROVE  \A q \in Phone : row[q] # "none" => row'[q] # "none"
    BY <1>2 DEF Finish, TypeOK, journal
  <1>3. dnc \subseteq dnc' /\ evidence \subseteq evidence'
    BY DEF Next, vars, Stage, List, Answer, StartSend, CheckLocal, CheckRemote, Transmit, Claim,
           ListPhone, ProveEvent, Verify, FailRequest, Finish, Crash, Tick, remote, journal
  <1>4. \/ row' = row
        \/ \E h \in Handler, p \in Phone, by \in {"sms", "voice"} : Stage(h, p, by)
        \/ \E w \in Worker : Finish(w)
    BY DEF Next, vars, List, Answer, StartSend, CheckLocal, CheckRemote, Transmit, Claim,
           ListPhone, ProveEvent, Verify, FailRequest, Crash, Tick, journal
  <1> QED BY <1>1, <1>2, <1>3, <1>4

\* Every step preserves the invariant.
LEMMA StopStep == StopInv /\ [Next]_vars => StopInv'
  <1> SUFFICES ASSUME StopInv, [Next]_vars PROVE StopInv'
    OBVIOUS
  <1> USE SuppressionAssumption DEF journal, remote
  <1>0. TypeOK /\ TypeOK'
    BY TypeStep DEF StopInv
  <1>t. /\ row \in [Phone -> {"none", "pending", "recovered"}]
        /\ leaseLeft \in [Phone -> Nat] /\ holder \in [Phone -> Worker \cup {NoWorker}]
        /\ work \in [Worker -> Work] /\ stop \in [Handler -> Stop] /\ send \in [Sender -> Send]
        /\ dnc \subseteq Phone /\ evidence \subseteq Phone /\ acked \subseteq Phone
    BY <1>0 DEF TypeOK
  <1>c. configured' = configured
    BY ConfigurationStays
  <1>m. /\ dnc \subseteq dnc' /\ evidence \subseteq evidence'
        /\ \A p \in Phone : Journalled(p) => Journalled(p)'
        /\ \A p \in Phone : Marked(p) => Marked(p)'
    BY <1>0, <1>c, MarksStay DEF Journalled, Marked
  <1>w. \A w \in Worker : work[w].at # "idle" => work[w].phone \in Phone
    BY <1>0, WorkFields
  <1>h. \A h \in Handler : stop[h].at # "idle" => stop[h].phone \in Phone
    BY <1>0, StopFields
  <1>s. \A s \in Sender : send[s].at # "idle" => send[s].phone \in Phone
    BY <1>0, SendFields
  \* The parts of the invariant that only read variables a step leaves alone,
  \* or whose marks can only grow.
  <1>1. (\A h \in Handler : stop'[h] \in {stop[h], Idle}) => StopBacked'
    BY <1>m, <1>h DEF StopInv, StopBacked, Idle
  <1>2. acked' = acked => AckedMarked'
    BY <1>m, <1>t DEF StopInv, AckedMarked
  <1>3. (\A s \in Sender : send'[s] \in {send[s], Idle}) => SendBacked'
    BY <1>m, <1>s DEF StopInv, SendBacked, Idle
  <1>4. (\A w \in Worker : work'[w] \in {work[w], Idle}) => WorkBacked'
    BY <1>m, <1>w DEF StopInv, WorkBacked, Idle
  <1>5. row' = row /\ leaseLeft' = leaseLeft => RecoveredIsFree'
    BY DEF StopInv, RecoveredIsFree, Leased
  <1>6. row' = row => RecoveredIsRecorded'
    BY <1>m DEF StopInv, RecoveredIsRecorded
  <1>7. ASSUME NEW h \in Handler, NEW p \in Phone, NEW by \in {"sms", "voice"}, Stage(h, p, by)
        PROVE  StopInv'
    <2>1. StopBacked'
      <3>1. CASE configured /\ row' = [row EXCEPT ![p] = Staged(p)]
        <4>1. Journalled(p)' BY <1>c, <1>t, <3>1 DEF Journalled, Staged
        <4>2. \A g \in Handler : g # h => stop'[g] = stop[g]
          BY <1>7, <1>t DEF Stage
        <4>3. stop'[h].at = "staged" /\ stop'[h].phone = p
          BY <1>7, <1>t DEF Stage
        <4> QED BY <1>m, <1>h, <4>1, <4>2, <4>3 DEF StopInv, StopBacked
      <3>2. CASE stop' = [stop EXCEPT ![h] = [at |-> "staged", phone |-> p, by |-> by,
                                              ok |-> FALSE]]
        BY <1>m, <1>h, <1>t, <3>2 DEF StopInv, StopBacked
      <3> QED BY <1>7, <3>1, <3>2 DEF Stage
    <2>2. \A q \in Phone : row'[q] = "recovered" => row[q] = "recovered"
      BY <1>7, <1>t DEF Stage, Staged
    <2>3. RecoveredIsFree' /\ RecoveredIsRecorded'
      BY <1>7, <1>m, <2>2 DEF Stage, StopInv, RecoveredIsFree, RecoveredIsRecorded, Leased
    <2> QED BY <1>0, <1>7, <1>2, <1>3, <1>4, <2>1, <2>3 DEF StopInv, Stage
  <1>8. ASSUME NEW h \in Handler, List(h) PROVE StopInv'
    <2>1. StopBacked'
      <3>1. \A g \in Handler : g # h => stop'[g] = stop[g]
        BY <1>8, <1>t DEF List
      <3>2. /\ stop[h].at = "staged" /\ stop[h].phone \in Phone
            /\ stop[h] \in [at : {"staged", "listed"}, phone : Phone,
                            by : {"sms", "voice"}, ok : BOOLEAN]
        BY <1>0, <1>8, StopFields DEF List
      <3>3. stop[h].ok => Journalled(stop[h].phone)
        BY <3>2 DEF StopInv, StopBacked
      <3>4. /\ stop'[h].at = "listed" /\ stop'[h].phone = stop[h].phone
            /\ stop'[h].by = stop[h].by
            /\ stop'[h].ok => \/ stop[h].by = "sms" /\ stop[h].ok
                              \/ stop[h].by = "voice" /\ stop[h].phone \in dnc'
        BY <1>8, <1>t, <3>2 DEF List
      <3>5. stop'[h].ok => IF stop'[h].by = "voice" THEN stop'[h].phone \in dnc'
                           ELSE Journalled(stop[h].phone)'
        BY <1>m, <3>2, <3>3, <3>4
      <3>6. \A g \in Handler : stop'[g].at # "idle" /\ stop'[g].ok =>
               IF stop'[g].at = "listed" /\ stop'[g].by = "voice" THEN stop'[g].phone \in dnc'
               ELSE configured' /\ row'[stop'[g].phone] # "none"
        BY <1>m, <1>h, <3>1, <3>4, <3>5 DEF StopInv, StopBacked, Journalled
      <3> QED BY <3>6 DEF StopBacked, Journalled
    <2> QED BY <1>0, <1>8, <1>2, <1>3, <1>4, <1>5, <1>6, <2>1 DEF StopInv, List
  <1>9. ASSUME NEW h \in Handler, Answer(h) PROVE StopInv'
    <2>1. MayAnswer(h) => Marked(stop[h].phone)
      BY <1>9 DEF Answer, MayAnswer, StopInv, StopBacked, Marked
    <2>2. AckedMarked'
      BY <1>9, <1>m, <1>t, <1>h, <2>1 DEF Answer, StopInv, AckedMarked
    <2>3. \A g \in Handler : stop'[g] \in {stop[g], Idle} BY <1>9, <1>t DEF Answer
    <2> QED BY <1>0, <1>9, <1>1, <1>3, <1>4, <1>5, <1>6, <2>2, <2>3 DEF StopInv, Answer
  <1>10. ASSUME NEW s \in Sender,
                (\E p \in Phone : StartSend(s, p)) \/ CheckLocal(s) \/ CheckRemote(s) \/ Transmit(s)
         PROVE  StopInv'
    <2>1. \A r \in Sender : r # s => send'[r] = send[r]
      BY <1>10, <1>t DEF StartSend, CheckLocal, CheckRemote, Transmit
    <2>2. send'[s].at # "idle" /\ send'[s].stopped =>
             /\ send'[s].at \in {"local", "remote"}
             /\ Marked(send'[s].phone)
             /\ send'[s].at = "remote" => send'[s].phone \in dnc
      <3>1. CASE \E p \in Phone : StartSend(s, p)
        <4>1. PICK p \in Phone : StartSend(s, p) BY <3>1
        <4>2. send'[s] = [at |-> "local", phone |-> p, stopped |-> p \in acked]
          BY <1>t, <4>1 DEF StartSend
        <4>3. send'[s].at = "local" /\ send'[s].phone = p BY <4>2
        <4>4. send'[s].stopped = (p \in acked) BY <4>2
        <4>5. p \in acked => Marked(p) BY DEF StopInv, AckedMarked
        <4> QED BY <4>3, <4>4, <4>5
      <3>2. CASE CheckLocal(s)
        <4>1. /\ send[s].at = "local" /\ send[s] \in [at : {"local", "remote", "clear"},
                                                      phone : Phone, stopped : BOOLEAN]
          BY <1>0, <3>2, SendFields DEF CheckLocal
        <4>2. CASE send' = [send EXCEPT ![s] = Idle] BY <1>t, <4>2 DEF Idle
        <4>3. CASE /\ configured => ~LocallySuppressed(send[s].phone)
                   /\ send' = [send EXCEPT ![s].at = "remote"]
          <5>1. /\ send'[s].at = "remote" /\ send'[s].phone = send[s].phone
                /\ send'[s].stopped = send[s].stopped
            BY <1>t, <4>1, <4>3
          <5>2. send[s].stopped => Marked(send[s].phone)
            BY <4>1 DEF StopInv, SendBacked
          <5> QED BY <4>3, <5>1, <5>2, <1>c DEF Marked, Journalled, LocallySuppressed
        <4> QED BY <3>2, <4>2, <4>3 DEF CheckLocal
      <3>3. CASE CheckRemote(s)
        <4>1. /\ send[s].at = "remote" /\ send[s] \in [at : {"local", "remote", "clear"},
                                                       phone : Phone, stopped : BOOLEAN]
          BY <1>0, <3>3, SendFields DEF CheckRemote
        <4>2. CASE send' = [send EXCEPT ![s] = Idle] BY <1>t, <4>2 DEF Idle
        <4>3. CASE send[s].phone \notin dnc /\ send' = [send EXCEPT ![s].at = "clear"]
          <5>1. ~send[s].stopped BY <4>1, <4>3 DEF StopInv, SendBacked
          <5> QED BY <1>t, <4>1, <4>3, <5>1
        <4> QED BY <3>3, <4>2, <4>3 DEF CheckRemote
      <3>4. CASE Transmit(s) BY <1>t, <3>4 DEF Transmit, Idle
      <3> QED BY <1>10, <3>1, <3>2, <3>3, <3>4
    <2>3. UNCHANGED <<configured, row, due, holder, leaseLeft, dnc, evidence, work, stop, acked>>
      BY <1>10 DEF StartSend, CheckLocal, CheckRemote, Transmit
    <2>4. \A p : Marked(p)' = Marked(p) BY <2>3 DEF Marked, Journalled
    <2>5. SendBacked'
      <3> SUFFICES ASSUME NEW r \in Sender, send'[r].at # "idle", send'[r].stopped
                   PROVE  /\ send'[r].at \in {"local", "remote"}
                          /\ Marked(send'[r].phone)
                          /\ send'[r].at = "remote" => send'[r].phone \in dnc
        BY <2>3 DEF SendBacked, Marked, Journalled
      <3> QED BY <2>1, <2>2 DEF StopInv, SendBacked
    <2> QED BY <1>0, <2>3, <2>5, <1>1, <1>2, <1>4, <1>5, <1>6 DEF StopInv
  <1>11. ASSUME NEW w \in Worker, Claim(w) PROVE StopInv'
    <2>1. WorkBacked'
      <3>1. \A v \in Worker : v # w => work'[v] = work[v]
        BY <1>11, <1>t DEF Claim
      <3>2. work'[w].at = "listing" BY <1>11, <1>t DEF Claim
      <3> QED BY <1>m, <1>w, <3>1, <3>2 DEF StopInv, WorkBacked
    <2>2. RecoveredIsFree'
      BY <1>11, <1>t DEF Claim, StopInv, RecoveredIsFree, Leased
    <2> QED BY <1>0, <1>11, <1>1, <1>2, <1>3, <1>6, <2>1, <2>2 DEF StopInv, Claim
  <1>12. ASSUME NEW w \in Worker,
                ListPhone(w) \/ ProveEvent(w) \/ Verify(w) \/ FailRequest(w)
         PROVE  StopInv'
    <2>1. /\ work[w].phone \in Phone
          /\ \A v \in Worker : v # w => work'[v] = work[v]
      BY <1>12, <1>t, <1>w
      DEF ListPhone, ProveEvent, Verify, FailRequest, GoOn, Conclude
    <2>2. /\ work'[w].at \in {"proving", "verifying"} => work'[w].phone \in dnc'
          /\ work'[w].at = "verifying" => work'[w].phone \in evidence'
          /\ work'[w].at = "finishing" /\ work'[w].saved
                => work'[w].phone \in dnc' /\ work'[w].phone \in evidence'
      <3>1. CASE ListPhone(w) BY <1>t, <3>1 DEF ListPhone, GoOn
      <3>2. CASE ProveEvent(w)
        BY <1>t, <3>2 DEF ProveEvent, GoOn, StopInv, WorkBacked
      <3>3. CASE Verify(w)
        BY <1>t, <3>3 DEF Verify, Conclude, StopInv, WorkBacked
      <3>4. CASE FailRequest(w)
        BY <1>t, <3>4 DEF FailRequest, Conclude, SavedAfterFailure
      <3> QED BY <1>12, <3>1, <3>2, <3>3, <3>4
    <2>3. WorkBacked'
      BY <1>m, <1>w, <2>1, <2>2 DEF StopInv, WorkBacked
    <2>4. UNCHANGED <<row, due, holder, leaseLeft, stop, send, acked>>
      BY <1>12 DEF ListPhone, ProveEvent, Verify, FailRequest
    <2> QED BY <1>0, <2>3, <2>4, <1>1, <1>2, <1>3, <1>5, <1>6 DEF StopInv
  <1>13. ASSUME NEW w \in Worker, Finish(w) PROVE StopInv'
    <2>1. /\ \A v \in Worker : work'[v] \in {work[v], Idle}
          /\ UNCHANGED <<dnc, evidence, stop, send, acked>>
      BY <1>13, <1>t DEF Finish
    <2>2. /\ work[w].at = "finishing" /\ work[w].phone \in Phone
          /\ work[w].saved => work[w].phone \in dnc /\ work[w].phone \in evidence
      BY <1>13, <1>w DEF Finish, StopInv, WorkBacked
    <2>3. \A p \in Phone :
             \/ row'[p] = row[p] /\ leaseLeft'[p] = leaseLeft[p]
             \/ p = work[w].phone /\ leaseLeft'[p] = 0 /\ (row'[p] = "recovered" => work[w].saved)
      <3> SUFFICES ASSUME NEW p \in Phone
                   PROVE  \/ row'[p] = row[p] /\ leaseLeft'[p] = leaseLeft[p]
                          \/ /\ p = work[w].phone /\ leaseLeft'[p] = 0
                             /\ row'[p] = "recovered" => work[w].saved
        OBVIOUS
      <3> QED BY <1>13, <1>t, <2>2 DEF Finish
    <2>4. RecoveredIsFree' BY <2>3 DEF StopInv, RecoveredIsFree, Leased
    <2>5. RecoveredIsRecorded' BY <2>1, <2>2, <2>3 DEF StopInv, RecoveredIsRecorded
    <2> QED BY <1>0, <1>1, <1>2, <1>3, <1>4, <2>1, <2>4, <2>5 DEF StopInv
  <1>14. ASSUME Crash PROVE StopInv'
    <2>1. /\ \A w \in Worker : work'[w] \in {work[w], Idle}
          /\ \A h \in Handler : stop'[h] \in {stop[h], Idle}
      BY <1>14, <1>t DEF Crash
    <2>2. UNCHANGED <<row, leaseLeft, send, acked>> BY <1>14 DEF Crash
    <2> QED BY <1>0, <1>1, <1>2, <1>3, <1>4, <1>5, <1>6, <2>1, <2>2 DEF StopInv
  <1>15. ASSUME Tick PROVE StopInv'
    <2>1. RecoveredIsFree'
      BY <1>15, <1>t DEF Tick, Less, StopInv, RecoveredIsFree, Leased
    <2> QED BY <1>0, <1>15, <1>1, <1>2, <1>3, <1>4, <1>6, <2>1 DEF StopInv, Tick
  <1>16. CASE UNCHANGED vars
    BY <1>0, <1>16, <1>1, <1>2, <1>3, <1>4, <1>5, <1>6 DEF StopInv, vars
  <1> QED
    BY <1>7, <1>8, <1>9, <1>10, <1>11, <1>12, <1>13, <1>14, <1>15, <1>16 DEF Next

LEMMA StopSound == Spec => []StopInv
  <1>1. Init => StopInv
    BY SuppressionAssumption
    DEF Init, StopInv, TypeOK, Work, Stop, Send, Idle, StopBacked, AckedMarked, SendBacked,
        WorkBacked, RecoveredIsFree, RecoveredIsRecorded
  <1> QED BY <1>1, StopStep, PTL DEF Spec

\* Whoever was told that the STOP took effect is not contacted by anything
\* that begins later, with or without a journal, whatever fails in between.
THEOREM StopIsFinal == Spec => []NoContactAfterStop
  <1>1. StopInv => NoContactAfterStop
    BY DEF StopInv, SendBacked, NoContactAfterStop
  <1> QED BY <1>1, StopSound, PTL

\* The journal forgets a STOP only when both remote tables have it.
THEOREM RecoveryIsProven == Spec => []RecoveredIsRecorded
  <1>1. StopInv => RecoveredIsRecorded
    BY DEF StopInv
  <1> QED BY <1>1, StopSound, PTL

\* No STOP and no late worker reopens a recovered row: its lease has ended,
\* so the finishing UPDATE of another worker does not match it.
THEOREM RecoveryIsFinal == Spec => RecoveredStays
  <1>1. StopInv /\ [Next]_vars => \A p \in Phone : row[p] = "recovered" => row'[p] = "recovered"
    <2> SUFFICES ASSUME StopInv, [Next]_vars, NEW p \in Phone, row[p] = "recovered"
                 PROVE  row'[p] = "recovered"
      OBVIOUS
    <2>1. ~Leased(p) /\ row \in [Phone -> {"none", "pending", "recovered"}]
      BY DEF StopInv, RecoveredIsFree, TypeOK
    <2>2. ASSUME NEW h \in Handler, NEW q \in Phone, NEW by \in {"sms", "voice"}, Stage(h, q, by)
          PROVE  row'[p] = row[p]
      BY <2>1, <2>2 DEF Stage, Staged
    <2>3. ASSUME NEW w \in Worker, Finish(w) PROVE row'[p] = row[p]
      BY <2>1, <2>3 DEF Finish, Owns, journal
    <2>4. \/ row' = row
          \/ \E h \in Handler, q \in Phone, by \in {"sms", "voice"} : Stage(h, q, by)
          \/ \E w \in Worker : Finish(w)
      BY DEF Next, vars, List, Answer, StartSend, CheckLocal, CheckRemote, Transmit, Claim,
             ListPhone, ProveEvent, Verify, FailRequest, Crash, Tick, journal
    <2> QED BY <2>2, <2>3, <2>4
  <1> QED BY <1>1, StopSound, PTL DEF Spec, RecoveredStays
=============================================================================
