--------------------------- MODULE MessagesProofs ---------------------------
(***************************************************************************)
(* Theorems about Messages: for each journal an inductive invariant, for   *)
(* any messages, threads, workers and bounds, and from these the safety    *)
(* properties of the whole.                                                *)
(***************************************************************************)
EXTENDS Messages, FiniteSetTheorems, SequenceTheorems, TLAPS

(***************************************************************************)
(* MessageIntents.  A message has at most one call that may post it, and   *)
(* the intent says how far that one has come.                              *)
(***************************************************************************)
Posting == {"claimed", "bound", "answered"}

CallsFollowIntents ==
    \A s \in Sender :
        /\ sender[s].at \in Posting => intent[sender[s].message] = "sending"
        /\ sender[s].at \in {"claimed", "bound"} => posted[sender[s].message] = 0
        /\ sender[s].at = "bound" => sender[s].message \in bound
        /\ sender[s].at \in {"answered", "logging"} => posted[sender[s].message] > 0
        /\ sender[s].at = "logging" => sender[s].message \notin Mail

OneCallPosts ==
    \A s, t \in Sender :
        s # t /\ sender[s].at \in Posting /\ sender[t].at \in Posting
            => sender[s].message # sender[t].message

IntentsFollowPosts ==
    \A m \in Message :
        /\ intent[m] = "none" => posted[m] = 0
        /\ intent[m] = "accepted" => posted[m] > 0

IntentInv == I!IntentsSound /\ CallsFollowIntents /\ OneCallPosts /\ IntentsFollowPosts

LEMMA SenderFields ==
    ASSUME I!TypeOK, NEW s \in Sender
    PROVE  /\ sender[s].at \in {"idle", "claimed", "bound", "answered", "logging"}
           /\ sender[s].at = "idle" <=> sender[s] = I!Idle
           /\ sender[s].at # "idle" => sender[s].message \in Message
  BY DEF I!TypeOK, I!Call, I!Idle

\* Where GoTo and Return leave the calls.
LEMMA SenderMoves ==
    ASSUME I!TypeOK, NEW s \in Sender, sender[s].at # "idle",
           NEW a \in {"claimed", "bound", "answered", "logging"},
           I!GoTo(s, a) \/ I!Return(s)
    PROVE  /\ sender' \in [Sender -> I!Call]
           /\ \A t \in Sender : t # s => sender'[t] = sender[t]
           /\ I!GoTo(s, a) => sender'[s].at = a /\ sender'[s].message = sender[s].message
           /\ I!Return(s) => sender'[s].at = "idle"
  <1>1. I!Idle \in I!Call /\ I!Idle.at = "idle"
    BY DEF I!Call, I!Idle
  <1>2. /\ [sender[s] EXCEPT !.at = a] \in I!Call
        /\ [sender[s] EXCEPT !.at = a].at = a
        /\ [sender[s] EXCEPT !.at = a].message = sender[s].message
    <2>1. sender[s] \in [at : {"claimed", "bound", "answered", "logging"}, message : Message]
      BY DEF I!TypeOK, I!Call, I!Idle
    <2>2. QED
      BY <2>1 DEF I!Call
  <1>3. CASE I!GoTo(s, a) /\ ~I!Return(s)
    <2>1. sender' = [sender EXCEPT ![s] = [sender[s] EXCEPT !.at = a]]
      BY <1>3 DEF I!GoTo
    <2>2. QED
      BY <1>2, <1>3, <2>1 DEF I!TypeOK
  <1>4. CASE I!Return(s) /\ ~I!GoTo(s, a)
    BY <1>1, <1>4 DEF I!Return, I!TypeOK
  <1>5. CASE I!Return(s) /\ I!GoTo(s, a)
    <2>1. sender'[s] = I!Idle /\ sender'[s] = [sender[s] EXCEPT !.at = a]
      BY <1>5 DEF I!Return, I!GoTo, I!TypeOK
    <2>2. FALSE
      BY <1>1, <1>2, <2>1
    <2>3. QED
      BY <2>2
  <1>6. QED
    BY <1>3, <1>4, <1>5

LEMMA IntentInit == I!Init => IntentInv
  BY DEF I!Init, IntentInv, I!IntentsSound, I!TypeOK, I!SentOnce, I!ReportedWasSent,
     I!SentIsTraceable, CallsFollowIntents, OneCallPosts, IntentsFollowPosts, I!Call, I!Idle, Posting

LEMMA ClaimKeepsIntents ==
    ASSUME IntentInv, NEW s \in Sender, NEW m \in Message, I!Claim(s, m)
    PROVE  IntentInv'
  <1>1. I!TypeOK /\ sender[s].at = "idle"
    BY DEF IntentInv, I!IntentsSound, I!Claim, I!Idle
  <1>2. UNCHANGED <<acceptance, bound, blocked, smsRow, posted>>
    BY DEF I!Claim
  <1>3. CASE /\ intent[m] = "none" /\ intent' = [intent EXCEPT ![m] = "sending"]
             /\ sender' = [sender EXCEPT ![s] = [at |-> "claimed", message |-> m]]
             /\ UNCHANGED reported
    <2>1. [at |-> "claimed", message |-> m] \in I!Call
      BY DEF I!Call
    <2>2. I!TypeOK'
      BY <1>1, <1>2, <1>3, <2>1 DEF I!TypeOK
    <2>3. \A t \in Sender : sender[t].at \in Posting => sender[t].message # m
      BY <1>3 DEF IntentInv, CallsFollowIntents
    <2>4. /\ sender'[s].at = "claimed" /\ sender'[s].message = m
          /\ \A t \in Sender : t # s => sender'[t] = sender[t]
          /\ intent'[m] = "sending"
          /\ \A n \in Message : n # m => intent'[n] = intent[n]
      BY <1>1, <1>3 DEF I!TypeOK
    <2>5. CallsFollowIntents'
      BY <1>1, <1>2, <1>3, <2>3, <2>4, SenderFields
         DEF IntentInv, CallsFollowIntents, IntentsFollowPosts, Posting
    <2>6. OneCallPosts'
      BY <2>3, <2>4 DEF IntentInv, OneCallPosts
    <2>7. IntentsFollowPosts' /\ I!SentIsTraceable'
      BY <1>2, <1>3, <2>4 DEF IntentInv, IntentsFollowPosts, I!IntentsSound, I!SentIsTraceable
    <2>8. QED
      BY <1>2, <1>3, <2>2, <2>5, <2>6, <2>7
         DEF IntentInv, I!IntentsSound, I!SentOnce, I!ReportedWasSent
  <1>4. CASE /\ intent[m] = "accepted" /\ reported' = reported \cup {m}
             /\ UNCHANGED <<intent, sender>>
    BY <1>2, <1>4 DEF IntentInv, I!IntentsSound, I!TypeOK, I!SentOnce, I!ReportedWasSent,
       I!SentIsTraceable, CallsFollowIntents, OneCallPosts, IntentsFollowPosts
  <1>5. QED
    BY <1>3, <1>4 DEF I!Claim, I!Unclaimed, I!ReportsEarlier

\* A call ends, by its death or by an error, with nothing written.
LEMMA ReturnKeepsIntents ==
    ASSUME IntentInv, NEW s \in Sender, sender[s].at # "idle", I!Return(s),
           UNCHANGED <<intent, acceptance, bound, blocked, smsRow, posted, reported>>
    PROVE  IntentInv'
  <1>1. /\ sender' \in [Sender -> I!Call] /\ sender'[s].at = "idle"
        /\ \A t \in Sender : t # s => sender'[t] = sender[t]
    BY SenderMoves DEF IntentInv, I!IntentsSound
  <1>2. QED
    BY <1>1 DEF IntentInv, I!IntentsSound, I!TypeOK, I!SentOnce, I!ReportedWasSent,
       I!SentIsTraceable, CallsFollowIntents, OneCallPosts, IntentsFollowPosts, Posting

LEMMA BindKeepsIntents ==
    ASSUME IntentInv, NEW s \in Sender, I!Bind(s)
    PROVE  IntentInv'
  <1> DEFINE m == sender[s].message
  <1>1. I!TypeOK /\ sender[s].at = "claimed" /\ m \in Message
    BY SenderFields DEF IntentInv, I!IntentsSound, I!Bind
  <1>2. CASE bound' = bound \cup {m} /\ I!GoTo(s, "bound")
    <2>1. /\ sender' \in [Sender -> I!Call]
          /\ sender'[s].at = "bound" /\ sender'[s].message = m
          /\ \A t \in Sender : t # s => sender'[t] = sender[t]
      BY <1>1, <1>2, SenderMoves
    <2>2. UNCHANGED <<intent, acceptance, blocked, smsRow, posted, reported>>
      BY DEF I!Bind
    <2> HIDE DEF m
    <2>3. CallsFollowIntents' /\ OneCallPosts'
      BY <1>1, <1>2, <2>1, <2>2 DEF IntentInv, CallsFollowIntents, OneCallPosts, Posting, m
    <2>4. QED
      BY <1>1, <1>2, <2>1, <2>2, <2>3 DEF IntentInv, I!IntentsSound, I!TypeOK, I!SentOnce,
         I!ReportedWasSent, I!SentIsTraceable, IntentsFollowPosts
  <1>3. CASE I!Return(s) /\ UNCHANGED bound
    BY <1>1, <1>3, ReturnKeepsIntents DEF I!Bind
  <1>4. QED
    BY <1>2, <1>3 DEF I!Bind

\* The request: only the call that holds the intent makes it, and once.
LEMMA PostKeepsIntents ==
    ASSUME IntentInv, NEW s \in Sender, I!Post(s)
    PROVE  IntentInv'
  <1> DEFINE m == sender[s].message
  <1>1. I!TypeOK /\ sender[s].at = "bound" /\ m \in Message
    BY SenderFields DEF IntentInv, I!IntentsSound, I!Post
  <1>2. CASE I!Return(s) /\ UNCHANGED posted
    BY <1>1, <1>2, ReturnKeepsIntents DEF I!Post
  <1>3. CASE /\ posted' = [posted EXCEPT ![m] = IF @ < 2 THEN @ + 1 ELSE @]
             /\ I!GoTo(s, "answered") \/ I!Return(s)
    <2>1. /\ sender' \in [Sender -> I!Call]
          /\ \/ sender'[s].at = "answered" /\ sender'[s].message = m
             \/ sender'[s].at = "idle"
          /\ \A t \in Sender : t # s => sender'[t] = sender[t]
      BY <1>1, <1>3, SenderMoves
    <2>2. UNCHANGED <<intent, acceptance, bound, blocked, smsRow, reported>>
      BY DEF I!Post
    <2>3. posted[m] = 0 /\ m \in bound /\ intent[m] = "sending"
      BY <1>1 DEF IntentInv, CallsFollowIntents, Posting
    <2> HIDE DEF m
    <2>4. posted' = [posted EXCEPT ![m] = 1]
      BY <1>1, <1>3, <2>3 DEF I!TypeOK
    <2>5. \A t \in Sender : t # s /\ sender[t].at \in Posting => sender[t].message # m
      BY <1>1 DEF IntentInv, OneCallPosts, Posting, m
    <2>6. posted' \in [Message -> 0 .. 2] /\ posted'[m] = 1
          /\ \A n \in Message : n # m => posted'[n] = posted[n]
      BY <1>1, <2>4 DEF I!TypeOK
    <2>7. CallsFollowIntents' /\ OneCallPosts'
      <3>1. \A t \in Sender : sender'[t].at # "idle" =>
               /\ sender'[t].message \in Message
               /\ t # s => sender'[t] = sender[t]
        BY <1>1, <2>1, SenderFields
      <3>2. CallsFollowIntents'
        BY <1>1, <2>1, <2>2, <2>3, <2>5, <2>6, <3>1
           DEF IntentInv, CallsFollowIntents, Posting
      <3>3. OneCallPosts'
        BY <2>1, <2>5 DEF IntentInv, OneCallPosts, Posting
      <3>4. QED
        BY <3>2, <3>3
    <2>8. IntentsFollowPosts' /\ I!SentOnce' /\ I!SentIsTraceable'
      BY <1>1, <2>2, <2>3, <2>6 DEF IntentInv, IntentsFollowPosts, I!IntentsSound, I!SentOnce,
         I!SentIsTraceable
    <2>9. I!ReportedWasSent' /\ I!TypeOK'
      BY <1>1, <2>1, <2>2, <2>6 DEF IntentInv, I!IntentsSound, I!ReportedWasSent, I!TypeOK
    <2>10. QED
      BY <2>7, <2>8, <2>9 DEF IntentInv, I!IntentsSound
  <1>4. QED
    BY <1>2, <1>3 DEF I!Post

LEMMA AcceptKeepsIntents ==
    ASSUME IntentInv, NEW s \in Sender, I!Accept(s)
    PROVE  IntentInv'
  <1> DEFINE m == sender[s].message
  <1>1. I!TypeOK /\ sender[s].at = "answered" /\ m \in Message
    BY SenderFields DEF IntentInv, I!IntentsSound, I!Accept
  <1>2. CASE I!Return(s) /\ UNCHANGED <<intent, acceptance, reported>>
    BY <1>1, <1>2, ReturnKeepsIntents DEF I!Accept
  <1>3. CASE /\ intent' = [intent EXCEPT ![m] = "accepted"]
             /\ acceptance' = acceptance \cup {m}
             /\ \/ I!GoTo(s, "logging") /\ UNCHANGED reported /\ m \notin Mail
                \/ I!Return(s) /\ reported' = reported \cup {m}
    <2>1. /\ sender' \in [Sender -> I!Call]
          /\ \/ sender'[s].at = "logging" /\ sender'[s].message = m /\ m \notin Mail
             \/ sender'[s].at = "idle"
          /\ \A t \in Sender : t # s => sender'[t] = sender[t]
      BY <1>1, <1>3, SenderMoves
    <2>2. UNCHANGED <<bound, blocked, smsRow, posted>> /\ reported' \subseteq reported \cup {m}
      BY <1>3 DEF I!Accept
    <2>3. posted[m] > 0 /\ intent[m] = "sending"
      BY <1>1 DEF IntentInv, CallsFollowIntents, Posting
    <2> HIDE DEF m
    <2>4. \A t \in Sender : t # s /\ sender[t].at \in Posting => sender[t].message # m
      BY <1>1 DEF IntentInv, OneCallPosts, Posting, m
    <2>5. intent' \in [Message -> {"none", "sending", "accepted"}] /\ intent'[m] = "accepted"
          /\ \A n \in Message : n # m => intent'[n] = intent[n]
      BY <1>1, <1>3 DEF I!TypeOK
    <2>6. CallsFollowIntents'
      <3>1. \A t \in Sender : sender'[t].at # "idle" => sender'[t].message \in Message
        BY <1>1, <2>1, SenderFields
      <3>2. QED
        BY <1>1, <2>1, <2>2, <2>3, <2>4, <2>5, <3>1
           DEF IntentInv, CallsFollowIntents, Posting
    <2>7. OneCallPosts'
      BY <2>1 DEF IntentInv, OneCallPosts, Posting
    <2>8. IntentsFollowPosts' /\ I!SentOnce' /\ I!SentIsTraceable' /\ I!ReportedWasSent'
      BY <1>1, <1>3, <2>2, <2>3, <2>5 DEF IntentInv, IntentsFollowPosts, I!IntentsSound, I!SentOnce,
         I!SentIsTraceable, I!ReportedWasSent
    <2>9. I!TypeOK'
      BY <1>1, <1>3, <2>1, <2>2, <2>5 DEF I!TypeOK
    <2>10. QED
      BY <2>6, <2>7, <2>8, <2>9 DEF IntentInv, I!IntentsSound
  <1>4. QED
    BY <1>2, <1>3 DEF I!Accept, I!Logs

LEMMA LogKeepsIntents ==
    ASSUME IntentInv, NEW s \in Sender, I!Log(s)
    PROVE  IntentInv'
  <1> DEFINE m == sender[s].message
  <1>1. I!TypeOK /\ sender[s].at = "logging" /\ m \in Message
    BY SenderFields DEF IntentInv, I!IntentsSound, I!Log
  <1>2. m \notin Mail /\ posted[m] > 0
    BY <1>1 DEF IntentInv, CallsFollowIntents
  <1>3. /\ sender' \in [Sender -> I!Call] /\ sender'[s].at = "idle"
        /\ \A t \in Sender : t # s => sender'[t] = sender[t]
    BY <1>1, SenderMoves DEF I!Log
  <1>4. /\ smsRow' \in {smsRow \cup {m}, smsRow} /\ reported' = reported \cup {m}
        /\ UNCHANGED <<intent, acceptance, bound, blocked, posted>>
    BY DEF I!Log
  <1> HIDE DEF m
  <1>5. QED
    BY <1>1, <1>2, <1>3, <1>4 DEF IntentInv, I!IntentsSound, I!TypeOK, I!SentOnce,
       I!ReportedWasSent, I!SentIsTraceable, CallsFollowIntents, OneCallPosts, IntentsFollowPosts,
       Posting

LEMMA IntentStep == IntentInv /\ [I!Next]_intents => IntentInv'
  <1> SUFFICES ASSUME IntentInv, [I!Next]_intents PROVE IntentInv'
    OBVIOUS
  <1>1. ASSUME NEW s \in Sender, I!Die(s) PROVE IntentInv'
    <2>1. sender[s].at # "idle"
      BY <1>1, SenderFields DEF I!Die, IntentInv, I!IntentsSound
    <2>2. QED
      BY <1>1, <2>1, ReturnKeepsIntents DEF I!Die
  <1>2. ASSUME NEW m \in Message, I!Suppress(m) PROVE IntentInv'
    BY <1>2 DEF I!Suppress, IntentInv, I!IntentsSound, I!TypeOK, I!SentOnce,
       I!ReportedWasSent, I!SentIsTraceable, CallsFollowIntents, OneCallPosts, IntentsFollowPosts
  <1>3. CASE UNCHANGED intents
    BY <1>3 DEF intents, IntentInv, I!IntentsSound, I!TypeOK, I!SentOnce,
       I!ReportedWasSent, I!SentIsTraceable, CallsFollowIntents, OneCallPosts, IntentsFollowPosts
  <1>4. QED
    BY <1>1, <1>2, <1>3, ClaimKeepsIntents, BindKeepsIntents, PostKeepsIntents,
       AcceptKeepsIntents, LogKeepsIntents DEF I!Next
-----------------------------------------------------------------------------
(***************************************************************************)
(* Sequences without repetition: how the queue of the delivery journal     *)
(* changes.                                                                *)
(***************************************************************************)
LEMMA SameCardinality == ASSUME NEW group PROVE D!Cardinality(group) = Cardinality(group)
  BY DEF D!Cardinality, Cardinality

LEMMA MinOfTwo ==
    ASSUME NEW a \in Int, NEW b \in Int
    PROVE  D!Min({a, b}) \in {a, b} /\ D!Min({a, b}) <= a /\ D!Min({a, b}) <= b
  <1>1. \E x \in {a, b} : \A y \in {a, b} : x <= y
    OBVIOUS
  <1>2. QED
    BY <1>1 DEF D!Min

\* Appending an element that is not there.
LEMMA AppendedQueue ==
    ASSUME NEW T, NEW s \in Seq(T), NEW e \in T, D!IsInjective(s), e \notin D!ToSet(s)
    PROVE  /\ Append(s, e) \in Seq(T)
           /\ D!IsInjective(Append(s, e))
           /\ D!ToSet(Append(s, e)) = D!ToSet(s) \cup {e}
  <1> DEFINE t == Append(s, e)
  <1>1. /\ t \in Seq(T) /\ Len(t) = Len(s) + 1 /\ Len(s) \in Nat
        /\ DOMAIN t = 1 .. Len(s) + 1 /\ DOMAIN s = 1 .. Len(s)
        /\ \A i \in 1 .. Len(s) : t[i] = s[i]
        /\ t[Len(s) + 1] = e
    OBVIOUS
  <1> HIDE DEF t
  <1>2. D!IsInjective(t)
    BY <1>1 DEF D!IsInjective, D!ToSet
  <1>3. D!ToSet(t) = D!ToSet(s) \cup {e}
    BY <1>1 DEF D!ToSet
  <1>4. QED
    BY <1>1, <1>2, <1>3 DEF t

\* Taking an element out.
LEMMA ShortenedQueue ==
    ASSUME NEW T, NEW s \in Seq(T), NEW e, D!IsInjective(s)
    PROVE  /\ D!RemoveFirst(s, e) \in Seq(T)
           /\ D!IsInjective(D!RemoveFirst(s, e))
           /\ D!ToSet(D!RemoveFirst(s, e)) = D!ToSet(s) \ {e}
  <1>1. CASE ~ \E i \in 1 .. Len(s) : s[i] = e
    BY <1>1 DEF D!RemoveFirst, D!ToSet
  <1>2. ASSUME NEW i \in 1 .. Len(s), s[i] = e
        PROVE  /\ D!RemoveFirst(s, e) \in Seq(T)
               /\ D!IsInjective(D!RemoveFirst(s, e))
               /\ D!ToSet(D!RemoveFirst(s, e)) = D!ToSet(s) \ {e}
    <2> DEFINE t == D!RemoveAt(s, i)
    <2>1. {j \in 1 .. Len(s) : s[j] = e} = {i}
      BY <1>2 DEF D!IsInjective
    <2>2. D!Min({i}) = i
      BY <1>2 DEF D!Min
    <2>3. D!SelectInSeq(s, LAMBDA v : v = e) = i
      BY <2>1, <2>2 DEF D!SelectInSeq
    <2>4. D!RemoveFirst(s, e) = t
      BY <1>2, <2>3 DEF D!RemoveFirst
    <2>5. /\ t \in Seq(T) /\ Len(t) = Len(s) - 1
          /\ DOMAIN t = 1 .. Len(s) - 1 /\ DOMAIN s = 1 .. Len(s) /\ Len(s) \in Nat
          /\ \A k \in 1 .. Len(s) - 1 : t[k] = IF k < i THEN s[k] ELSE s[k + 1]
      <3> DEFINE a == SubSeq(s, 1, i - 1)
                 b == SubSeq(s, i + 1, Len(s))
      <3>1. /\ a \in Seq(T) /\ Len(a) = i - 1 /\ \A k \in 1 .. i - 1 : a[k] = s[k]
            /\ b \in Seq(T) /\ Len(b) = Len(s) - i /\ \A k \in 1 .. Len(s) - i : b[k] = s[i + k]
        OBVIOUS
      <3> HIDE DEF a, b
      <3>2. /\ a \o b \in Seq(T) /\ Len(a \o b) = Len(a) + Len(b)
            /\ \A k \in 1 .. Len(a) + Len(b) : (a \o b)[k] =
                  IF k <= Len(a) THEN a[k] ELSE b[k - Len(a)]
        BY <3>1, ConcatProperties
      <3>3. t = a \o b
        BY DEF D!RemoveAt, a, b
      <3> HIDE DEF t
      <3>4. QED
        BY <3>1, <3>2, <3>3
    <2> HIDE DEF t
    <2>6. D!IsInjective(t)
      BY <1>2, <2>5 DEF D!IsInjective
    <2>7. D!ToSet(t) = D!ToSet(s) \ {e}
      <3>1. ASSUME NEW x \in D!ToSet(t) PROVE x \in D!ToSet(s) \ {e}
        <4>1. PICK k \in 1 .. Len(s) - 1 : x = t[k]
          BY <2>5 DEF D!ToSet
        <4>2. PICK j \in 1 .. Len(s) : x = s[j] /\ j # i
          BY <1>2, <2>5, <4>1
        <4>3. QED
          BY <1>2, <2>1, <2>5, <4>2 DEF D!ToSet
      <3>2. ASSUME NEW x \in D!ToSet(s) \ {e} PROVE x \in D!ToSet(t)
        <4>1. PICK j \in 1 .. Len(s) : x = s[j] /\ j # i
          BY <1>2, <2>5 DEF D!ToSet
        <4>2. CASE j < i
          BY <1>2, <2>5, <4>1, <4>2 DEF D!ToSet
        <4>3. CASE j > i
          <5>1. j - 1 \in 1 .. Len(s) - 1 /\ t[j - 1] = x
            BY <1>2, <2>5, <4>1, <4>3
          <5>2. QED
            BY <2>5, <5>1 DEF D!ToSet
        <4>4. QED
          BY <1>2, <4>1, <4>2, <4>3
      <3>3. QED
        BY <3>1, <3>2
    <2>8. QED
      BY <2>4, <2>5, <2>6, <2>7
  <1>3. QED
    BY <1>1, <1>2
-----------------------------------------------------------------------------
(***************************************************************************)
(* DeliveryEvents.  A row that is being carried is no longer fresh, and    *)
(* the remote status is the verdict on all the evidence there is.          *)
(***************************************************************************)
StatusesOf(m) == {e.status : e \in {x \in applied : x.message = m}}

EvidenceIsJudged ==
    \A m \in Message :
        projected[m] = IF StatusesOf(m) = {} THEN "unknown" ELSE D!Verdicts(StatusesOf(m))

SuppressionPauses ==
    \A e \in applied : e.message \in Mail /\ e.status \in Suppressing => e.message \in paused

CarriedIsTried ==
    \A w \in Deliverer :
        /\ worker[w].at \in {"attempted", "applied"}
              => worker[w].row \in D!ToSet(tried) \cup synced
        /\ worker[w].at = "applied" => worker[w].row \in applied

EventInv ==
    /\ D!EventsSound /\ IsFiniteSet(fresh)
    /\ EvidenceIsJudged /\ SuppressionPauses /\ CarriedIsTried

\* What a worker that stands at one of its stages carries.
LEMMA RoundFields ==
    ASSUME D!TypeOK, NEW w \in Deliverer
    PROVE  /\ worker[w].at \in {"idle", "staging", "staged", "rows", "attempted", "applied"}
           /\ worker[w].at \in {"staging", "staged"} => worker[w].todo \subseteq Message
           /\ worker[w].at = "staged" => worker[w].message \in Message
           /\ worker[w].at \in {"rows", "attempted", "applied"} => worker[w].rows \subseteq D!Event
           /\ worker[w].at \in {"attempted", "applied"} => worker[w].row \in D!Event
  BY DEF D!TypeOK, D!Round, D!Idle

LEMMA EventFields ==
    ASSUME NEW e \in D!Event
    PROVE  e.message \in Message /\ e.status \in Reported \cup {"accepted"}
  BY DEF D!Event

\* A step of a worker that leaves the journal and the database alone.
LEMMA WorkerKeepsEvents ==
    ASSUME EventInv, NEW w \in Deliverer, NEW r \in D!Round,
           worker' = [worker EXCEPT ![w] = r], r.at \notin {"attempted", "applied"},
           sent' = sent, stopped' = stopped, accepted' \in [Message -> {"none", "pending", "staged"}],
           UNCHANGED <<fresh, tried, synced, applied, projected, paused>>
    PROVE  EventInv'
  <1>1. D!TypeOK'
    BY DEF EventInv, D!EventsSound, D!TypeOK
  <1>2. CarriedIsTried'
    BY DEF EventInv, D!EventsSound, D!TypeOK, CarriedIsTried
  <1>3. D!SyncedIsApplied' /\ IsFiniteSet(fresh') /\ EvidenceIsJudged' /\ SuppressionPauses'
    BY DEF EventInv, D!EventsSound, D!SyncedIsApplied, EvidenceIsJudged, SuppressionPauses,
           StatusesOf, D!Pending
  <1>4. QED
    BY <1>1, <1>2, <1>3 DEF EventInv, D!EventsSound

LEMMA EventInit == D!Init => EventInv
  <1> SUFFICES ASSUME D!Init PROVE EventInv
    OBVIOUS
  <1>1. D!TypeOK
    BY DEF D!Init, D!TypeOK, D!Round, D!Idle, D!Verdict
  <1>2. D!SyncedIsApplied
    BY DEF D!Init, D!SyncedIsApplied, D!Pending, D!ToSet, D!IsInjective
  <1>3. IsFiniteSet(fresh)
    BY FS_EmptySet DEF D!Init
  <1>4. EvidenceIsJudged /\ SuppressionPauses /\ CarriedIsTried
    BY DEF D!Init, EvidenceIsJudged, StatusesOf, SuppressionPauses, CarriedIsTried, D!Idle
  <1>5. QED
    BY <1>1, <1>2, <1>3, <1>4 DEF EventInv, D!EventsSound

\* A report or an acceptance is staged at most once.
LEMMA StageKeepsJournal ==
    ASSUME EventInv, NEW e \in D!Event, D!Stage(e)
    PROVE  /\ fresh' \subseteq D!Event /\ IsFiniteSet(fresh')
           /\ UNCHANGED <<tried, synced>>
           /\ fresh' \cap D!ToSet(tried) = {} /\ (D!Pending \cap synced = {})'
  <1>1. \/ fresh' = fresh
        \/ fresh' = fresh \cup {e} /\ e \notin fresh \cup D!ToSet(tried) \cup synced
    <2>1. CASE e \in D!Journalled
      BY <2>1 DEF D!Stage
    <2>2. CASE e \notin D!Journalled
      BY <2>2 DEF D!Stage, D!Journalled, D!Pending
    <2>3. QED
      BY <2>1, <2>2
  <1>2. UNCHANGED <<tried, synced>>
    BY DEF D!Stage
  <1>3. IsFiniteSet(fresh')
    BY <1>1, FS_AddElement DEF EventInv
  <1>4. D!ToSet(tried)' = D!ToSet(tried)
    BY <1>2 DEF D!ToSet
  <1>5. QED
    BY <1>1, <1>2, <1>3, <1>4
       DEF EventInv, D!EventsSound, D!TypeOK, D!SyncedIsApplied, D!Pending

LEMMA ReportKeepsEvents ==
    ASSUME EventInv, NEW m \in Message, NEW status \in Reported, D!Report(m, status)
    PROVE  EventInv'
  <1>1. [message |-> m, status |-> status] \in D!Event
    BY DEF D!Event
  <1>2. /\ fresh' \subseteq D!Event /\ IsFiniteSet(fresh')
        /\ UNCHANGED <<tried, synced>>
        /\ fresh' \cap D!ToSet(tried) = {} /\ (D!Pending \cap synced = {})'
    BY <1>1, StageKeepsJournal DEF D!Report
  <1>3. /\ UNCHANGED <<sent, accepted, worker, applied, projected, paused>>
        /\ stopped' \subseteq stopped \cup (Mail \cap {m})
    BY DEF D!Report, D!remote
  <1>4. D!TypeOK'
    BY <1>2, <1>3 DEF EventInv, D!EventsSound, D!TypeOK
  <1>5. D!SyncedIsApplied' /\ CarriedIsTried'
    BY <1>2, <1>3 DEF EventInv, D!EventsSound, D!SyncedIsApplied, CarriedIsTried, D!ToSet
  <1>6. EvidenceIsJudged' /\ SuppressionPauses'
    BY <1>3 DEF EventInv, EvidenceIsJudged, SuppressionPauses, StatusesOf
  <1>7. QED
    BY <1>2, <1>4, <1>5, <1>6 DEF EventInv, D!EventsSound

LEMMA StageAcceptanceKeepsEvents ==
    ASSUME EventInv, NEW w \in Deliverer, D!StageAcceptance(w)
    PROVE  EventInv'
  <1>1. PICK m \in worker[w].todo :
           /\ D!Stage(D!Accepted(m))
           /\ worker' = [worker EXCEPT ![w] = [at |-> "staged", todo |-> worker[w].todo \ {m},
                                               message |-> m]]
    BY DEF D!StageAcceptance, D!WorkerAt
  <1>2. UNCHANGED <<sent, accepted, stopped, applied, projected, paused>>
    BY DEF D!StageAcceptance, D!remote
  <1>3. m \in Message /\ worker[w].todo \subseteq Message
    BY RoundFields DEF D!StageAcceptance, EventInv, D!EventsSound
  <1>4. D!Accepted(m) \in D!Event
    BY <1>3 DEF D!Event, D!Accepted
  <1>5. /\ fresh' \subseteq D!Event /\ IsFiniteSet(fresh')
        /\ UNCHANGED <<tried, synced>>
        /\ fresh' \cap D!ToSet(tried) = {} /\ (D!Pending \cap synced = {})'
    BY <1>1, <1>4, StageKeepsJournal
  <1>6. [at |-> "staged", todo |-> worker[w].todo \ {m}, message |-> m] \in D!Round
    BY <1>3 DEF D!Round
  <1>7. D!TypeOK'
    BY <1>1, <1>2, <1>5, <1>6 DEF EventInv, D!EventsSound, D!TypeOK
  <1>8. CarriedIsTried'
    BY <1>1, <1>2, <1>5 DEF EventInv, D!EventsSound, D!TypeOK, CarriedIsTried, D!ToSet
  <1>9. D!SyncedIsApplied'
    BY <1>2, <1>5 DEF EventInv, D!EventsSound, D!SyncedIsApplied, D!ToSet
  <1>10. EvidenceIsJudged' /\ SuppressionPauses'
    BY <1>2 DEF EventInv, EvidenceIsJudged, SuppressionPauses, StatusesOf
  <1>11. QED
    BY <1>5, <1>7, <1>8, <1>9, <1>10 DEF EventInv, D!EventsSound

\* The rows of a batch are rows of the journal.
LEMMA BatchesTyped ==
    ASSUME EventInv, NEW B \in D!Batches
    PROVE  B \subseteq D!Event
  <1> DEFINE n == D!Min({Limit, D!Cardinality(fresh)})
             m == D!Min({Limit - n, Len(tried)})
  <1> DEFINE groups == D!kSubset(n, fresh)
             g(chosen) == chosen \cup D!ToSet(SubSeq(tried, 1, m))
  <1>0. B \in {g(chosen) : chosen \in groups}
    BY DEF D!Batches
  <1> HIDE DEF groups, g
  <1>11. PICK chosen \in groups : B = g(chosen)
    BY <1>0
  <1>1. chosen \in D!kSubset(n, fresh) /\ B = chosen \cup D!ToSet(SubSeq(tried, 1, m))
    BY <1>11 DEF groups, g
  <1>2. chosen \subseteq fresh
    BY <1>1 DEF D!kSubset
  <1>31. D!Cardinality(fresh) \in Nat
    BY FS_CardinalityType, SameCardinality DEF EventInv
  <1>32. D!DeliveryAssumption
    BY MessagesAssumption
  <1>3. D!Cardinality(fresh) \in Nat /\ Limit \in Nat
    BY <1>31, <1>32 DEF D!DeliveryAssumption
  <1>4. n \in Int
    <2> DEFINE c == D!Cardinality(fresh)
    <2>1. c \in Int /\ Limit \in Int
      BY <1>3
    <2> HIDE DEF c
    <2>2. D!Min({Limit, c}) \in Int
      BY <2>1, MinOfTwo
    <2>3. QED
      BY <2>2 DEF c
  <1>5. tried \in Seq(D!Event)
    BY DEF EventInv, D!EventsSound, D!TypeOK
  <1>6. m \in Int /\ m <= Len(tried)
    <2> HIDE DEF n
    <2>1. Limit - n \in Int /\ Len(tried) \in Int
      BY <1>3, <1>4, <1>5
    <2>2. QED
      BY <2>1, MinOfTwo
  <1> HIDE DEF n, m
  <1>7. SubSeq(tried, 1, m) \in Seq(D!Event)
    BY <1>5, <1>6
  <1>8. D!ToSet(SubSeq(tried, 1, m)) \subseteq D!Event
    BY <1>7 DEF D!ToSet
  <1>9. QED
    BY <1>1, <1>2, <1>8 DEF EventInv, D!EventsSound, D!TypeOK

\* A row that is attempted goes to the back of the queue.
LEMMA AttemptKeepsEvents ==
    ASSUME EventInv, NEW w \in Deliverer, D!Attempt(w)
    PROVE  EventInv'
  <1>1. PICK e \in worker[w].rows :
           /\ worker' = [worker EXCEPT ![w] = [at |-> "attempted", rows |-> worker[w].rows \ {e},
                                               row |-> e]]
           /\ fresh' = fresh \ {e}
           /\ tried' = IF e \in synced THEN tried ELSE D!AtTheBack(e)
    BY DEF D!Attempt, D!WorkerAt
  <1>2. UNCHANGED <<sent, accepted, stopped, synced, applied, projected, paused>>
    BY DEF D!Attempt, D!remote
  <1>3. e \in D!Event /\ worker[w].rows \subseteq D!Event
    BY RoundFields DEF D!Attempt, EventInv, D!EventsSound
  <1>4. tried \in Seq(D!Event) /\ D!IsInjective(tried)
    BY DEF EventInv, D!EventsSound, D!TypeOK, D!SyncedIsApplied
  <1>5. /\ tried' \in Seq(D!Event) /\ D!IsInjective(tried')
        /\ D!ToSet(tried') = IF e \in synced THEN D!ToSet(tried) ELSE D!ToSet(tried) \cup {e}
    <2>1. CASE e \in synced
      BY <1>1, <1>4, <2>1
    <2>2. CASE e \notin synced
      <3> DEFINE s == D!RemoveFirst(tried, e)
      <3>1. s \in Seq(D!Event) /\ D!IsInjective(s) /\ D!ToSet(s) = D!ToSet(tried) \ {e}
        BY <1>4, ShortenedQueue
      <3>2. tried' = Append(s, e)
        BY <1>1, <2>2 DEF D!AtTheBack
      <3> HIDE DEF s
      <3>3. e \notin D!ToSet(s)
        BY <3>1
      <3>4. /\ tried' \in Seq(D!Event) /\ D!IsInjective(tried')
            /\ D!ToSet(tried') = D!ToSet(s) \cup {e}
        BY <1>3, <3>1, <3>2, <3>3, AppendedQueue
      <3>5. QED
        BY <2>2, <3>1, <3>4
    <2>3. QED
      BY <2>1, <2>2
  <1>6. [at |-> "attempted", rows |-> worker[w].rows \ {e}, row |-> e] \in D!Round
    BY <1>3 DEF D!Round
  <1>7. D!TypeOK'
    BY <1>1, <1>2, <1>5, <1>6 DEF EventInv, D!EventsSound, D!TypeOK
  <1>8. D!SyncedIsApplied'
    <2>1. (D!ToSet(tried))' = D!ToSet(tried')
      BY DEF D!ToSet
    <2>2. (D!IsInjective(tried))' = D!IsInjective(tried')
      BY DEF D!IsInjective
    <2>3. QED
      BY <1>1, <1>2, <1>5, <2>1, <2>2 DEF EventInv, D!EventsSound, D!SyncedIsApplied, D!Pending
  <1>9. CarriedIsTried'
    <2>1. (D!ToSet(tried))' = D!ToSet(tried')
      BY DEF D!ToSet
    <2>2. D!ToSet(tried) \subseteq D!ToSet(tried') /\ e \in D!ToSet(tried') \cup synced
      BY <1>5
    <2>3. /\ worker'[w].at = "attempted" /\ worker'[w].row = e
          /\ \A v \in Deliverer : v # w => worker'[v] = worker[v]
      BY <1>1 DEF EventInv, D!EventsSound, D!TypeOK
    <2>4. QED
      BY <1>2, <2>1, <2>2, <2>3 DEF EventInv, CarriedIsTried
  <1>10. IsFiniteSet(fresh')
    BY <1>1, FS_RemoveElement DEF EventInv
  <1>11. EvidenceIsJudged' /\ SuppressionPauses'
    BY <1>2 DEF EventInv, EvidenceIsJudged, SuppressionPauses, StatusesOf
  <1>12. QED
    BY <1>7, <1>8, <1>9, <1>10, <1>11 DEF EventInv, D!EventsSound

\* More evidence: a verdict only moves on to a conflict of receipts.
LEMMA VerdictsGrow ==
    ASSUME NEW A, NEW B, A \subseteq B
    PROVE  /\ D!Verdicts(B) \in D!Verdict \ {"unknown"}
           /\ D!Verdicts(A) \in {"delivered", "failed"}
                 => D!Verdicts(B) \in {D!Verdicts(A), "conflicting_receipts"}
           /\ D!Verdicts(A) = "conflicting_receipts" => D!Verdicts(B) = "conflicting_receipts"
  <1> DEFINE good(some) == some \cap Success # {}
             bad(some) == some \cap Failure # {}
  <1>1. /\ good(A) => good(B)
        /\ bad(A) => bad(B)
    OBVIOUS
  <1>2. \A some : D!Verdicts(some) = IF good(some) THEN IF bad(some) THEN "conflicting_receipts" ELSE "delivered"
                               ELSE IF bad(some) THEN "failed" ELSE "pending"
    <2> SUFFICES ASSUME NEW some
                 PROVE  D!Verdicts(some) =
                            IF good(some) THEN IF bad(some) THEN "conflicting_receipts" ELSE "delivered"
                            ELSE IF bad(some) THEN "failed" ELSE "pending"
      OBVIOUS
    <2>1. CASE good(some) /\ bad(some)
      BY <2>1 DEF D!Verdicts
    <2>2. CASE good(some) /\ ~bad(some)
      BY <2>2 DEF D!Verdicts
    <2>3. CASE ~good(some) /\ bad(some)
      BY <2>3 DEF D!Verdicts
    <2>4. CASE ~good(some) /\ ~bad(some)
      BY <2>4 DEF D!Verdicts
    <2>5. QED
      BY <2>1, <2>2, <2>3, <2>4
  <1> HIDE DEF good, bad
  <1>3. QED
    BY <1>1, <1>2 DEF D!Verdict

\* The transaction in PostgreSQL: what it does to the evidence and the verdicts.
LEMMA ApplyJudges ==
    ASSUME EventInv, NEW w \in Deliverer, D!Apply(w)
    PROVE  LET e == worker[w].row IN
           /\ e \in D!Event /\ applied' = applied \cup {e}
           /\ \A m \in Message :
                \/ projected'[m] = projected[m]
                \/ projected'[m] = D!Verdicts(D!Evidence(m))
           /\ EvidenceIsJudged' /\ SuppressionPauses'
           /\ projected' \in [Message -> D!Verdict] /\ paused \subseteq paused' /\ paused' \subseteq Mail
  <1> DEFINE e == worker[w].row
             n == e.message
  <1>1. e \in D!Event /\ n \in Message /\ e.status \in Reported \cup {"accepted"}
    BY RoundFields, EventFields DEF D!Apply, EventInv, D!EventsSound
  <1>2. applied' = applied \cup {e}
    BY DEF D!Apply
  <1>3. D!TypeOK
    BY DEF EventInv, D!EventsSound
  <1>4. \A m \in Message : StatusesOf(m)' = D!Evidence(m)
    BY DEF D!Evidence, StatusesOf
  <1> HIDE DEF e
  <1>5. CASE e \in applied /\ UNCHANGED <<projected, paused>>
    <2>1. applied' = applied
      BY <1>2, <1>5
    <2>2. EvidenceIsJudged' /\ SuppressionPauses'
      BY <1>5, <2>1 DEF EventInv, EvidenceIsJudged, SuppressionPauses, StatusesOf
    <2>3. projected' \in [Message -> D!Verdict] /\ paused' \subseteq Mail
      BY <1>3, <1>5 DEF D!TypeOK
    <2>4. QED
      BY <1>1, <1>2, <1>5, <2>2, <2>3 DEF e
  <1>6. CASE /\ e \notin applied
             /\ projected' = [projected EXCEPT ![n] = D!Verdicts(D!Evidence(n))]
             /\ paused' = IF n \in Mail /\ D!Evidence(n) \cap Suppressing # {}
                          THEN paused \cup {n} ELSE paused
    <2>1. \A m \in Message : m # n => D!Evidence(m) = StatusesOf(m)
      BY <1>2 DEF StatusesOf, D!Evidence
    <2>2. e.status \in D!Evidence(n)
      BY <1>2 DEF D!Evidence
    <2>3. /\ projected'[n] = D!Verdicts(D!Evidence(n))
          /\ \A m \in Message : m # n => projected'[m] = projected[m]
      BY <1>1, <1>3, <1>6 DEF D!TypeOK
    <2>4. D!Verdicts(D!Evidence(n)) \in D!Verdict
      BY VerdictsGrow
    <2>5. projected' \in [Message -> D!Verdict]
      BY <1>1, <1>3, <1>4, <1>6, <2>4 DEF D!TypeOK
    <2>6. EvidenceIsJudged'
      <3> SUFFICES ASSUME NEW m \in Message
                   PROVE  projected'[m] = IF D!Evidence(m) = {} THEN "unknown"
                                          ELSE D!Verdicts(D!Evidence(m))
        <4>1. (\A m \in Message : projected[m] =
                 IF StatusesOf(m) = {} THEN "unknown" ELSE D!Verdicts(StatusesOf(m)))'
          <5> SUFFICES ASSUME NEW m \in Message
                       PROVE  (projected[m] = IF StatusesOf(m) = {} THEN "unknown"
                                              ELSE D!Verdicts(StatusesOf(m)))'
            OBVIOUS
          <5>1. (D!Verdicts(StatusesOf(m)))' = D!Verdicts(D!Evidence(m))
            BY <1>4 DEF D!Verdicts
          <5>2. QED
            BY <1>4, <5>1
        <4>2. QED
          BY <4>1 DEF EvidenceIsJudged
      <3>1. CASE m = n
        BY <2>2, <2>3, <3>1
      <3>2. CASE m # n
        BY <2>1, <2>3, <3>2 DEF EventInv, EvidenceIsJudged
      <3>3. QED
        BY <3>1, <3>2
    <2>7. SuppressionPauses'
      <3> SUFFICES ASSUME NEW x \in applied', x.message \in Mail, x.status \in Suppressing
                   PROVE  x.message \in paused'
        BY DEF SuppressionPauses
      <3>1. CASE x \in applied
        BY <1>6, <3>1 DEF EventInv, SuppressionPauses
      <3>2. CASE x = e
        BY <1>4, <1>6, <2>2, <3>2
      <3>3. QED
        BY <1>2, <3>1, <3>2
    <2>8. paused \subseteq paused' /\ paused' \subseteq Mail
      BY <1>3, <1>6 DEF D!TypeOK
    <2>9. \A m \in Message : \/ projected'[m] = projected[m]
                              \/ projected'[m] = D!Verdicts(D!Evidence(m))
      BY <2>3
    <2>10. QED
      BY <1>1, <1>2, <2>5, <2>6, <2>7, <2>8, <2>9 DEF e
  <1>7. QED
    BY <1>5, <1>6 DEF D!Apply, e

\* Where NextRow leaves the worker.
LEMMA NextRowMoves ==
    ASSUME D!TypeOK, NEW w \in Deliverer, worker[w].at \in {"attempted", "applied"}, D!NextRow(w)
    PROVE  \E r \in D!Round : worker' = [worker EXCEPT ![w] = r] /\ r.at \notin {"attempted", "applied"}
  <1>1. worker[w].rows \subseteq D!Event
    BY RoundFields
  <1>2. D!Idle \in D!Round /\ D!Idle.at = "idle"
    BY DEF D!Round, D!Idle
  <1>3. worker[w].rows # {} => [at |-> "rows", rows |-> worker[w].rows] \in D!Round
    BY <1>1 DEF D!Round
  <1>4. CASE worker[w].rows = {}
    BY <1>2, <1>4 DEF D!NextRow, D!RowsAt, D!WorkerAt
  <1>5. CASE worker[w].rows # {}
    BY <1>3, <1>5 DEF D!NextRow, D!RowsAt, D!WorkerAt
  <1>6. QED
    BY <1>4, <1>5

LEMMA ApplyKeepsEvents ==
    ASSUME EventInv, NEW w \in Deliverer, D!Apply(w)
    PROVE  EventInv'
  <1> DEFINE e == worker[w].row
  <1>1. /\ e \in D!Event /\ applied' = applied \cup {e}
        /\ EvidenceIsJudged' /\ SuppressionPauses'
        /\ projected' \in [Message -> D!Verdict] /\ paused \subseteq paused' /\ paused' \subseteq Mail
    BY ApplyJudges
  <1>2. UNCHANGED <<sent, accepted, stopped, fresh, tried, synced>>
    BY DEF D!Apply, D!journal
  <1>3. D!TypeOK /\ worker[w].at = "attempted"
    BY DEF EventInv, D!EventsSound, D!Apply
  <1>4. PICK r \in D!Round : /\ worker' = [worker EXCEPT ![w] = r]
                             /\ r.at \notin {"attempted", "applied"} \/ (r.at = "applied" /\ r.row = e)
    <2>1. CASE D!NextRow(w)
      BY <1>3, <2>1, NextRowMoves
    <2>2. CASE D!WorkerAt(w, [at |-> "applied", rows |-> worker[w].rows, row |-> e])
      <3>1. [at |-> "applied", rows |-> worker[w].rows, row |-> e] \in D!Round
        BY <1>1, <1>3, RoundFields DEF D!Round
      <3>2. QED
        BY <2>2, <3>1 DEF D!WorkerAt
    <2>3. QED
      BY <2>1, <2>2 DEF D!Apply
  <1>5. e \in D!ToSet(tried) \cup synced
    BY <1>3 DEF EventInv, CarriedIsTried
  <1> HIDE DEF e
  <1>6. D!TypeOK'
    BY <1>1, <1>2, <1>3, <1>4 DEF D!TypeOK
  <1>7. D!SyncedIsApplied'
    BY <1>1, <1>2 DEF EventInv, D!EventsSound, D!SyncedIsApplied, D!Pending, SuppressionPauses, D!ToSet
  <1>8. CarriedIsTried'
    <2>1. D!ToSet(tried)' = D!ToSet(tried)
      BY <1>2 DEF D!ToSet
    <2>2. /\ worker'[w] = r
          /\ \A v \in Deliverer : v # w => worker'[v] = worker[v]
      BY <1>3, <1>4 DEF D!TypeOK
    <2>3. QED
      BY <1>1, <1>2, <1>4, <1>5, <2>1, <2>2 DEF EventInv, CarriedIsTried
  <1>9. QED
    BY <1>1, <1>2, <1>6, <1>7, <1>8 DEF EventInv, D!EventsSound

LEMMA MarkSyncedKeepsEvents ==
    ASSUME EventInv, NEW w \in Deliverer, D!MarkSynced(w)
    PROVE  EventInv'
  <1> DEFINE e == worker[w].row
  <1>1. D!TypeOK /\ worker[w].at = "applied" /\ e \in D!Event
    BY RoundFields DEF EventInv, D!EventsSound, D!MarkSynced
  <1>2. /\ synced' = synced \cup {e} /\ tried' = D!RemoveFirst(tried, e)
        /\ UNCHANGED <<sent, accepted, stopped, fresh, applied, projected, paused>>
    BY DEF D!MarkSynced, D!remote
  <1>3. PICK r \in D!Round : /\ worker' = [worker EXCEPT ![w] = r]
                             /\ r.at \notin {"attempted", "applied"}
    BY <1>1, NextRowMoves DEF D!MarkSynced
  <1>4. e \in D!ToSet(tried) \cup synced /\ e \in applied
    BY <1>1 DEF EventInv, CarriedIsTried
  <1> HIDE DEF e
  <1>5. /\ tried' \in Seq(D!Event) /\ D!IsInjective(tried')
        /\ D!ToSet(tried') = D!ToSet(tried) \ {e}
    <2>1. tried \in Seq(D!Event) /\ D!IsInjective(tried)
      BY DEF EventInv, D!EventsSound, D!TypeOK, D!SyncedIsApplied
    <2>2. QED
      BY <1>2, <2>1, ShortenedQueue
  <1>6. (D!ToSet(tried))' = D!ToSet(tried') /\ (D!IsInjective(tried))' = D!IsInjective(tried')
    BY DEF D!ToSet, D!IsInjective
  <1>7. D!TypeOK'
    BY <1>1, <1>2, <1>3, <1>5 DEF D!TypeOK
  <1>8. D!SyncedIsApplied'
    <2>1. e \notin fresh
      BY <1>4 DEF EventInv, D!EventsSound, D!SyncedIsApplied, D!Pending
    <2>2. D!IsInjective(tried)' /\ (fresh \cap D!ToSet(tried) = {})' /\ (D!Pending \cap synced = {})'
      BY <1>2, <1>5, <1>6, <2>1 DEF EventInv, D!EventsSound, D!SyncedIsApplied, D!Pending
    <2>3. synced' \subseteq applied'
          /\ \A x \in synced' : x.message \in Mail /\ x.status \in Suppressing => x.message \in paused'
      BY <1>2, <1>4 DEF EventInv, D!EventsSound, D!SyncedIsApplied, SuppressionPauses
    <2>4. QED
      BY <2>2, <2>3 DEF D!SyncedIsApplied
  <1>9. CarriedIsTried'
    <2>1. worker'[w] = r /\ \A v \in Deliverer : v # w => worker'[v] = worker[v]
      BY <1>1, <1>3 DEF D!TypeOK
    <2>2. QED
      BY <1>2, <1>3, <1>5, <1>6, <2>1 DEF EventInv, CarriedIsTried
  <1>10. EvidenceIsJudged' /\ SuppressionPauses'
    BY <1>2 DEF EventInv, EvidenceIsJudged, SuppressionPauses, StatusesOf
  <1>11. QED
    BY <1>2, <1>7, <1>8, <1>9, <1>10 DEF EventInv, D!EventsSound

LEMMA EventStep == EventInv /\ [D!Next]_events => EventInv'
  <1> SUFFICES ASSUME EventInv, [D!Next]_events PROVE EventInv'
    OBVIOUS
  <1>0. D!TypeOK
    BY DEF EventInv, D!EventsSound
  <1>1. ASSUME NEW m \in Message, D!Post(m) \/ D!Accept(m) PROVE EventInv'
    <2>1. /\ UNCHANGED <<stopped, fresh, tried, synced, worker, applied, projected, paused>>
          /\ sent' \in [Message -> {"none", "sending", "accepted"}]
          /\ accepted' \in [Message -> {"none", "pending", "staged"}]
      BY <1>0, <1>1 DEF D!Post, D!Accept, D!journal, D!remote, D!TypeOK
    <2>2. D!TypeOK'
      BY <1>0, <2>1 DEF D!TypeOK
    <2>3. D!SyncedIsApplied' /\ CarriedIsTried' /\ IsFiniteSet(fresh)'
      BY <2>1 DEF EventInv, D!EventsSound, D!SyncedIsApplied, D!Pending, D!ToSet,
         D!IsInjective, CarriedIsTried
    <2>4. EvidenceIsJudged' /\ SuppressionPauses'
      BY <2>1 DEF EventInv, EvidenceIsJudged, SuppressionPauses, StatusesOf
    <2>5. QED
      BY <2>2, <2>3, <2>4 DEF EventInv, D!EventsSound
  <1>2. ASSUME NEW w \in Deliverer, D!BeginRound(w) PROVE EventInv'
    <2>1. accepted' \in [Message -> {"none", "pending", "staged"}]
      BY <1>0, <1>2 DEF D!BeginRound, D!TypeOK
    <2> DEFINE T == {m \in Message : accepted'[m] = "pending"}
               r == [at |-> "staging", todo |-> T]
    <2>2. worker' = [worker EXCEPT ![w] = r]
      BY <1>2 DEF D!BeginRound, D!WorkerAt
    <2>3. r \in D!Round /\ r.at = "staging"
      BY DEF D!Round
    <2>4. UNCHANGED <<sent, stopped, fresh, tried, synced, applied, projected, paused>>
      BY <1>2 DEF D!BeginRound, D!journal, D!remote
    <2> HIDE DEF r
    <2>5. QED
      BY <2>1, <2>2, <2>3, <2>4, WorkerKeepsEvents
  <1>3. ASSUME NEW w \in Deliverer, D!MarkStaged(w) PROVE EventInv'
    <2> DEFINE r == [at |-> "staging", todo |-> worker[w].todo]
    <2>1. worker[w].todo \subseteq Message /\ worker[w].message \in Message
      BY <1>0, <1>3, RoundFields DEF D!MarkStaged
    <2>2. r \in D!Round /\ r.at = "staging"
      BY <2>1 DEF D!Round
    <2>3. worker' = [worker EXCEPT ![w] = r]
      BY <1>3 DEF D!MarkStaged, D!WorkerAt
    <2>4. accepted' \in [Message -> {"none", "pending", "staged"}]
      BY <1>0, <1>3, <2>1 DEF D!MarkStaged, D!TypeOK
    <2>5. UNCHANGED <<sent, stopped, fresh, tried, synced, applied, projected, paused>>
      BY <1>3 DEF D!MarkStaged, D!journal, D!remote
    <2> HIDE DEF r
    <2>6. QED
      BY <2>2, <2>3, <2>4, <2>5, WorkerKeepsEvents
  <1>4. ASSUME NEW w \in Deliverer, D!ReadRows(w) PROVE EventInv'
    <2>1. PICK B \in D!Batches : D!RowsAt(w, B)
      BY <1>4 DEF D!ReadRows
    <2>2. B \subseteq D!Event
      BY BatchesTyped
    <2>3. PICK r \in D!Round : worker' = [worker EXCEPT ![w] = r] /\ r.at \notin {"attempted", "applied"}
      <3>1. D!Idle \in D!Round /\ D!Idle.at = "idle"
        BY DEF D!Round, D!Idle
      <3>2. B # {} => [at |-> "rows", rows |-> B] \in D!Round
        BY <2>2 DEF D!Round
      <3>3. CASE B = {}
        BY <2>1, <3>1, <3>3 DEF D!RowsAt, D!WorkerAt
      <3>4. CASE B # {}
        BY <2>1, <3>2, <3>4 DEF D!RowsAt, D!WorkerAt
      <3>5. QED
        BY <3>3, <3>4
    <2>4. UNCHANGED <<sent, accepted, stopped, fresh, tried, synced, applied, projected, paused>>
      BY <1>4 DEF D!ReadRows, D!journal, D!remote
    <2>5. QED
      BY <1>0, <2>3, <2>4, WorkerKeepsEvents DEF D!TypeOK
  <1>5. ASSUME NEW w \in Deliverer, D!FailRow(w) PROVE EventInv'
    <2>1. PICK r \in D!Round : worker' = [worker EXCEPT ![w] = r] /\ r.at \notin {"attempted", "applied"}
      BY <1>0, <1>5, NextRowMoves DEF D!FailRow
    <2>2. UNCHANGED <<sent, accepted, stopped, fresh, tried, synced, applied, projected, paused>>
      BY <1>5 DEF D!FailRow, D!journal, D!remote
    <2>3. QED
      BY <1>0, <2>1, <2>2, WorkerKeepsEvents DEF D!TypeOK
  <1>6. ASSUME NEW w \in Deliverer, D!Restart(w) PROVE EventInv'
    <2>1. D!Idle \in D!Round /\ D!Idle.at = "idle"
      BY DEF D!Round, D!Idle
    <2>2. worker' = [worker EXCEPT ![w] = D!Idle]
      BY <1>6 DEF D!Restart, D!WorkerAt
    <2>3. UNCHANGED <<sent, accepted, stopped, fresh, tried, synced, applied, projected, paused>>
      BY <1>6 DEF D!Restart, D!journal, D!remote
    <2>4. QED
      BY <1>0, <2>1, <2>2, <2>3, WorkerKeepsEvents DEF D!TypeOK
  <1>7. CASE UNCHANGED events
    <2>1. D!TypeOK'
      BY <1>0, <1>7 DEF D!TypeOK, events
    <2>2. D!SyncedIsApplied' /\ CarriedIsTried' /\ IsFiniteSet(fresh)'
      BY <1>7 DEF EventInv, D!EventsSound, D!SyncedIsApplied, D!Pending, D!ToSet,
         D!IsInjective, CarriedIsTried, events
    <2>3. EvidenceIsJudged' /\ SuppressionPauses'
      BY <1>7 DEF EventInv, EvidenceIsJudged, SuppressionPauses, StatusesOf, events
    <2>4. QED
      BY <2>1, <2>2, <2>3 DEF EventInv, D!EventsSound
  <1>8. QED
    BY <1>1, <1>2, <1>3, <1>4, <1>5, <1>6, <1>7, ReportKeepsEvents, StageAcceptanceKeepsEvents,
       AttemptKeepsEvents, ApplyKeepsEvents, MarkSyncedKeepsEvents DEF D!Next, D!Step

LEMMA StatusStep == EventInv /\ [D!Next]_events => D!StatusNeverFallsBack
  <1> SUFFICES ASSUME EventInv, [D!Next]_events PROVE D!StatusNeverFallsBack
    OBVIOUS
  <1>1. CASE UNCHANGED projected
    BY <1>1 DEF D!StatusNeverFallsBack
  <1>2. ASSUME NEW w \in Deliverer, D!Apply(w) PROVE D!StatusNeverFallsBack
    <2> SUFFICES ASSUME NEW m \in Message
                 PROVE  /\ projected[m] \in {"delivered", "failed"}
                              => projected'[m] \in {projected[m], "conflicting_receipts"}
                        /\ projected[m] = "conflicting_receipts" => projected'[m] = projected[m]
      BY DEF D!StatusNeverFallsBack
    <2>1. CASE projected'[m] = projected[m]
      BY <2>1
    <2>2. CASE projected'[m] = D!Verdicts(D!Evidence(m)) /\ projected[m] # "unknown"
      <3>1. projected[m] = D!Verdicts(StatusesOf(m))
        BY <2>2 DEF EventInv, EvidenceIsJudged
      <3>2. applied \subseteq applied'
        BY <1>2 DEF D!Apply
      <3>3. StatusesOf(m) \subseteq D!Evidence(m)
        BY <3>2 DEF StatusesOf, D!Evidence
      <3> DEFINE A == StatusesOf(m)
                 B == D!Evidence(m)
      <3> HIDE DEF A, B
      <3>4. /\ D!Verdicts(A) \in {"delivered", "failed"}
                  => D!Verdicts(B) \in {D!Verdicts(A), "conflicting_receipts"}
            /\ D!Verdicts(A) = "conflicting_receipts" => D!Verdicts(B) = "conflicting_receipts"
        BY <3>3, VerdictsGrow DEF A, B
      <3>5. QED
        BY <2>2, <3>1, <3>4 DEF A, B
    <2>3. CASE projected[m] = "unknown"
      BY <2>3
    <2>4. QED
      BY <1>2, <2>1, <2>2, <2>3, ApplyJudges
  <1>3. QED
    BY <1>1, <1>2 DEF D!Next, D!Step, D!Post, D!Accept, D!Report, D!BeginRound, D!StageAcceptance,
       D!MarkStaged, D!ReadRows, D!Attempt, D!FailRow, D!MarkSynced, D!Restart, D!remote, events
-----------------------------------------------------------------------------
(***************************************************************************)
(* EmailReplies, for any reviews Rs and any budget n of attempts.  What is *)
(* applied is known, a receipt and a thread have a review behind them, and *)
(* a mail's hold was looked up on replies that are there.                  *)
(***************************************************************************)
ReplyInv(Rs, n, Ms) ==
    /\ E(Rs, n, Ms)!RepliesSound
    /\ known \subseteq 1 .. Len(replies)
    /\ \A i \in 1 .. Len(replies) : replies[i].applied => i \in known
    /\ \A r \in receipts : reviews[r].state # "none"
    /\ \A a \in Applier : applier[a].at # "idle" =>
          applier[a].review \in Rs /\ reviews[applier[a].review].state # "none"
    /\ \A m \in Ms : mailer[m].since <= Len(replies)

LEMMA ReplyInit ==
    ASSUME NEW Rs, NEW n, NEW Ms, E(Rs, n, Ms)!ReplyAssumption, E(Rs, n, Ms)!Init
    PROVE  ReplyInv(Rs, n, Ms)
  <1>1. E(Rs, n, Ms)!TypeOK
    <2>1. /\ MaxReplies \in Nat
          /\ replies \in Seq(E(Rs, n, Ms)!Rows) /\ Len(replies) = 0 /\ cutoff = 0
          /\ known = {} /\ receipts = {}
      BY DEF E!Init, E!ReplyAssumption
    <2>2. reviews \in [Rs -> E(Rs, n, Ms)!Resumption]
      BY DEF E!Init, E!Resumption
    <2>3. lead \in [paused : BOOLEAN, optedOut : BOOLEAN] /\ barred \subseteq E(Rs, n, Ms)!Marks /\ anew \in BOOLEAN
      BY DEF E!Init
    <2>4. applier \in
              [Applier -> [at : {"idle", "checked", "allowed", "answered"}, review : Rs \cup {NoReview}]]
      BY DEF E!Init, E!IdleApplier
    <2>5. mailer \in
              [Ms -> [at : {"idle", "read", "clear", "checked"}, since : 0 .. MaxReplies]]
      BY <2>1 DEF E!Init, E!IdleMailer
    <2>6. QED
      BY <2>1, <2>2, <2>3, <2>4, <2>5 DEF E!TypeOK
  <1>2. QED
    BY <1>1 DEF E!Init, E!RepliesSound, E!ReleasedWasReviewed, E!KnownReplyPauses,
       E!NoMailPastReply, E!IdleApplier, E!IdleMailer, E!Numbers, ReplyInv

\* What may become of the reviews in a step: each keeps the replies it is about.
ReviewsMove(Rs) ==
    \A q \in Rs : reviews[q].state # "none" =>
        /\ reviews'[q].through = reviews[q].through /\ reviews'[q].state # "none"
        /\ reviews[q].state \in {"applied", "requires_review"}
              => reviews'[q].state = reviews[q].state

LEMMA SettleMoves ==
    ASSUME NEW Rs, NEW n, NEW Ms, E(Rs, n, Ms)!TypeOK, NEW r \in Rs, NEW s \in E(Rs, n, Ms)!Verdict,
           E(Rs, n, Ms)!Settle(r, s)
    PROVE  /\ reviews' \in [Rs -> E(Rs, n, Ms)!Resumption] /\ ReviewsMove(Rs)
           /\ reviews[r].state = "pending" => reviews'[r].state = s
  <1> DEFINE x == IF reviews[r].state = "pending" THEN s ELSE reviews[r].state
             y == [reviews[r] EXCEPT !.state = x]
  <1>1. reviews \in [Rs -> E(Rs, n, Ms)!Resumption]
    BY DEF E!TypeOK
  <1>2. reviews[r] \in E(Rs, n, Ms)!Resumption
    BY <1>1
  <1>3. y \in E(Rs, n, Ms)!Resumption
    BY <1>2 DEF E!Resumption, E!NoRow, E!Verdict
  <1>4. y.through = reviews[r].through /\ y.state = x
    BY <1>2 DEF E!Resumption, E!NoRow
  <1>5. reviews' = [reviews EXCEPT ![r] = y]
    BY <1>1 DEF E!Settle
  <1> HIDE DEF y
  <1>6. /\ reviews' \in [Rs -> E(Rs, n, Ms)!Resumption]
        /\ reviews'[r] = y /\ \A q \in Rs : q # r => reviews'[q] = reviews[q]
    BY <1>1, <1>3, <1>5
  <1>7. QED
    BY <1>4, <1>6 DEF ReviewsMove, E!Verdict

\* A step that only moves reviews and threads.
LEMMA ReviewsMoving ==
    ASSUME NEW Rs, NEW n, NEW Ms, ReplyInv(Rs, n, Ms), reviews' \in [Rs -> E(Rs, n, Ms)!Resumption],
           ReviewsMove(Rs), UNCHANGED <<replies, cutoff, known, receipts, lead, barred, mailer, anew>>,
           applier' \in
                       [Applier -> [at : {"idle", "checked", "allowed", "answered"}, review : Rs \cup {NoReview}]],
           \A a \in Applier : applier'[a].at # "idle" =>
              applier'[a].review \in Rs /\ reviews'[applier'[a].review].state # "none"
    PROVE  ReplyInv(Rs, n, Ms)'
  <1>1. E(Rs, n, Ms)!TypeOK'
    BY DEF ReplyInv, E!RepliesSound, E!TypeOK
  <1>2. receipts \subseteq Rs
    BY DEF ReplyInv, E!RepliesSound, E!TypeOK
  <1>3. E(Rs, n, Ms)!ReleasedWasReviewed'
    <2> SUFFICES ASSUME NEW i \in 1 .. cutoff
                 PROVE  /\ i \in known /\ ~replies[i].stop
                        /\ \E r \in Rs : reviews'[r].state = "applied" /\ reviews'[r].through >= i
      BY DEF E!ReleasedWasReviewed
    <2>1. PICK r \in Rs : reviews[r].state = "applied" /\ reviews[r].through >= i
      BY DEF ReplyInv, E!RepliesSound, E!ReleasedWasReviewed
    <2>2. reviews'[r].state = "applied" /\ reviews'[r].through >= i
      BY <2>1 DEF ReviewsMove
    <2>3. QED
      BY <2>2 DEF ReplyInv, E!RepliesSound, E!ReleasedWasReviewed
  <1>4. E(Rs, n, Ms)!KnownReplyPauses'
    BY <1>2 DEF ReplyInv, E!RepliesSound, E!KnownReplyPauses, ReviewsMove
  <1>5. E(Rs, n, Ms)!NoMailPastReply'
    BY DEF ReplyInv, E!RepliesSound, E!NoMailPastReply, E!Numbers
  <1>6. QED
    BY <1>1, <1>2, <1>3, <1>4, <1>5 DEF ReplyInv, E!RepliesSound, ReviewsMove

\* A step of the sequence.
LEMMA MailersMoving ==
    ASSUME NEW Rs, NEW n, NEW Ms, ReplyInv(Rs, n, Ms),
           UNCHANGED <<replies, cutoff, reviews, known, receipts, lead, barred, applier, anew>>,
           mailer' \in [Ms -> [at : {"idle", "read", "clear", "checked"},
                                   since : 0 .. MaxReplies]],
           \A m \in Ms : mailer'[m].since <= Len(replies),
           \A m \in Ms : mailer'[m].at \in {"clear", "checked"} =>
              \/ mailer[m].at \in {"clear", "checked"} /\ mailer'[m].since = mailer[m].since
              \/ Len(replies) <= cutoff
    PROVE  ReplyInv(Rs, n, Ms)'
  <1>1. E(Rs, n, Ms)!TypeOK'
    BY DEF ReplyInv, E!RepliesSound, E!TypeOK
  <1>2. E(Rs, n, Ms)!ReleasedWasReviewed' /\ E(Rs, n, Ms)!KnownReplyPauses'
    BY DEF ReplyInv, E!RepliesSound, E!ReleasedWasReviewed, E!KnownReplyPauses
  <1>3. E(Rs, n, Ms)!NoMailPastReply'
    <2>1. Len(replies) \in Nat /\ cutoff \in Nat /\ DOMAIN replies = 1 .. Len(replies)
      BY DEF ReplyInv, E!RepliesSound, E!TypeOK
    <2> SUFFICES ASSUME NEW m \in Ms, mailer'[m].at \in {"clear", "checked"},
                        NEW i \in 1 .. Len(replies), i > cutoff
                 PROVE  i > mailer'[m].since
      BY <2>1 DEF E!NoMailPastReply, E!Numbers
    <2>2. ~ Len(replies) <= cutoff
      BY <2>1
    <2>3. QED
      BY <2>1, <2>2 DEF ReplyInv, E!RepliesSound, E!NoMailPastReply, E!Numbers
  <1>4. QED
    BY <1>1, <1>2, <1>3 DEF ReplyInv, E!RepliesSound

LEMMA ReceiveKeeps ==
    ASSUME NEW Rs, NEW n, NEW Ms, E(Rs, n, Ms)!ReplyAssumption, ReplyInv(Rs, n, Ms), E(Rs, n, Ms)!Receive
    PROVE  ReplyInv(Rs, n, Ms)'
  <1>1. PICK stop \in BOOLEAN : replies' = Append(replies, [stop |-> stop, applied |-> FALSE])
    BY DEF E!Receive
  <1>2. /\ UNCHANGED <<cutoff, reviews, known, receipts, lead, barred, applier, mailer, anew>>
        /\ Len(replies) < MaxReplies /\ MaxReplies \in Nat
    BY DEF E!Receive, E!remote, E!ReplyAssumption
  <1>3. E(Rs, n, Ms)!TypeOK
    BY DEF ReplyInv, E!RepliesSound
  <1> DEFINE x == [stop |-> stop, applied |-> FALSE]
             L == Len(replies)
  <1>4. x \in E(Rs, n, Ms)!Rows /\ ~x.applied
    BY DEF E!Rows
  <1>5. replies \in Seq(E(Rs, n, Ms)!Rows) /\ L \in Nat /\ cutoff \in Nat
        /\ \A m \in Ms : mailer[m].since \in Nat /\ mailer[m].since <= L
    BY <1>3 DEF E!TypeOK, ReplyInv
  <1> HIDE DEF x
  <1>6. /\ replies' \in Seq(E(Rs, n, Ms)!Rows) /\ Len(replies') = L + 1
        /\ \A i \in 1 .. L : replies'[i] = replies[i]
        /\ replies'[L + 1] = x
    BY <1>1, <1>4, <1>5 DEF x
  <1> HIDE DEF L
  <1>7. E(Rs, n, Ms)!TypeOK'
    BY <1>2, <1>3, <1>5, <1>6 DEF E!TypeOK, L
  <1>8. E(Rs, n, Ms)!ReleasedWasReviewed'
    <2>1. \A i \in 1 .. cutoff : i \in 1 .. L
      BY <1>5 DEF ReplyInv, E!RepliesSound, E!ReleasedWasReviewed, L
    <2>2. QED
      BY <1>2, <1>6, <2>1 DEF ReplyInv, E!RepliesSound, E!ReleasedWasReviewed
  <1>9. E(Rs, n, Ms)!KnownReplyPauses'
    BY <1>2 DEF ReplyInv, E!RepliesSound, E!KnownReplyPauses
  <1>10. E(Rs, n, Ms)!NoMailPastReply'
    <2>1. DOMAIN replies = 1 .. L /\ DOMAIN replies' = 1 .. L + 1
      BY <1>5, <1>6 DEF L
    <2> SUFFICES ASSUME NEW m \in Ms, mailer[m].at \in {"clear", "checked"},
                        NEW i \in 1 .. L + 1, i > cutoff
                 PROVE  i > mailer[m].since
      BY <1>2, <2>1 DEF E!NoMailPastReply, E!Numbers
    <2>2. CASE i \in 1 .. L
      BY <2>1, <2>2 DEF ReplyInv, E!RepliesSound, E!NoMailPastReply, E!Numbers
    <2>3. CASE i = L + 1
      BY <1>5, <2>3
    <2>4. QED
      BY <1>5, <2>2, <2>3
  <1>11. /\ known \subseteq 1 .. Len(replies')
         /\ \A i \in 1 .. Len(replies') : replies'[i].applied => i \in known
         /\ \A m \in Ms : mailer[m].since <= Len(replies')
    <2>1. /\ known \subseteq 1 .. L
          /\ \A i \in 1 .. L : replies[i].applied => i \in known
      BY DEF ReplyInv, L
    <2>2. QED
      BY <1>4, <1>5, <1>6, <2>1
  <1>12. QED
    BY <1>2, <1>7, <1>8, <1>9, <1>10, <1>11 DEF ReplyInv, E!RepliesSound

LEMMA ApplyReplyKeeps ==
    ASSUME NEW Rs, NEW n, NEW Ms, E(Rs, n, Ms)!ReplyAssumption, ReplyInv(Rs, n, Ms),
           NEW i \in E(Rs, n, Ms)!Numbers, E(Rs, n, Ms)!ApplyReply(i)
    PROVE  ReplyInv(Rs, n, Ms)'
  <1>1. /\ known' = known \cup {i} /\ lead'.paused = TRUE
        /\ UNCHANGED <<replies, cutoff, reviews, receipts, barred, applier, mailer>>
    BY DEF E!ApplyReply, E!rows
  <1>2. E(Rs, n, Ms)!TypeOK /\ Len(replies) \in Nat /\ i \in 1 .. Len(replies)
    BY DEF ReplyInv, E!RepliesSound, E!TypeOK, E!Numbers
  <1>3. lead' \in [paused : BOOLEAN, optedOut : BOOLEAN] /\ anew' \in BOOLEAN
    <2>1. replies[i].stop \in BOOLEAN /\ lead.optedOut \in BOOLEAN
      <3>1. replies \in Seq(E(Rs, n, Ms)!Rows) /\ lead \in [paused : BOOLEAN, optedOut : BOOLEAN]
        BY <1>2 DEF E!TypeOK
      <3>2. replies[i] \in E(Rs, n, Ms)!Rows
        BY <1>2, <3>1
      <3>3. QED
        BY <3>1, <3>2 DEF E!Rows
    <2>2. QED
      BY <2>1 DEF E!ApplyReply
  <1>4. E(Rs, n, Ms)!TypeOK'
    BY <1>1, <1>2, <1>3 DEF E!TypeOK, E!ReplyAssumption
  <1>5. E(Rs, n, Ms)!ReleasedWasReviewed' /\ E(Rs, n, Ms)!NoMailPastReply'
    BY <1>1 DEF ReplyInv, E!RepliesSound, E!ReleasedWasReviewed, E!NoMailPastReply, E!Numbers
  <1>6. E(Rs, n, Ms)!KnownReplyPauses'
    BY <1>1 DEF E!KnownReplyPauses
  <1>7. QED
    BY <1>1, <1>2, <1>4, <1>5, <1>6 DEF ReplyInv, E!RepliesSound

LEMMA MarkReplyKeeps ==
    ASSUME NEW Rs, NEW n, NEW Ms, ReplyInv(Rs, n, Ms), NEW i \in E(Rs, n, Ms)!Numbers, E(Rs, n, Ms)!MarkReply(i)
    PROVE  ReplyInv(Rs, n, Ms)'
  <1> DEFINE x == [replies[i] EXCEPT !.applied = TRUE]
  <1>1. /\ i \in known
        /\ UNCHANGED <<cutoff, reviews, known, receipts, lead, barred, applier, mailer, anew>>
    BY DEF E!MarkReply, E!remote
  <1>2. E(Rs, n, Ms)!TypeOK /\ replies \in Seq(E(Rs, n, Ms)!Rows) /\ Len(replies) \in Nat
        /\ i \in 1 .. Len(replies) /\ DOMAIN replies = 1 .. Len(replies)
    BY DEF ReplyInv, E!RepliesSound, E!TypeOK, E!Numbers
  <1>3. replies' = [replies EXCEPT ![i] = x] /\ x \in E(Rs, n, Ms)!Rows /\ x.stop = replies[i].stop
    <2>1. replies[i] \in E(Rs, n, Ms)!Rows
      BY <1>2
    <2>2. x \in E(Rs, n, Ms)!Rows /\ x.stop = replies[i].stop
      BY <2>1 DEF E!Rows
    <2>3. QED
      BY <1>2, <2>2 DEF E!MarkReply
  <1> HIDE DEF x
  <1>4. /\ replies' \in Seq(E(Rs, n, Ms)!Rows) /\ Len(replies') = Len(replies)
        /\ \A j \in 1 .. Len(replies) : replies'[j] = IF j = i THEN x ELSE replies[j]
    BY <1>2, <1>3
  <1>5. E(Rs, n, Ms)!TypeOK'
    BY <1>1, <1>2, <1>4 DEF E!TypeOK
  <1>6. E(Rs, n, Ms)!ReleasedWasReviewed'
    <2>1. \A j \in 1 .. cutoff : j \in 1 .. Len(replies)
      BY DEF ReplyInv, E!RepliesSound, E!ReleasedWasReviewed
    <2>2. \A j \in 1 .. Len(replies) : replies'[j].stop = replies[j].stop
      BY <1>3, <1>4
    <2>3. QED
      BY <1>1, <2>1, <2>2 DEF ReplyInv, E!RepliesSound, E!ReleasedWasReviewed
  <1>7. E(Rs, n, Ms)!KnownReplyPauses'
    BY <1>1 DEF ReplyInv, E!RepliesSound, E!KnownReplyPauses
  <1>8. E(Rs, n, Ms)!NoMailPastReply'
    <2>1. DOMAIN replies' = DOMAIN replies
      BY <1>3
    <2>2. QED
      BY <1>1, <2>1 DEF ReplyInv, E!RepliesSound, E!NoMailPastReply, E!Numbers
  <1>9. QED
    BY <1>1, <1>4, <1>5, <1>6, <1>7, <1>8 DEF ReplyInv, E!RepliesSound

\* The lead is stopped, or its sequence started anew.
LEMMA LeadKeeps ==
    ASSUME NEW Rs, NEW n, NEW Ms, ReplyInv(Rs, n, Ms), E(Rs, n, Ms)!BarAddress \/ E(Rs, n, Ms)!BarPhone \/ E(Rs, n, Ms)!StartSequence
    PROVE  ReplyInv(Rs, n, Ms)'
  <1>1. E(Rs, n, Ms)!TypeOK /\ UNCHANGED <<replies, cutoff, reviews, known, receipts, applier, mailer>>
    BY DEF ReplyInv, E!RepliesSound, E!BarAddress, E!BarPhone, E!StartSequence, E!rows
  <1>2. /\ lead' \in [paused : BOOLEAN, optedOut : BOOLEAN]
        /\ barred' \subseteq E(Rs, n, Ms)!Marks /\ anew' \in BOOLEAN
        /\ anew' \/ (anew' = anew /\ (lead.paused => lead'.paused))
    <2>1. lead.paused \in BOOLEAN /\ lead.optedOut \in BOOLEAN /\ barred \subseteq E(Rs, n, Ms)!Marks /\ anew \in BOOLEAN
      BY <1>1 DEF E!TypeOK
    <2>2. CASE E(Rs, n, Ms)!BarAddress
      <3>1. barred' \subseteq E(Rs, n, Ms)!Marks /\ anew' = anew
        BY <2>1, <2>2 DEF E!BarAddress, E!Marks
      <3>2. CASE UNCHANGED lead
        BY <1>1, <2>1, <3>1, <3>2 DEF E!TypeOK
      <3>3. ASSUME NEW o \in {lead.optedOut, TRUE}, lead' = [paused |-> TRUE, optedOut |-> o]
            PROVE  lead' \in [paused : BOOLEAN, optedOut : BOOLEAN] /\ lead'.paused
        BY <2>1, <3>3
      <3>4. QED
        BY <2>1, <2>2, <3>1, <3>2, <3>3 DEF E!BarAddress
    <2>5. CASE E(Rs, n, Ms)!BarPhone
      <3>1. barred' \subseteq E(Rs, n, Ms)!Marks /\ anew' = anew
        BY <2>1, <2>5 DEF E!BarPhone, E!Marks
      <3>2. PICK o \in {lead.optedOut, TRUE} : lead' = [lead EXCEPT !.optedOut = o]
        BY <2>5 DEF E!BarPhone
      <3>3. lead \in [paused : BOOLEAN, optedOut : BOOLEAN] /\ o \in BOOLEAN
        BY <1>1, <2>1 DEF E!TypeOK
      <3>4. lead' \in [paused : BOOLEAN, optedOut : BOOLEAN] /\ lead'.paused = lead.paused
        BY <3>2, <3>3
      <3>5. QED
        BY <2>1, <3>1, <3>4
    <2>3. CASE E(Rs, n, Ms)!StartSequence
      <3>1. PICK o \in {FALSE, lead.optedOut} : lead' = [paused |-> FALSE, optedOut |-> o]
        BY <2>3 DEF E!StartSequence
      <3>2. lead' \in [paused : BOOLEAN, optedOut : BOOLEAN]
        BY <2>1, <3>1
      <3>3. anew' = TRUE /\ barred' = barred
        BY <2>3 DEF E!StartSequence
      <3>4. QED
        BY <2>1, <3>2, <3>3
    <2>4. QED
      BY <2>2, <2>3, <2>5
  <1>3. E(Rs, n, Ms)!TypeOK'
    BY <1>1, <1>2 DEF E!TypeOK
  <1>4. E(Rs, n, Ms)!ReleasedWasReviewed' /\ E(Rs, n, Ms)!NoMailPastReply' /\ E(Rs, n, Ms)!KnownReplyPauses'
    BY <1>1, <1>2 DEF ReplyInv, E!RepliesSound, E!ReleasedWasReviewed, E!NoMailPastReply,
       E!KnownReplyPauses, E!Numbers
  <1>5. QED
    BY <1>1, <1>3, <1>4 DEF ReplyInv, E!RepliesSound

LEMMA RequestReviewKeeps ==
    ASSUME NEW Rs, NEW n, NEW Ms, E(Rs, n, Ms)!ReplyAssumption, ReplyInv(Rs, n, Ms),
           NEW r \in Rs, E(Rs, n, Ms)!RequestReview(r)
    PROVE  ReplyInv(Rs, n, Ms)' /\ ReviewsMove(Rs)
  <1> DEFINE y == [state |-> "pending", through |-> Len(replies), attempts |-> 0]
  <1>1. /\ reviews' = [reviews EXCEPT ![r] = y] /\ reviews[r].state = "none"
        /\ Len(replies) > cutoff
        /\ UNCHANGED <<replies, cutoff, known, receipts, lead, barred, applier, mailer, anew>>
    BY DEF E!RequestReview, E!CanResume, E!Held, E!remote
  <1>2. E(Rs, n, Ms)!TypeOK /\ n \in Nat
    BY DEF ReplyInv, E!RepliesSound, E!ReplyAssumption
  <1>3. Len(replies) \in 1 .. MaxReplies
    <2>1. Len(replies) \in Nat /\ Len(replies) <= MaxReplies /\ cutoff \in Nat
      BY <1>2 DEF E!TypeOK
    <2>2. QED
      BY <1>1, <2>1 DEF E!ReplyAssumption
  <1>4. y \in E(Rs, n, Ms)!Resumption /\ y.state = "pending"
    BY <1>2, <1>3 DEF E!Resumption
  <1> HIDE DEF y
  <1>5. /\ reviews' \in [Rs -> E(Rs, n, Ms)!Resumption] /\ reviews'[r] = y
        /\ \A q \in Rs : q # r => reviews'[q] = reviews[q]
    BY <1>1, <1>2, <1>4 DEF E!TypeOK
  <1>6. ReviewsMove(Rs)
    BY <1>1, <1>5 DEF ReviewsMove
  <1>7. /\ applier' \in
            [Applier -> [at : {"idle", "checked", "allowed", "answered"}, review : Rs \cup {NoReview}]]
        /\ \A a \in Applier : applier'[a].at # "idle" =>
              applier'[a].review \in Rs /\ reviews'[applier'[a].review].state # "none"
    BY <1>1, <1>2, <1>4, <1>5 DEF E!TypeOK, ReplyInv
  <1>8. QED
    BY <1>1, <1>5, <1>6, <1>7, ReviewsMoving

\* A thread that leaves.
LEMMA Leaving ==
    ASSUME NEW Rs, NEW n, NEW Ms, ReplyInv(Rs, n, Ms), NEW a \in Applier, E(Rs, n, Ms)!Leave(a), ReviewsMove(Rs)
    PROVE  /\ applier' \in
                [Applier -> [at : {"idle", "checked", "allowed", "answered"}, review : Rs \cup {NoReview}]]
           /\ \A b \in Applier : applier'[b].at # "idle" =>
                 applier'[b].review \in Rs /\ reviews'[applier'[b].review].state # "none"
  <1> DEFINE x == E(Rs, n, Ms)!IdleApplier
  <1>1. x \in
            [at : {"idle", "checked", "allowed", "answered"}, review : Rs \cup {NoReview}] /\ x.at = "idle"
    BY DEF E!IdleApplier
  <1>2. applier' = [applier EXCEPT ![a] = x]
    BY DEF E!Leave
  <1>3. applier \in
            [Applier -> [at : {"idle", "checked", "allowed", "answered"}, review : Rs \cup {NoReview}]]
    BY DEF ReplyInv, E!RepliesSound, E!TypeOK
  <1> HIDE DEF x
  <1>4. /\ applier' \in
            [Applier -> [at : {"idle", "checked", "allowed", "answered"}, review : Rs \cup {NoReview}]]
        /\ applier'[a].at = "idle" /\ \A b \in Applier : b # a => applier'[b] = applier[b]
    BY <1>1, <1>2, <1>3
  <1>5. QED
    BY <1>4 DEF ReplyInv, ReviewsMove

LEMMA ReviewsStay ==
    ASSUME NEW Rs, NEW n, NEW Ms, E(Rs, n, Ms)!TypeOK, UNCHANGED reviews
    PROVE  ReviewsMove(Rs) /\ reviews' \in [Rs -> E(Rs, n, Ms)!Resumption]
  BY DEF ReviewsMove, E!TypeOK

LEMMA BeginApplyKeeps ==
    ASSUME NEW Rs, NEW n, NEW Ms, E(Rs, n, Ms)!ReplyAssumption, ReplyInv(Rs, n, Ms),
           NEW a \in Applier, NEW r \in Rs, E(Rs, n, Ms)!BeginApply(a, r)
    PROVE  ReplyInv(Rs, n, Ms)' /\ ReviewsMove(Rs)
  <1>1. /\ reviews[r].state = "pending"
        /\ UNCHANGED <<replies, cutoff, known, receipts, lead, barred, mailer, anew>>
    BY DEF E!BeginApply, E!remote
  <1>2. E(Rs, n, Ms)!TypeOK /\ reviews \in [Rs -> E(Rs, n, Ms)!Resumption] /\ n \in Nat
        /\ applier \in
                    [Applier -> [at : {"idle", "checked", "allowed", "answered"}, review : Rs \cup {NoReview}]]
    BY DEF ReplyInv, E!RepliesSound, E!TypeOK, E!ReplyAssumption
  <1>3. CASE /\ reviews[r].attempts < n
             /\ reviews' = [reviews EXCEPT ![r].attempts = E(Rs, n, Ms)!NextAttempts(@)]
             /\ applier' = [applier EXCEPT ![a] = [at |-> "checked", review |-> r]]
    <2> DEFINE y == [reviews[r] EXCEPT !.attempts = reviews[r].attempts + 1]
               x == [at |-> "checked", review |-> r]
    <2>1. reviews[r] \in E(Rs, n, Ms)!Resumption
      BY <1>2
    <2>2. /\ y \in E(Rs, n, Ms)!Resumption /\ y.state = "pending"
          /\ y.through = reviews[r].through
      BY <1>1, <1>2, <1>3, <2>1 DEF E!Resumption, E!NoRow
    <2>3. reviews' = [reviews EXCEPT ![r] = y]
      BY <1>2, <1>3 DEF E!NextAttempts
    <2>4. x \in
              [at : {"idle", "checked", "allowed", "answered"}, review : Rs \cup {NoReview}] /\ x.review = r
      OBVIOUS
    <2>5. applier' = [applier EXCEPT ![a] = x]
      BY <1>3
    <2> HIDE DEF x, y
    <2>6. /\ reviews' \in [Rs -> E(Rs, n, Ms)!Resumption] /\ reviews'[r] = y
          /\ \A q \in Rs : q # r => reviews'[q] = reviews[q]
      BY <1>2, <2>2, <2>3
    <2>7. ReviewsMove(Rs)
      BY <1>1, <2>2, <2>6 DEF ReviewsMove
    <2>8. /\ applier' \in
              [Applier -> [at : {"idle", "checked", "allowed", "answered"}, review : Rs \cup {NoReview}]]
          /\ applier'[a] = x /\ \A b \in Applier : b # a => applier'[b] = applier[b]
      BY <1>2, <2>4, <2>5
    <2>9. \A b \in Applier : applier'[b].at # "idle" =>
              applier'[b].review \in Rs /\ reviews'[applier'[b].review].state # "none"
      BY <1>1, <2>2, <2>4, <2>6, <2>7, <2>8 DEF ReplyInv, ReviewsMove
    <2>10. QED
      BY <1>1, <2>6, <2>7, <2>8, <2>9, ReviewsMoving
  <1>4. CASE E(Rs, n, Ms)!Settle(r, "requires_review") /\ UNCHANGED applier
    <2>1. reviews' \in [Rs -> E(Rs, n, Ms)!Resumption] /\ ReviewsMove(Rs)
      <3>1. "requires_review" \in E(Rs, n, Ms)!Verdict
        BY DEF E!Verdict
      <3>2. QED
        BY <1>2, <1>4, <3>1, SettleMoves
    <2>2. /\ applier' \in
              [Applier -> [at : {"idle", "checked", "allowed", "answered"}, review : Rs \cup {NoReview}]]
          /\ \A b \in Applier : applier'[b].at # "idle" =>
              applier'[b].review \in Rs /\ reviews'[applier'[b].review].state # "none"
      BY <1>2, <1>4, <2>1 DEF ReplyInv, ReviewsMove
    <2>3. QED
      BY <1>1, <2>1, <2>2, ReviewsMoving
  <1>5. QED
    BY <1>3, <1>4 DEF E!BeginApply

LEMMA RefuseKeeps ==
    ASSUME NEW Rs, NEW n, NEW Ms, ReplyInv(Rs, n, Ms), NEW a \in Applier,
           \/ E(Rs, n, Ms)!Refuse(a) \/ E(Rs, n, Ms)!FailApply(a)
           \/ E(Rs, n, Ms)!CheckMarks(a) /\ E(Rs, n, Ms)!Suppressed
    PROVE  ReplyInv(Rs, n, Ms)' /\ ReviewsMove(Rs)
  <1>1. UNCHANGED <<replies, cutoff, known, receipts, lead, barred, mailer, anew>>
        /\ E(Rs, n, Ms)!Leave(a)
    BY DEF E!Refuse, E!CheckMarks, E!FailApply, E!remote, E!rows
  <1>2. E(Rs, n, Ms)!TypeOK
    BY DEF ReplyInv, E!RepliesSound
  <1>3. reviews' \in [Rs -> E(Rs, n, Ms)!Resumption] /\ ReviewsMove(Rs)
    <2>1. CASE E(Rs, n, Ms)!Refuse(a) \/ (E(Rs, n, Ms)!CheckMarks(a) /\ E(Rs, n, Ms)!Suppressed)
      <3>1. applier[a].review \in Rs /\ E(Rs, n, Ms)!Settle(applier[a].review, "requires_review")
        BY <2>1 DEF E!Refuse, E!CheckMarks, ReplyInv
      <3>2. "requires_review" \in E(Rs, n, Ms)!Verdict
        BY DEF E!Verdict
      <3>3. QED
        BY <1>2, <3>1, <3>2, SettleMoves
    <2>2. CASE E(Rs, n, Ms)!FailApply(a)
      BY <1>2, <2>2, ReviewsStay DEF E!FailApply, E!rows
    <2>3. QED
      BY <2>1, <2>2
  <1>4. QED
    BY <1>1, <1>3, Leaving, ReviewsMoving

\* A thread that goes on with its review.
LEMMA GoingOn ==
    ASSUME NEW Rs, NEW n, NEW Ms, ReplyInv(Rs, n, Ms), NEW a \in Applier, applier[a].at # "idle",
           NEW at \in {"allowed", "answered"}, applier' = [applier EXCEPT ![a].at = at], ReviewsMove(Rs)
    PROVE  /\ applier' \in
                [Applier -> [at : {"idle", "checked", "allowed", "answered"}, review : Rs \cup {NoReview}]]
           /\ \A b \in Applier : applier'[b].at # "idle" =>
                 applier'[b].review \in Rs /\ reviews'[applier'[b].review].state # "none"
  <1> DEFINE x == [applier[a] EXCEPT !.at = at]
  <1>1. applier \in
            [Applier -> [at : {"idle", "checked", "allowed", "answered"}, review : Rs \cup {NoReview}]]
    BY DEF ReplyInv, E!RepliesSound, E!TypeOK
  <1>2. /\ x \in [at : {"idle", "checked", "allowed", "answered"}, review : Rs \cup {NoReview}]
        /\ x.review = applier[a].review
    BY <1>1
  <1>3. applier' = [applier EXCEPT ![a] = x]
    BY <1>1
  <1> HIDE DEF x
  <1>4. /\ applier' \in
            [Applier -> [at : {"idle", "checked", "allowed", "answered"}, review : Rs \cup {NoReview}]]
        /\ applier'[a] = x /\ \A b \in Applier : b # a => applier'[b] = applier[b]
    BY <1>1, <1>2, <1>3
  <1>5. QED
    BY <1>2, <1>4 DEF ReplyInv, ReviewsMove

LEMMA CheckMarksKeeps ==
    ASSUME NEW Rs, NEW n, NEW Ms, ReplyInv(Rs, n, Ms), NEW a \in Applier, E(Rs, n, Ms)!CheckMarks(a)
    PROVE  ReplyInv(Rs, n, Ms)' /\ ReviewsMove(Rs)
  <1>1. CASE E(Rs, n, Ms)!Suppressed
    BY <1>1, RefuseKeeps
  <1>2. CASE ~E(Rs, n, Ms)!Suppressed
    <2>1. /\ UNCHANGED <<replies, cutoff, known, receipts, lead, barred, mailer, anew, reviews>>
          /\ applier[a].at # "idle" /\ applier' = [applier EXCEPT ![a].at = "allowed"]
      BY <1>2 DEF E!CheckMarks, E!remote
    <2>2. E(Rs, n, Ms)!TypeOK
      BY DEF ReplyInv, E!RepliesSound
    <2>3. reviews' \in [Rs -> E(Rs, n, Ms)!Resumption] /\ ReviewsMove(Rs)
      BY <2>1, <2>2, ReviewsStay
    <2>4. /\ applier' \in
              [Applier -> [at : {"idle", "checked", "allowed", "answered"}, review : Rs \cup {NoReview}]]
          /\ \A b \in Applier : applier'[b].at # "idle" =>
                applier'[b].review \in Rs /\ reviews'[applier'[b].review].state # "none"
      BY <2>1, <2>3, GoingOn
    <2>5. QED
      BY <2>1, <2>3, <2>4, ReviewsMoving
  <1>3. QED
    BY <1>1, <1>2

LEMMA ResumeKeeps ==
    ASSUME NEW Rs, NEW n, NEW Ms, ReplyInv(Rs, n, Ms), NEW a \in Applier, E(Rs, n, Ms)!Resume(a)
    PROVE  ReplyInv(Rs, n, Ms)' /\ ReviewsMove(Rs)
  <1> DEFINE r == applier[a].review
  <1>1. /\ applier[a].at = "allowed" /\ r \in Rs /\ reviews[r].state # "none"
        /\ UNCHANGED <<replies, cutoff, reviews, known, barred, mailer, anew>>
    BY DEF E!Resume, E!rows, E!remote, ReplyInv
  <1>2. E(Rs, n, Ms)!TypeOK
    BY DEF ReplyInv, E!RepliesSound
  <1>3. reviews' \in [Rs -> E(Rs, n, Ms)!Resumption] /\ ReviewsMove(Rs)
    BY <1>1, <1>2, ReviewsStay
  <1>4. /\ applier' \in
            [Applier -> [at : {"idle", "checked", "allowed", "answered"}, review : Rs \cup {NoReview}]]
        /\ \A b \in Applier : applier'[b].at # "idle" =>
              applier'[b].review \in Rs /\ reviews'[applier'[b].review].state # "none"
    <2>1. CASE E(Rs, n, Ms)!Leave(a)
      BY <1>3, <2>1, Leaving
    <2>2. CASE applier' = [applier EXCEPT ![a].at = "answered"]
      BY <1>1, <1>3, <2>2, GoingOn
    <2>3. QED
      BY <2>1, <2>2 DEF E!Resume
  <1>5. CASE UNCHANGED <<receipts, lead>>
    BY <1>1, <1>3, <1>4, <1>5, ReviewsMoving
  <1>6. CASE /\ E(Rs, n, Ms)!SameEvidence(r) /\ receipts' = receipts \cup {r}
             /\ lead' = [lead EXCEPT !.paused = FALSE]
    <2>1. lead' \in [paused : BOOLEAN, optedOut : BOOLEAN] /\ receipts' \subseteq Rs
      <3>1. lead \in [paused : BOOLEAN, optedOut : BOOLEAN] /\ receipts \subseteq Rs
        BY <1>2 DEF E!TypeOK
      <3>2. QED
        BY <1>1, <1>6, <3>1
    <2>2. E(Rs, n, Ms)!TypeOK'
      BY <1>1, <1>2, <1>4, <2>1 DEF E!TypeOK
    <2>3. E(Rs, n, Ms)!ReleasedWasReviewed' /\ E(Rs, n, Ms)!NoMailPastReply'
      BY <1>1 DEF ReplyInv, E!RepliesSound, E!ReleasedWasReviewed, E!NoMailPastReply, E!Numbers
    <2>4. E(Rs, n, Ms)!KnownReplyPauses'
      <3>1. reviews[r].through \in Nat
        <4>1. reviews[r] \in E(Rs, n, Ms)!Resumption
          BY <1>1, <1>2 DEF E!TypeOK
        <4>2. QED
          BY <4>1 DEF E!Resumption, E!NoRow
      <3>2. \A i \in known : reviews[r].through >= i
        BY <1>6, <3>1 DEF E!SameEvidence
      <3> HIDE DEF r
      <3>3. QED
        BY <1>1, <1>6, <3>2 DEF E!KnownReplyPauses
    <2>5. \A q \in receipts' : reviews'[q].state # "none"
      BY <1>1, <1>6 DEF ReplyInv
    <2>6. QED
      BY <1>1, <1>3, <1>4, <2>2, <2>3, <2>4, <2>5 DEF ReplyInv, E!RepliesSound
  <1>7. QED
    BY <1>5, <1>6 DEF E!Resume, E!Resumable, E!remote

LEMMA ReleaseKeeps ==
    ASSUME NEW Rs, NEW n, NEW Ms, ReplyInv(Rs, n, Ms), NEW a \in Applier, E(Rs, n, Ms)!Release(a)
    PROVE  ReplyInv(Rs, n, Ms)' /\ ReviewsMove(Rs)
  <1> DEFINE r == applier[a].review
  <1>1. /\ applier[a].at = "answered" /\ r \in Rs /\ E(Rs, n, Ms)!Leave(a)
        /\ UNCHANGED <<replies, known, receipts, lead, barred, mailer, anew>>
    BY DEF E!Release, E!remote, ReplyInv
  <1>2. E(Rs, n, Ms)!TypeOK
    BY DEF ReplyInv, E!RepliesSound
  <1>3. CASE /\ reviews[r].state = "pending" /\ E(Rs, n, Ms)!Settle(r, "requires_review")
             /\ UNCHANGED cutoff
    <2>1. "requires_review" \in E(Rs, n, Ms)!Verdict
      BY DEF E!Verdict
    <2>2. reviews' \in [Rs -> E(Rs, n, Ms)!Resumption] /\ ReviewsMove(Rs)
      BY <1>1, <1>2, <1>3, <2>1, SettleMoves
    <2>3. QED
      BY <1>1, <1>3, <2>2, Leaving, ReviewsMoving
  <1>4. CASE UNCHANGED <<reviews, cutoff>>
    <2>1. reviews' \in [Rs -> E(Rs, n, Ms)!Resumption] /\ ReviewsMove(Rs)
      BY <1>2, <1>4, ReviewsStay
    <2>2. QED
      BY <1>1, <1>4, <2>1, Leaving, ReviewsMoving
  <1>5. CASE /\ reviews[r].state = "pending" /\ ~E(Rs, n, Ms)!Changed(r)
             /\ cutoff' = IF cutoff > E(Rs, n, Ms)!Releases(r) THEN cutoff ELSE E(Rs, n, Ms)!Releases(r)
             /\ E(Rs, n, Ms)!Settle(r, "applied")
    <2>1. /\ reviews' \in [Rs -> E(Rs, n, Ms)!Resumption] /\ ReviewsMove(Rs)
          /\ reviews'[r].state = "applied"
      <3>1. "applied" \in E(Rs, n, Ms)!Verdict
        BY DEF E!Verdict
      <3>2. QED
        BY <1>1, <1>2, <1>5, <3>1, SettleMoves
    <2>2. /\ applier' \in
              [Applier -> [at : {"idle", "checked", "allowed", "answered"}, review : Rs \cup {NoReview}]]
          /\ \A b \in Applier : applier'[b].at # "idle" =>
                applier'[b].review \in Rs /\ reviews'[applier'[b].review].state # "none"
      BY <1>1, <2>1, Leaving
    <2>3. /\ reviews[r].through = Len(replies) /\ reviews'[r].through = Len(replies)
          /\ Len(replies) \in Nat /\ Len(replies) <= MaxReplies
          /\ DOMAIN replies = 1 .. Len(replies) /\ cutoff \in Nat /\ cutoff <= MaxReplies
      BY <1>1, <1>2, <1>5, <2>1 DEF E!Changed, E!TypeOK, ReviewsMove
    <2>4. cutoff' \in Nat /\ cutoff <= cutoff' /\ Len(replies) <= cutoff' /\ cutoff' <= MaxReplies
          /\ (cutoff' = cutoff \/ cutoff' = Len(replies))
      BY <1>5, <2>3 DEF E!Releases
    <2>5. \A i \in 1 .. Len(replies) : i \in known /\ ~replies[i].stop
      BY <1>5, <2>3 DEF E!Changed, E!Stopped, E!Unapplied, E!Numbers, ReplyInv
    <2>6. E(Rs, n, Ms)!TypeOK'
      BY <1>1, <1>2, <2>1, <2>2, <2>4 DEF E!TypeOK
    <2> HIDE DEF r
    <2>7. E(Rs, n, Ms)!ReleasedWasReviewed'
      <3> SUFFICES ASSUME NEW i \in 1 .. cutoff'
                   PROVE  /\ i \in known /\ ~replies[i].stop
                          /\ \E q \in Rs : reviews'[q].state = "applied" /\ reviews'[q].through >= i
        BY <1>1 DEF E!ReleasedWasReviewed
      <3>1. CASE i \in 1 .. Len(replies)
        <4>1. reviews'[r].through >= i
          BY <2>3, <3>1
        <4>2. QED
          BY <1>1, <2>1, <2>5, <3>1, <4>1
      <3>2. CASE i \in 1 .. cutoff
        <4>1. PICK q \in Rs : reviews[q].state = "applied" /\ reviews[q].through >= i
          BY <3>2 DEF ReplyInv, E!RepliesSound, E!ReleasedWasReviewed
        <4>2. reviews'[q].state = "applied" /\ reviews'[q].through >= i
          BY <2>1, <4>1 DEF ReviewsMove
        <4>3. QED
          BY <3>2, <4>2 DEF ReplyInv, E!RepliesSound, E!ReleasedWasReviewed
      <3>3. QED
        BY <2>3, <2>4, <3>1, <3>2
    <2>8. E(Rs, n, Ms)!KnownReplyPauses'
      <3>1. receipts \subseteq Rs
        BY <1>2 DEF E!TypeOK
      <3>2. QED
        BY <1>1, <2>1, <3>1 DEF ReplyInv, E!RepliesSound, E!KnownReplyPauses, ReviewsMove
    <2>9. E(Rs, n, Ms)!NoMailPastReply'
      <3> SUFFICES ASSUME NEW m \in Ms, mailer[m].at \in {"clear", "checked"},
                          NEW i \in 1 .. Len(replies), i > cutoff'
                   PROVE  i > mailer[m].since
        BY <1>1, <2>3 DEF E!NoMailPastReply, E!Numbers
      <3>1. i > cutoff
        BY <2>3, <2>4
      <3>2. QED
        BY <2>3, <3>1 DEF ReplyInv, E!RepliesSound, E!NoMailPastReply, E!Numbers
    <2>10. \A q \in receipts' : reviews'[q].state # "none"
      BY <1>1, <1>2, <2>1 DEF ReplyInv, E!TypeOK, ReviewsMove
    <2>11. QED
      BY <1>1, <2>1, <2>2, <2>6, <2>7, <2>8, <2>9, <2>10 DEF ReplyInv, E!RepliesSound
  <1>6. QED
    BY <1>3, <1>4, <1>5 DEF E!Release

LEMMA MailerKeeps ==
    ASSUME NEW Rs, NEW n, NEW Ms, E(Rs, n, Ms)!ReplyAssumption, ReplyInv(Rs, n, Ms), NEW m \in Ms,
           \/ E(Rs, n, Ms)!ReadLead(m) \/ E(Rs, n, Ms)!CheckHold(m) \/ E(Rs, n, Ms)!CheckStop(m)
           \/ E(Rs, n, Ms)!PostMail(m)
    PROVE  ReplyInv(Rs, n, Ms)' /\ ReviewsMove(Rs)
  <1> DEFINE Thread == [at : {"idle", "read", "clear", "checked"}, since : 0 .. MaxReplies]
  <1>1. UNCHANGED <<replies, cutoff, reviews, known, receipts, lead, barred, applier, anew>>
    BY DEF E!ReadLead, E!CheckHold, E!CheckStop, E!PostMail, E!rows, E!remote
  <1>2. E(Rs, n, Ms)!TypeOK /\ mailer \in [Ms -> Thread] /\ mailer[m] \in Thread
        /\ Len(replies) \in Nat /\ Len(replies) <= MaxReplies /\ mailer[m].since <= Len(replies)
        /\ cutoff \in Nat /\ MaxReplies \in Int
    BY DEF ReplyInv, E!RepliesSound, E!TypeOK, E!ReplyAssumption
  <1>3. PICK x \in Thread :
           /\ mailer' = [mailer EXCEPT ![m] = x] /\ x.since <= Len(replies)
           /\ x.at \in {"clear", "checked"} =>
                 \/ mailer[m].at \in {"clear", "checked"} /\ x.since = mailer[m].since
                 \/ Len(replies) <= cutoff
    <2>1. E(Rs, n, Ms)!IdleMailer \in Thread /\ E(Rs, n, Ms)!IdleMailer.at = "idle"
          /\ E(Rs, n, Ms)!IdleMailer.since <= Len(replies)
      BY <1>2 DEF E!IdleMailer
    <2>2. CASE E(Rs, n, Ms)!ReadLead(m)
      <3> DEFINE x == [mailer[m] EXCEPT !.at = "read"]
      <3>1. x \in Thread /\ x.at = "read" /\ x.since = mailer[m].since
        BY <1>2
      <3>2. mailer' = [mailer EXCEPT ![m] = x]
        BY <1>2, <2>2 DEF E!ReadLead
      <3> HIDE DEF x
      <3>3. QED
        BY <1>2, <3>1, <3>2
    <2>3. CASE E(Rs, n, Ms)!CheckHold(m) /\ ~E(Rs, n, Ms)!SeesHold
      <3> DEFINE x == [at |-> "clear", since |-> Len(replies)]
      <3>1. x \in Thread /\ x.since <= Len(replies) /\ x.at = "clear"
        BY <1>2
      <3>2. mailer' = [mailer EXCEPT ![m] = x]
        BY <2>3 DEF E!CheckHold
      <3>3. Len(replies) <= cutoff
        BY <1>2, <2>3 DEF E!SeesHold, E!Held
      <3> HIDE DEF x
      <3>4. QED
        BY <1>2, <3>1, <3>2, <3>3
    <2>4. CASE E(Rs, n, Ms)!CheckHold(m) /\ E(Rs, n, Ms)!SeesHold
      <3>1. mailer' = [mailer EXCEPT ![m] = E(Rs, n, Ms)!IdleMailer]
        BY <2>4 DEF E!CheckHold
      <3>2. QED
        BY <2>1, <3>1
    <2>5. CASE E(Rs, n, Ms)!PostMail(m)
      BY <2>1, <2>5 DEF E!PostMail
    <2>6. CASE E(Rs, n, Ms)!CheckStop(m) /\ E(Rs, n, Ms)!Suppressed
      BY <2>1, <2>6 DEF E!CheckStop
    <2>7. CASE E(Rs, n, Ms)!CheckStop(m) /\ ~E(Rs, n, Ms)!Suppressed
      <3> DEFINE x == [mailer[m] EXCEPT !.at = "checked"]
      <3>1. x \in Thread /\ x.at = "checked" /\ x.since = mailer[m].since
        BY <1>2
      <3>2. mailer' = [mailer EXCEPT ![m] = x] /\ mailer[m].at = "clear"
        BY <1>2, <2>7 DEF E!CheckStop
      <3> HIDE DEF x
      <3>3. QED
        BY <1>2, <3>1, <3>2
    <2>8. QED
      BY <2>2, <2>3, <2>4, <2>5, <2>6, <2>7
  <1>4. /\ mailer' \in [Ms -> Thread] /\ mailer'[m] = x
        /\ \A k \in Ms : k # m => mailer'[k] = mailer[k]
    BY <1>2, <1>3
  <1>5. /\ \A k \in Ms : mailer'[k].since <= Len(replies)
        /\ \A k \in Ms : mailer'[k].at \in {"clear", "checked"} =>
              \/ mailer[k].at \in {"clear", "checked"} /\ mailer'[k].since = mailer[k].since
              \/ Len(replies) <= cutoff
    BY <1>3, <1>4 DEF ReplyInv
  <1>6. ReplyInv(Rs, n, Ms)'
    BY <1>1, <1>4, <1>5, MailersMoving
  <1>7. QED
    BY <1>1, <1>2, <1>6, ReviewsStay

LEMMA ReplyStep ==
    ASSUME NEW Rs, NEW n, NEW Ms, E(Rs, n, Ms)!ReplyAssumption, ReplyInv(Rs, n, Ms), [E(Rs, n, Ms)!Next]_mails
    PROVE  ReplyInv(Rs, n, Ms)' /\ E(Rs, n, Ms)!VerdictStands
  <1>1. E(Rs, n, Ms)!TypeOK
    BY DEF ReplyInv, E!RepliesSound
  <1>2. ReplyInv(Rs, n, Ms)' /\ ReviewsMove(Rs)
    <2>1. CASE UNCHANGED mails
      <3>1. ReplyInv(Rs, n, Ms)'
        BY <2>1 DEF mails, ReplyInv, E!RepliesSound, E!TypeOK, E!ReleasedWasReviewed,
           E!KnownReplyPauses, E!NoMailPastReply, E!Numbers
      <3>2. QED
        BY <1>1, <2>1, <3>1, ReviewsStay DEF mails
    <2>2. CASE E(Rs, n, Ms)!Receive
      BY <1>1, <2>2, ReceiveKeeps, ReviewsStay DEF E!Receive
    <2>3. CASE E(Rs, n, Ms)!BarAddress \/ E(Rs, n, Ms)!BarPhone \/ E(Rs, n, Ms)!StartSequence
      BY <1>1, <2>3, LeadKeeps, ReviewsStay DEF E!BarAddress, E!BarPhone, E!StartSequence, E!rows
    <2>4. ASSUME NEW i \in E(Rs, n, Ms)!Numbers, E(Rs, n, Ms)!ApplyReply(i) \/ E(Rs, n, Ms)!MarkReply(i)
          PROVE  ReplyInv(Rs, n, Ms)' /\ ReviewsMove(Rs)
      BY <1>1, <2>4, ApplyReplyKeeps, MarkReplyKeeps, ReviewsStay DEF E!ApplyReply, E!MarkReply, E!rows
    <2>5. QED
      BY <2>1, <2>2, <2>3, <2>4, RequestReviewKeeps, BeginApplyKeeps, CheckMarksKeeps, RefuseKeeps, ResumeKeeps,
         ReleaseKeeps, MailerKeeps DEF E!Next
  <1>3. E(Rs, n, Ms)!VerdictStands
    BY <1>2 DEF E!VerdictStands, E!Verdict, ReviewsMove
  <1>4. QED
    BY <1>2, <1>3
-----------------------------------------------------------------------------
(***************************************************************************)
(* CallFacts.  The snapshots that are journalled, staged or under way are  *)
(* those there have been, what is being delivered as expired is too old,   *)
(* and an answer that confirms a snapshot is there only when Bob has it.   *)
(***************************************************************************)
FlushIsTrue(f) ==
    /\ flush[f].at # "idle" => flush[f].row <= verified
    /\ flush[f].at # "idle" /\ flush[f].expired => life[flush[f].row] = 0
    /\ flush[f].at = "answered" /\ flush[f].confirmed => flush[f].row \in taken

FactInv ==
    /\ F!FactsSound
    /\ saved <= verified
    /\ writer.at = "staging" => writer.snapshot <= verified
    /\ \A v \in F!Snapshot : row[v] # "none" => v <= verified
    /\ \A f \in Flusher : FlushIsTrue(f)

LEMMA FactInit == F!FactAssumption /\ F!Init => FactInv
  <1> SUFFICES ASSUME F!FactAssumption, F!Init PROVE FactInv
    OBVIOUS
  <1>1. /\ verified = 0 /\ saved = 0 /\ writer = [at |-> "idle"] /\ ended = FALSE /\ taken = {}
        /\ lapses = 0 /\ LastFact \in Nat /\ MaxLapses \in Nat /\ Life \in Nat /\ Lease \in Nat
    BY DEF F!Init, F!FactAssumption, F!Idle
  <1>2. F!TypeOK
    <2>1. F!Idle \in F!Flush /\ F!Idle \in F!Writer
      BY DEF F!Flush, F!Writer
    <2>2. flush \in [Flusher -> F!Flush] /\ writer \in F!Writer
      BY <2>1 DEF F!Init
    <2>3. /\ row \in [F!Snapshot -> {"none", "pending", "dead", "deleted"}]
          /\ owner \in [F!Snapshot -> Flusher \cup {NoFlusher}]
          /\ leased \in [F!Snapshot -> 0 .. Lease] /\ backoff \in [F!Snapshot -> 0 .. 1]
          /\ life \in [F!Snapshot -> 0 .. Life]
      BY <1>1 DEF F!Init
    <2>4. /\ verified \in 0 .. LastFact /\ saved \in 0 .. LastFact
          /\ lapses \in 0 .. MaxLapses /\ taken \subseteq F!Snapshot
      BY <1>1
    <2>5. ended \in BOOLEAN
      BY <1>1
    <2>6. QED
      BY <2>2, <2>3, <2>4, <2>5 DEF F!TypeOK
  <1>3. \A f \in Flusher : flush[f].at = "idle"
    BY DEF F!Init, F!Idle
  <1>4. \A v \in F!Snapshot : row[v] = "none"
    BY DEF F!Init
  <1>5. QED
    BY <1>1, <1>2, <1>3, <1>4 DEF FactInv, F!FactsSound, F!DeletedWasTaken, F!DeadWasExpired,
       F!SavedIsJournalled, FlushIsTrue

LEMMA FlushFields ==
    ASSUME F!TypeOK, NEW f \in Flusher
    PROVE  /\ flush[f].at \in {"idle", "claimed", "answered"}
           /\ flush[f].at = "idle" <=> flush[f] = F!Idle
           /\ flush[f].at # "idle" => flush[f].row \in F!Snapshot /\ flush[f].expired \in BOOLEAN
           /\ flush[f].at = "answered" => flush[f].confirmed \in BOOLEAN
  <1>1. flush[f] \in F!Flush
    BY DEF F!TypeOK
  <1>2. QED
    BY <1>1 DEF F!Flush, F!Idle

LEMMA WriterFields ==
    ASSUME F!TypeOK
    PROVE  /\ writer.at \in {"idle", "flushing", "staging"}
           /\ writer.at = "staging" => writer.snapshot \in F!Snapshot /\ writer.retries \in 0 .. 2
  BY DEF F!TypeOK, F!Writer, F!Idle, F!Retries

\* The transaction that journals a snapshot.
LEMMA StageJournals ==
    ASSUME FactInv, NEW v \in F!Snapshot, v <= verified, F!Stage(v)
    PROVE  /\ row' \in [F!Snapshot -> {"none", "pending", "dead", "deleted"}]
           /\ backoff' \in [F!Snapshot -> 0 .. 1]
           /\ row'[v] # "none"
           /\ \A u \in F!Snapshot :
                 /\ row[u] # "none" => row'[u] # "none"
                 /\ row'[u] # "none" => u <= verified
                 /\ row'[u] \in {"dead", "deleted"} => row'[u] = row[u]
           /\ UNCHANGED <<owner, leased, life>>
  <1>1. /\ row \in [F!Snapshot -> {"none", "pending", "dead", "deleted"}]
        /\ backoff \in [F!Snapshot -> 0 .. 1]
        /\ \A u \in F!Snapshot : row[u] # "none" => u <= verified
    BY DEF FactInv, F!FactsSound, F!TypeOK
  <1>2. CASE UNCHANGED <<row, backoff>> /\ row[v] \in {"pending", "dead"}
    BY <1>1, <1>2 DEF F!Stage
  <1>3. CASE row' = [row EXCEPT ![v] = "pending"] /\ backoff' = [backoff EXCEPT ![v] = 0]
    <2>1. /\ row' \in [F!Snapshot -> {"none", "pending", "dead", "deleted"}]
          /\ backoff' \in [F!Snapshot -> 0 .. 1] /\ row'[v] = "pending"
          /\ \A u \in F!Snapshot : u # v => row'[u] = row[u]
      BY <1>1, <1>3
    <2>2. QED
      BY <1>1, <2>1 DEF F!Stage
  <1>4. QED
    BY <1>2, <1>3 DEF F!Stage

\* A step of the call: the rows keep what the invariant says of them.
LEMMA CallKeeps ==
    ASSUME FactInv, UNCHANGED <<owner, leased, flush, lapses, taken>>,
           verified' \in 0 .. LastFact, verified <= verified',
           saved' \in 0 .. LastFact, saved' <= verified',
           writer' \in F!Writer, writer'.at = "staging" => writer'.snapshot <= verified',
           ended' \in BOOLEAN,
           row' \in [F!Snapshot -> {"none", "pending", "dead", "deleted"}],
           backoff' \in [F!Snapshot -> 0 .. 1], life' \in [F!Snapshot -> 0 .. Life],
           saved' # 0 => row'[saved'] # "none",
           \A u \in F!Snapshot : /\ row'[u] # "none" => u <= verified'
                                 /\ row'[u] \in {"dead", "deleted"} => row'[u] = row[u]
                                 /\ u <= verified => life'[u] = life[u]
    PROVE  FactInv'
  <1>1. F!TypeOK
    BY DEF FactInv, F!FactsSound
  <1>2. F!TypeOK'
    BY <1>1 DEF F!TypeOK, F!Snapshot, F!Flush, F!Idle, F!Writer
  <1>3. F!DeletedWasTaken' /\ F!DeadWasExpired' /\ F!SavedIsJournalled'
    BY DEF FactInv, F!FactsSound, F!DeletedWasTaken, F!DeadWasExpired, F!SavedIsJournalled, F!Snapshot
  <1>4. ASSUME NEW f \in Flusher PROVE FlushIsTrue(f)'
    <2>1. /\ flush'[f] = flush[f] /\ FlushIsTrue(f)
          /\ flush[f].at # "idle" => flush[f].row \in F!Snapshot /\ flush[f].row \in Int
      BY <1>1, FlushFields DEF FactInv, F!Snapshot
    <2>2. verified \in Int /\ verified' \in Int
      BY <1>1 DEF F!TypeOK
    <2>3. QED
      BY <2>1, <2>2 DEF FlushIsTrue
  <1>5. QED
    BY <1>2, <1>3, <1>4 DEF FactInv, F!FactsSound, F!Snapshot

LEMMA CallStep ==
    ASSUME FactInv,
           F!Verify \/ F!RememberNextStep \/ F!Frame \/ F!Journal \/ F!FlushEnds \/ F!EndCall
    PROVE  FactInv'
  <1>1. /\ F!TypeOK /\ verified \in 0 .. LastFact /\ saved \in 0 .. LastFact /\ saved <= verified
        /\ LastFact \in Nat /\ Life \in Nat /\ writer \in F!Writer /\ ended \in BOOLEAN
        /\ row \in [F!Snapshot -> {"none", "pending", "dead", "deleted"}]
        /\ backoff \in [F!Snapshot -> 0 .. 1] /\ life \in [F!Snapshot -> 0 .. Life]
    <2>1. F!FactAssumption
      BY MessagesAssumption DEF MessagesAssumption
    <2>2. QED
      BY <2>1 DEF FactInv, F!FactsSound, F!TypeOK, F!FactAssumption
  <1>2. \A v \in F!Snapshot : v \in 1 .. LastFact
    BY DEF F!Snapshot
  <1>3. /\ writer.at = "staging" => writer.snapshot <= verified
        /\ saved # 0 => row[saved] # "none"
        /\ \A v \in F!Snapshot : row[v] # "none" => v <= verified
    BY DEF FactInv, F!FactsSound, F!SavedIsJournalled
  <1>4. F!Idle \in F!Writer /\ F!Idle.at = "idle"
        /\ [at |-> "flushing"] \in F!Writer
    BY DEF F!Writer, F!Idle
  <1>5. ASSUME NEW v \in F!Snapshot, NEW k \in 0 .. 2
        PROVE  /\ [at |-> "staging", snapshot |-> v, retries |-> k] \in F!Writer
    BY DEF F!Writer, F!Retries
  <1>6. verified < LastFact => verified + 1 \in F!Snapshot
    BY <1>1 DEF F!Snapshot
  <1>7. CASE F!Verify
    <2>1. PICK left \in {Life} \cup {life[v] : v \in {verified} \cap F!Snapshot} :
             life' = [life EXCEPT ![verified + 1] = left]
      BY <1>7 DEF F!Verify
    <2>2. left \in 0 .. Life
      BY <1>1, <2>1
    <2>3. /\ verified' = verified + 1 /\ verified < LastFact
          /\ UNCHANGED <<saved, writer, ended, row, owner, leased, backoff, flush, lapses, taken>>
      BY <1>7 DEF F!Verify
    <2>4. /\ life' \in [F!Snapshot -> 0 .. Life]
          /\ \A u \in F!Snapshot : u # verified + 1 => life'[u] = life[u]
      BY <1>1, <1>6, <2>1, <2>2, <2>3
    <2>5. \A u \in F!Snapshot : /\ row'[u] # "none" => u <= verified'
                                /\ u <= verified => life'[u] = life[u]
      BY <1>1, <1>2, <1>3, <2>3, <2>4
    <2>6. /\ verified' \in 0 .. LastFact /\ verified <= verified' /\ saved' <= verified'
          /\ writer'.at = "staging" => writer'.snapshot <= verified'
      BY <1>1, <1>3, <2>3, WriterFields DEF F!Snapshot
    <2>7. QED
      BY <1>1, <1>3, <2>3, <2>4, <2>5, <2>6, CallKeeps
  <1>8. CASE F!RememberNextStep
    <2>1. /\ verified' = verified + 1 /\ verified < LastFact
          /\ life' = [life EXCEPT ![verified + 1] = Life]
          /\ UNCHANGED <<saved, writer, ended, owner, leased, backoff, flush, lapses, taken>>
      BY <1>8 DEF F!RememberNextStep
    <2>2. /\ life' \in [F!Snapshot -> 0 .. Life]
          /\ \A u \in F!Snapshot : u # verified + 1 => life'[u] = life[u]
      BY <1>1, <1>6, <2>1
    <2>3. /\ row' \in [F!Snapshot -> {"none", "pending", "dead", "deleted"}]
          /\ \A u \in F!Snapshot : row'[u] = row[u] \/ (u = verified + 1 /\ row'[u] = "pending")
      <3>1. CASE UNCHANGED row
        BY <1>1, <3>1
      <3>2. CASE row' = [row EXCEPT ![verified + 1] = "pending"]
        BY <1>1, <1>6, <2>1, <3>2
      <3>3. QED
        BY <1>8, <2>1, <3>1, <3>2 DEF F!RememberNextStep
    <2>4. \A u \in F!Snapshot : /\ row'[u] # "none" => u <= verified'
                                /\ row'[u] \in {"dead", "deleted"} => row'[u] = row[u]
                                /\ u <= verified => life'[u] = life[u]
      BY <1>1, <1>2, <1>3, <2>1, <2>2, <2>3
    <2>5. /\ verified' \in 0 .. LastFact /\ verified <= verified' /\ saved' <= verified'
          /\ writer'.at = "staging" => writer'.snapshot <= verified'
      BY <1>1, <1>3, <2>1, WriterFields DEF F!Snapshot
    <2>6. saved' # 0 => row'[saved'] # "none"
      BY <1>1, <1>3, <2>1, <2>3 DEF F!Snapshot
    <2>7. QED
      BY <1>1, <2>1, <2>2, <2>3, <2>4, <2>5, <2>6, CallKeeps
  <1>9. CASE F!Frame
    <2>1. verified \in F!Snapshot
      BY <1>1, <1>9 DEF F!Frame, F!Snapshot
    <2> DEFINE x == [at |-> "staging", snapshot |-> verified, retries |-> 0]
    <2>2. x \in F!Writer /\ x.snapshot = verified
      BY <2>1 DEF F!Writer, F!Retries
    <2>3. writer' = x /\ UNCHANGED <<verified, saved, ended, row, owner, leased, backoff, life,
                                     flush, lapses, taken>>
      BY <1>9 DEF F!Frame, F!facts
    <2> HIDE DEF x
    <2>4. QED
      BY <1>1, <1>2, <1>3, <2>2, <2>3, CallKeeps
  <1>10. CASE F!FlushEnds
    <2>1. writer' = F!Idle /\ UNCHANGED <<verified, saved, ended, row, owner, leased, backoff, life,
                                          flush, lapses, taken>>
      BY <1>10 DEF F!FlushEnds, F!facts
    <2>2. QED
      BY <1>1, <1>2, <1>3, <1>4, <2>1, CallKeeps
  <1>11. ASSUME NEW now \in 0 .. LastFact, NEW k \in 0 .. 2, F!ReadAgain(k, now), verified # 0
         PROVE  writer' \in F!Writer /\ (writer'.at = "staging" => writer'.snapshot <= verified)
    <2>1. verified \in F!Snapshot
      BY <1>1, <1>11 DEF F!Snapshot
    <2>2. CASE verified = now
      BY <1>4, <1>11, <2>2 DEF F!ReadAgain
    <2>3. CASE verified # now
      <3> DEFINE x == [at |-> "staging", snapshot |-> verified, retries |-> k]
      <3>1. x \in F!Writer /\ x.snapshot = verified
        BY <1>5, <2>1
      <3>2. writer' = x
        BY <1>11, <2>3 DEF F!ReadAgain
      <3> HIDE DEF x
      <3>3. QED
        BY <1>1, <3>1, <3>2
    <2>4. QED
      BY <2>2, <2>3
  <1>12. CASE F!Journal
    <2>1. /\ writer.at = "staging" /\ writer.snapshot \in F!Snapshot /\ writer.retries \in 0 .. 2
          /\ writer.snapshot <= verified /\ verified # 0
          /\ UNCHANGED <<verified, ended, flush, lapses, taken>>
      BY <1>1, <1>3, <1>12, WriterFields DEF F!Journal, F!Snapshot
    <2>2. CASE /\ F!Stage(writer.snapshot) /\ saved' = writer.snapshot
               /\ F!ReadAgain(writer.retries, saved')
      <3>1. saved' \in 0 .. LastFact /\ saved' \in F!Snapshot /\ saved' <= verified
        BY <2>1, <2>2 DEF F!Snapshot
      <3>2. writer' \in F!Writer /\ (writer'.at = "staging" => writer'.snapshot <= verified)
        BY <1>11, <2>1, <2>2, <3>1
      <3>3. /\ row' \in [F!Snapshot -> {"none", "pending", "dead", "deleted"}]
            /\ backoff' \in [F!Snapshot -> 0 .. 1]
            /\ row'[writer.snapshot] # "none"
            /\ \A u \in F!Snapshot : /\ row'[u] # "none" => u <= verified
                                     /\ row'[u] \in {"dead", "deleted"} => row'[u] = row[u]
            /\ UNCHANGED <<owner, leased, life>>
        BY <2>1, <2>2, StageJournals
      <3>4. QED
        BY <1>1, <2>1, <2>2, <3>1, <3>2, <3>3, CallKeeps
    <2>3. CASE /\ IF writer.retries = F!Retries THEN writer' = F!Idle
                  ELSE F!ReadAgain(writer.retries + 1, saved)
               /\ UNCHANGED <<saved, row, owner, leased, backoff, life>>
      <3>1. writer' \in F!Writer /\ (writer'.at = "staging" => writer'.snapshot <= verified)
        <4>1. CASE writer.retries = F!Retries
          BY <1>4, <2>3, <4>1
        <4>2. CASE writer.retries # F!Retries
          <5>1. writer.retries + 1 \in 0 .. 2
            BY <2>1, <4>2 DEF F!Retries
          <5>2. QED
            BY <1>1, <1>11, <2>1, <2>3, <4>2, <5>1
        <4>3. QED
          BY <4>1, <4>2
      <3>2. QED
        BY <1>1, <1>2, <1>3, <2>1, <2>3, <3>1, CallKeeps
    <2>4. QED
      BY <1>12, <2>2, <2>3 DEF F!Journal, F!facts
  <1>13. CASE F!EndCall
    <2>1. ended' = TRUE /\ writer' = F!Idle /\ UNCHANGED <<verified, flush, lapses, taken>>
      BY <1>13 DEF F!EndCall
    <2>2. ASSUME NEW v \in F!Snapshot, v <= verified, F!Stage(v), saved' \in {v, saved}
          PROVE  FactInv'
      <3>1. saved' \in 0 .. LastFact /\ saved' <= verified
        BY <1>1, <1>2, <2>2
      <3>2. /\ row' \in [F!Snapshot -> {"none", "pending", "dead", "deleted"}]
            /\ backoff' \in [F!Snapshot -> 0 .. 1]
            /\ row'[v] # "none"
            /\ \A u \in F!Snapshot : /\ row[u] # "none" => row'[u] # "none"
                                     /\ row'[u] # "none" => u <= verified
                                     /\ row'[u] \in {"dead", "deleted"} => row'[u] = row[u]
            /\ UNCHANGED <<owner, leased, life>>
        BY <2>2, StageJournals
      <3>3. saved' # 0 => row'[saved'] # "none"
        BY <1>1, <1>3, <2>2, <3>2 DEF F!Snapshot
      <3>4. QED
        BY <1>1, <1>4, <2>1, <3>1, <3>2, <3>3, CallKeeps
    <2>3. CASE verified # 0 /\ F!Stage(verified) /\ saved' = verified
      <3>1. verified \in F!Snapshot
        BY <1>1, <2>3 DEF F!Snapshot
      <3>2. QED
        BY <1>1, <2>2, <2>3, <3>1
    <2>4. CASE writer.at = "staging" /\ F!Stage(writer.snapshot) /\ UNCHANGED saved
      BY <1>1, <1>3, <2>2, <2>4, WriterFields
    <2>5. CASE UNCHANGED <<saved, row, owner, leased, backoff, life>>
      BY <1>1, <1>2, <1>3, <1>4, <2>1, <2>5, CallKeeps
    <2>6. QED
      BY <1>13, <2>3, <2>4, <2>5 DEF F!EndCall, F!facts
  <1>14. QED
    BY <1>7, <1>8, <1>9, <1>10, <1>12, <1>13

\* A step of the flushers.
LEMMA FlushStep ==
    ASSUME FactInv, NEW f \in Flusher,
           F!Claim(f) \/ F!Deliver(f) \/ F!Settle(f) \/ F!Die(f)
    PROVE  FactInv'
  <1>1. /\ F!TypeOK /\ LastFact \in Nat /\ Lease \in Nat /\ MaxLapses \in Nat
        /\ flush \in [Flusher -> F!Flush] /\ lapses \in 0 .. MaxLapses
        /\ row \in [F!Snapshot -> {"none", "pending", "dead", "deleted"}]
        /\ owner \in [F!Snapshot -> Flusher \cup {NoFlusher}]
        /\ leased \in [F!Snapshot -> 0 .. Lease] /\ backoff \in [F!Snapshot -> 0 .. 1]
        /\ life \in [F!Snapshot -> 0 .. Life] /\ taken \subseteq F!Snapshot
    <2>1. F!FactAssumption
      BY MessagesAssumption DEF MessagesAssumption
    <2>2. QED
      BY <2>1 DEF FactInv, F!FactsSound, F!TypeOK, F!FactAssumption
  <1>2. UNCHANGED <<verified, saved, writer, ended, life>>
    BY DEF F!Claim, F!Deliver, F!Settle, F!Die, F!call, F!facts
  <1> DEFINE v == flush[f].row
  <1>3. ASSUME NEW x \in F!Flush, flush' = [flush EXCEPT ![f] = x],
               /\ x.at # "idle" => x.row <= verified
               /\ x.at # "idle" /\ x.expired => life[x.row] = 0
               /\ x.at = "answered" /\ x.confirmed => x.row \in taken',
               taken \subseteq taken', taken' \subseteq F!Snapshot
        PROVE  /\ flush' \in [Flusher -> F!Flush]
               /\ \A g \in Flusher : FlushIsTrue(g)'
    <2>1. /\ flush' \in [Flusher -> F!Flush] /\ flush'[f] = x
          /\ \A g \in Flusher : g # f => flush'[g] = flush[g]
      BY <1>1, <1>3
    <2>2. ASSUME NEW g \in Flusher PROVE FlushIsTrue(g)'
      <3>1. CASE g = f
        BY <1>2, <1>3, <2>1, <3>1 DEF FlushIsTrue
      <3>2. CASE g # f
        BY <1>2, <1>3, <2>1, <3>2 DEF FlushIsTrue, FactInv
      <3>3. QED
        BY <3>1, <3>2
    <2>3. QED
      BY <2>1, <2>2
  <1>4. F!Idle \in F!Flush /\ F!Idle.at = "idle"
    BY DEF F!Flush, F!Idle
  <1>5. CASE F!Claim(f)
    <2>1. PICK u \in F!Snapshot :
             /\ F!Due(u) /\ owner' = [owner EXCEPT ![u] = f]
             /\ leased' = [leased EXCEPT ![u] = Lease]
             /\ flush' = [flush EXCEPT ![f] =
                             [at |-> "claimed", row |-> u, expired |-> life[u] = 0]]
      BY <1>5 DEF F!Claim
    <2> DEFINE x == [at |-> "claimed", row |-> u, expired |-> life[u] = 0]
    <2>2. u <= verified
      BY <2>1 DEF F!Due, FactInv
    <2>3. x \in F!Flush /\ x.at = "claimed" /\ x.row = u /\ (x.expired => life[u] = 0)
      BY DEF F!Flush
    <2>4. flush' = [flush EXCEPT ![f] = x] /\ UNCHANGED <<row, backoff, lapses, taken>>
      BY <1>5, <2>1 DEF F!Claim
    <2> HIDE DEF x
    <2>5. flush' \in [Flusher -> F!Flush] /\ \A g \in Flusher : FlushIsTrue(g)'
      BY <1>1, <1>3, <2>2, <2>3, <2>4
    <2>6. /\ owner' \in [F!Snapshot -> Flusher \cup {NoFlusher}]
          /\ leased' \in [F!Snapshot -> 0 .. Lease]
      BY <1>1, <2>1
    <2>7. F!TypeOK'
      BY <1>1, <1>2, <2>4, <2>5, <2>6 DEF F!TypeOK, F!Snapshot, F!Flush, F!Idle, F!Writer
    <2>8. QED
      BY <1>2, <2>4, <2>5, <2>7 DEF FactInv, F!FactsSound, F!DeletedWasTaken, F!DeadWasExpired,
         F!SavedIsJournalled, F!Snapshot
  <1>6. CASE F!Deliver(f)
    <2>1. /\ flush[f].at = "claimed" /\ v \in F!Snapshot /\ flush[f].expired \in BOOLEAN
          /\ v <= verified /\ (flush[f].expired => life[v] = 0)
          /\ UNCHANGED <<row, owner, leased, backoff, lapses>>
      BY <1>1, <1>6, FlushFields DEF F!Deliver, F!facts, FactInv, FlushIsTrue
    <2>2. PICK k \in F!Answers :
             /\ taken' = IF k[1] THEN taken \cup {v} ELSE taken
             /\ flush' = [flush EXCEPT ![f] = [at |-> "answered", row |-> v,
                                    expired |-> flush[f].expired, confirmed |-> k[2]]]
      BY <1>6 DEF F!Deliver, F!Possible, F!Answers
    <2> DEFINE x == [at |-> "answered", row |-> v, expired |-> flush[f].expired, confirmed |-> k[2]]
    <2>3. k[2] \in BOOLEAN /\ (k[2] => k[1])
      <3>1. k = <<TRUE, TRUE>> \/ k = <<TRUE, FALSE>> \/ k = <<FALSE, FALSE>>
        BY DEF F!Answers
      <3>2. CASE k = <<TRUE, TRUE>>
        <4>1. k[1] = TRUE
          BY <3>2
        <4>2. k[2] = TRUE
          BY <3>2
        <4>3. QED
          BY <4>1, <4>2
      <3>3. CASE k = <<TRUE, FALSE>>
        <4>1. k[2] = FALSE
          BY <3>3
        <4>2. QED
          BY <4>1
      <3>4. CASE k = <<FALSE, FALSE>>
        <4>1. k[2] = FALSE
          BY <3>4
        <4>2. QED
          BY <4>1
      <3>5. QED
        BY <3>1, <3>2, <3>3, <3>4
    <2>4. /\ x \in F!Flush /\ x.at = "answered" /\ x.row = v
          /\ x.expired = flush[f].expired /\ x.confirmed = k[2]
      BY <2>1, <2>3 DEF F!Flush
    <2>5. flush' = [flush EXCEPT ![f] = x]
      BY <2>2
    <2>6. taken \subseteq taken' /\ taken' \subseteq F!Snapshot /\ (k[2] => v \in taken')
      BY <1>1, <2>1, <2>2, <2>3
    <2> HIDE DEF x
    <2>7. flush' \in [Flusher -> F!Flush] /\ \A g \in Flusher : FlushIsTrue(g)'
      BY <1>1, <1>3, <2>1, <2>4, <2>5, <2>6
    <2>8. F!TypeOK'
      BY <1>1, <1>2, <2>1, <2>6, <2>7 DEF F!TypeOK, F!Snapshot, F!Flush, F!Idle, F!Writer
    <2>9. QED
      BY <1>2, <2>1, <2>6, <2>7, <2>8 DEF FactInv, F!FactsSound, F!DeletedWasTaken,
         F!DeadWasExpired, F!SavedIsJournalled, F!Snapshot
  <1>7. CASE F!Settle(f)
    <2>1. /\ flush[f].at = "answered" /\ v \in F!Snapshot /\ v <= verified
          /\ flush[f].expired \in BOOLEAN /\ (flush[f].expired => life[v] = 0)
          /\ (flush[f].confirmed => v \in taken)
          /\ flush' = [flush EXCEPT ![f] = F!Idle] /\ UNCHANGED <<lapses, taken>>
      BY <1>1, <1>7, FlushFields DEF F!Settle, FactInv, FlushIsTrue
    <2>2. flush' \in [Flusher -> F!Flush] /\ \A g \in Flusher : FlushIsTrue(g)'
      BY <1>1, <1>3, <1>4, <2>1
    <2>3. /\ row' \in [F!Snapshot -> {"none", "pending", "dead", "deleted"}]
          /\ owner' \in [F!Snapshot -> Flusher \cup {NoFlusher}]
          /\ leased' \in [F!Snapshot -> 0 .. Lease] /\ backoff' \in [F!Snapshot -> 0 .. 1]
          /\ \A u \in F!Snapshot :
                \/ row'[u] = row[u]
                \/ /\ u = v /\ row'[u] \in {"pending", "dead", "deleted"}
                   /\ row'[u] = "dead" => life[v] = 0
                   /\ row'[u] = "deleted" => v \in taken
      <3>1. CASE UNCHANGED <<row, owner, leased, backoff>>
        BY <1>1, <3>1
      <3>2. CASE /\ owner' = [owner EXCEPT ![v] = NoFlusher] /\ leased' = [leased EXCEPT ![v] = 0]
                 /\ flush[f].confirmed /\ row' = [row EXCEPT ![v] = "deleted"] /\ UNCHANGED backoff
        BY <1>1, <2>1, <3>2
      <3>3. CASE /\ owner' = [owner EXCEPT ![v] = NoFlusher] /\ leased' = [leased EXCEPT ![v] = 0]
                 /\ row' = [row EXCEPT ![v] = F!AfterFailure(flush[f].expired)]
                 /\ backoff' = [backoff EXCEPT ![v] = 1]
        <4> DEFINE y == F!AfterFailure(flush[f].expired)
        <4>1. y \in {"pending", "dead"} /\ (y = "dead" => life[v] = 0)
          BY <2>1 DEF F!AfterFailure
        <4>2. row' = [row EXCEPT ![v] = y]
          BY <3>3
        <4> HIDE DEF y
        <4>3. QED
          BY <1>1, <2>1, <3>3, <4>1, <4>2
      <3>4. QED
        BY <1>7, <3>1, <3>2, <3>3 DEF F!Settle, F!facts
    <2>4. F!TypeOK'
      BY <1>1, <1>2, <2>1, <2>2, <2>3 DEF F!TypeOK, F!Snapshot, F!Flush, F!Idle, F!Writer
    <2>5. F!DeletedWasTaken' /\ F!DeadWasExpired'
      BY <1>2, <2>1, <2>3 DEF FactInv, F!FactsSound, F!DeletedWasTaken, F!DeadWasExpired, F!Snapshot
    <2>6. F!SavedIsJournalled'
      <3>1. saved \in 0 .. LastFact /\ (saved # 0 => row[saved] # "none")
        BY DEF FactInv, F!FactsSound, F!SavedIsJournalled, F!TypeOK
      <3>2. saved # 0 => saved \in F!Snapshot
        BY <1>1, <3>1 DEF F!Snapshot
      <3>3. saved # 0 => row'[saved] # "none"
        BY <2>3, <3>1, <3>2
      <3>4. QED
        BY <1>2, <3>3 DEF F!SavedIsJournalled
    <2>7. \A u \in F!Snapshot : row'[u] # "none" => u <= verified
      BY <2>1, <2>3 DEF FactInv
    <2>8. QED
      BY <1>2, <2>2, <2>4, <2>5, <2>6, <2>7 DEF FactInv, F!FactsSound, F!Snapshot
  <1>8. CASE F!Die(f)
    <2>1. /\ flush' = [flush EXCEPT ![f] = F!Idle] /\ lapses' = lapses + 1 /\ lapses < MaxLapses
          /\ UNCHANGED <<row, owner, leased, backoff, taken>>
      BY <1>8 DEF F!Die, F!facts
    <2>2. flush' \in [Flusher -> F!Flush] /\ \A g \in Flusher : FlushIsTrue(g)'
      BY <1>1, <1>3, <1>4, <2>1
    <2>3. F!TypeOK'
      <3>1. lapses \in 0 .. MaxLapses /\ MaxLapses \in Nat
        BY <1>1, <1>2
      <3>2. lapses' \in 0 .. MaxLapses
        BY <2>1, <3>1
      <3>3. QED
        BY <1>2, <2>1, <2>2, <3>2 DEF FactInv, F!FactsSound, F!TypeOK
    <2>4. F!FactsSound'
      <3>1. F!DeletedWasTaken' /\ F!DeadWasExpired'
        BY <1>2, <2>1 DEF FactInv, F!FactsSound, F!DeletedWasTaken, F!DeadWasExpired, F!Snapshot
      <3>2. F!SavedIsJournalled'
        BY <1>2, <2>1 DEF FactInv, F!FactsSound, F!SavedIsJournalled
      <3>3. QED
        BY <2>3, <3>1, <3>2 DEF F!FactsSound
    <2>5. QED
      BY <1>2, <2>1, <2>2, <2>4 DEF FactInv, F!Snapshot
  <1>9. QED
    BY <1>5, <1>6, <1>7, <1>8

LEMMA TickKeepsFacts == FactInv /\ F!Tick => FactInv'
  <1> SUFFICES ASSUME FactInv, F!Tick PROVE FactInv'
    OBVIOUS
  <1>1. /\ F!TypeOK /\ lapses \in 0 .. MaxLapses /\ MaxLapses \in Nat
        /\ Lease \in Nat /\ Life \in Nat
        /\ leased \in [F!Snapshot -> 0 .. Lease] /\ backoff \in [F!Snapshot -> 0 .. 1]
        /\ life \in [F!Snapshot -> 0 .. Life]
    <2>1. F!FactAssumption
      BY MessagesAssumption DEF MessagesAssumption
    <2>2. QED
      BY <2>1 DEF FactInv, F!FactsSound, F!TypeOK, F!FactAssumption
  <1>2. UNCHANGED <<verified, saved, writer, ended, row, owner, flush, taken>>
    BY DEF F!Tick, F!call
  <1>3. ASSUME NEW N \in Nat, NEW k \in 0 .. N
        PROVE  F!Less(k) \in 0 .. N /\ (k = 0 => F!Less(k) = 0)
    BY DEF F!Less
  <1>4. /\ leased' \in [F!Snapshot -> 0 .. Lease] /\ backoff' \in [F!Snapshot -> 0 .. 1]
        /\ life' \in [F!Snapshot -> 0 .. Life]
        /\ \A v \in F!Snapshot : life[v] = 0 => life'[v] = 0
    BY <1>1, <1>3 DEF F!Tick
  <1>5. lapses' \in 0 .. MaxLapses
    BY <1>1 DEF F!Tick
  <1>6. F!TypeOK'
    BY <1>1, <1>2, <1>4, <1>5 DEF F!TypeOK, F!Snapshot, F!Flush, F!Idle, F!Writer
  <1>7. \A f \in Flusher : FlushIsTrue(f)'
    BY <1>1, <1>2, <1>4, FlushFields DEF FactInv, FlushIsTrue
  <1>8. QED
    BY <1>2, <1>4, <1>6, <1>7 DEF FactInv, F!FactsSound, F!DeletedWasTaken, F!DeadWasExpired,
       F!SavedIsJournalled, F!Snapshot

LEMMA FactStep == FactInv /\ [F!Next]_facts => FactInv'
  <1> SUFFICES ASSUME FactInv, [F!Next]_facts PROVE FactInv'
    OBVIOUS
  <1>1. CASE UNCHANGED facts
    <2>1. \A f \in Flusher : FlushIsTrue(f)'
      BY <1>1 DEF FactInv, FlushIsTrue, facts
    <2>2. QED
      BY <1>1, <2>1 DEF facts, FactInv, F!FactsSound, F!TypeOK, F!DeletedWasTaken,
         F!DeadWasExpired, F!SavedIsJournalled, F!Snapshot, F!Flush, F!Idle, F!Writer
  <1>2. QED
    BY <1>1, CallStep, FlushStep, TickKeepsFacts DEF F!Next, F!Step
-----------------------------------------------------------------------------
(***************************************************************************)
(* CallSession.  Nothing is said, told or written before the pipeline runs;*)
(* a conversation goes on short of the limits that end it; what comes after*)
(* the row of the call comes with it, and with its lead.                   *)
(***************************************************************************)
Voice == [greeting : S!Greeting, timer : BOOLEAN, silences : 0 .. SilenceEnd,
          failures : 0 .. RenewEnd, turns : 0 .. MaxTurns, ending : BOOLEAN,
          elapsed : 0 .. Duration]
Told == [events : SUBSET {"call", "ended", "complete"}, turns : SUBSET (0 .. MaxTurns - 1)]
Memory == [loaded : SUBSET {"summary", "topics"}, row : SUBSET {"summary", "topics"}]

Within(v) == ~v.ending => v.silences < SilenceEnd /\ v.failures < RenewEnd
GoesOn(v, t) ==
    session.dashboard /\ ~v.ending =>
        /\ t.turns = 0 .. v.turns - 1
        /\ v.greeting # "awaited" => "call" \in t.events
Early == {"none", "waiting", "prepared"}
Fresh == voice.greeting = "awaited" /\ voice.turns = 0 /\ told.turns = {} /\ after = {}

SessionInv ==
    /\ S!SessionSound /\ Within(voice)
    /\ stream \in Early => Fresh
    /\ stream \in {"recorded", "chunked"} => "row" \in after
    /\ stream \in {"recorded", "chunked", "analysed"} => caller = "lead"

LEMMA SessionInit == S!SessionAssumption /\ S!Init => SessionInv
  <1> SUFFICES ASSUME S!SessionAssumption, S!Init PROVE SessionInv
    OBVIOUS
  <1>1. SilenceEnd \in Nat \ {0} /\ RenewEnd \in Nat \ {0} /\ Duration \in Nat /\ MaxTurns \in Nat
    BY DEF S!SessionAssumption
  <1>2. voice \in Voice /\ Within(voice) /\ voice.greeting = "awaited" /\ voice.turns = 0
    BY <1>1 DEF S!Init, S!Quiet, S!Greeting, Voice, Within
  <1>3. memory \in Memory /\ session \in [outbound : BOOLEAN, dashboard : BOOLEAN]
        /\ told \in Told /\ told.turns = {}
    BY DEF S!Init, Memory, Told
  <1>4. S!TypeOK
    BY <1>2, <1>3 DEF S!Init, S!TypeOK, S!Contexts, S!Stage, Voice, Told, Memory
  <1>5. stream = "none" /\ after = {}
    BY DEF S!Init
  <1>6. QED
    BY <1>2, <1>3, <1>4, <1>5 DEF SessionInv, Fresh, S!SessionSound, S!GoesOnJournalled, S!Running,
       S!DerivedHasRow, S!ContextGoesWithCall

LEMMA SessionTypes ==
    ASSUME SessionInv
    PROVE  /\ session \in [outbound : BOOLEAN, dashboard : BOOLEAN]
           /\ shelf \in S!Contexts /\ caller \in S!Contexts /\ loader \in {"idle", "loading", "done"}
           /\ stream \in S!Stage /\ voice \in Voice
           /\ told \in Told /\ after \subseteq S!Works /\ memory \in Memory
           /\ SilenceEnd \in Nat \ {0} /\ RenewEnd \in Nat \ {0} /\ Duration \in Nat /\ MaxTurns \in Nat
           /\ stream = "running" => GoesOn(voice, told)
  <1>1. S!SessionAssumption
    BY MessagesAssumption DEF MessagesAssumption
  <1>2. SilenceEnd \in Nat \ {0} /\ RenewEnd \in Nat \ {0} /\ Duration \in Nat /\ MaxTurns \in Nat
    BY <1>1 DEF S!SessionAssumption
  <1>3. stream = "running" => GoesOn(voice, told)
    BY DEF SessionInv, S!SessionSound, S!GoesOnJournalled, S!Running, GoesOn
  <1>4. QED
    BY <1>2, <1>3 DEF SessionInv, S!SessionSound, S!TypeOK, Voice, Told, Memory

\* Steps beside the conversation: contexts, the memory, where the handler stands.
LEMMA BesideTheVoice ==
    ASSUME SessionInv, UNCHANGED <<session, voice, after>>,
           shelf' \in S!Contexts, caller' \in S!Contexts, loader' \in {"idle", "loading", "done"},
           stream' \in S!Stage, told' \in Told, memory' \in Memory,
           stream' \in Early => stream \in Early /\ UNCHANGED told,
           stream' = "running" => stream \in Early \cup {"running"} /\ UNCHANGED told,
           caller' = caller \/ stream \in Early,
           stream' \in {"recorded", "chunked", "analysed"} => stream = stream' /\ caller' = caller,
           stream' = "closed" /\ shelf' # "none" => loader' = "done"
    PROVE  SessionInv'
  <1>1. S!TypeOK'
    BY SessionTypes DEF S!TypeOK, Voice, Told, Memory, S!Contexts, S!Stage, S!Works
  <1>2. S!GoesOnJournalled'
    <2>1. CASE stream' = "running" /\ stream = "running"
      BY <2>1 DEF SessionInv, S!SessionSound, S!GoesOnJournalled, S!Running
    <2>2. CASE stream' = "running" /\ stream \in Early
      <3>1. told'.turns = {} /\ voice'.turns = 0 /\ voice'.greeting = "awaited"
        BY <2>2 DEF SessionInv, Fresh
      <3>2. 0 .. 0 - 1 = {}
        OBVIOUS
      <3>3. QED
        BY <3>1, <3>2 DEF S!GoesOnJournalled
    <2>3. CASE stream' # "running"
      BY <2>3 DEF S!GoesOnJournalled, S!Running
    <2>4. QED
      BY <2>1, <2>2, <2>3
  <1>3. S!DerivedHasRow' /\ S!ContextGoesWithCall'
    BY DEF SessionInv, Fresh, S!SessionSound, S!DerivedHasRow, S!ContextGoesWithCall
  <1>4. (stream \in Early => Fresh)' /\ Within(voice)'
    BY DEF SessionInv, Fresh, Within
  <1>5. QED
    BY <1>1, <1>2, <1>3, <1>4 DEF SessionInv, S!SessionSound

\* Steps of the conversation and of its end.
LEMMA OfTheVoice ==
    ASSUME SessionInv, UNCHANGED <<session, shelf, caller, loader, memory, after>>,
           stream \notin Early, stream' \in {stream, "ended"},
           voice' \in Voice, Within(voice'), told' \in Told,
           stream' = "running" => GoesOn(voice', told')
    PROVE  SessionInv'
  <1>1. S!TypeOK'
    BY SessionTypes DEF S!TypeOK, Voice, Told, Memory, S!Contexts, S!Stage, S!Works
  <1>2. S!GoesOnJournalled'
    BY DEF S!GoesOnJournalled, S!Running, GoesOn
  <1>3. stream' \notin Early /\ Within(voice)'
    BY DEF Early, Within
  <1>4. QED
    BY <1>1, <1>2, <1>3 DEF SessionInv, S!SessionSound, S!DerivedHasRow, S!ContextGoesWithCall

\* Steps of the work after the call.
LEMMA AfterTheVoice ==
    ASSUME SessionInv, UNCHANGED <<session, shelf, caller, loader, voice, told>>,
           stream' \in S!Stage \ (Early \cup {"running", "closed"}),
           after \subseteq after', after' \subseteq S!Works, memory' \in Memory,
           stream' \in {"recorded", "chunked"} => "row" \in after',
           stream' \in {"recorded", "chunked", "analysed"} => caller = "lead",
           after' \ after \subseteq {"row"} \/ caller = "lead",
           {"chunks", "disposition", "workflow"} \cap (after' \ after) # {} => "row" \in after'
    PROVE  SessionInv'
  <1>1. S!TypeOK'
    BY SessionTypes DEF S!TypeOK, Voice, Told, Memory, S!Contexts, S!Stage, S!Works
  <1>2. S!GoesOnJournalled' /\ S!ContextGoesWithCall' /\ stream' \notin Early
    BY DEF S!GoesOnJournalled, S!Running, S!ContextGoesWithCall
  <1>3. S!DerivedHasRow'
    BY DEF SessionInv, S!SessionSound, S!DerivedHasRow
  <1>4. QED
    BY <1>1, <1>2, <1>3 DEF SessionInv, S!SessionSound, Within

\* What the outbox takes of an event.
LEMMA Telling ==
    ASSUME SessionInv, NEW ok \in BOOLEAN, NEW event \in {"call", "ended", "complete"},
           S!Tells(ok, event)
    PROVE  /\ told' \in Told /\ told'.turns = told.turns /\ told.events \subseteq told'.events
           /\ ok /\ session.dashboard => event \in told'.events
  <1> DEFINE E1 == told.events \cup {event}
             x == [told EXCEPT !.events = E1]
  <1>1. told \in Told /\ E1 \in SUBSET {"call", "ended", "complete"}
    BY SessionTypes DEF Told
  <1>2. x \in Told /\ x.turns = told.turns /\ x.events = E1
    BY <1>1 DEF Told
  <1>3. told' = IF ok /\ session.dashboard THEN x ELSE told
    BY <1>1 DEF S!Tells, S!Taken, Told
  <1> HIDE DEF x
  <1>4. QED
    BY <1>1, <1>2, <1>3

LEMMA SessionStands ==
    ASSUME SessionInv, UNCHANGED <<session, shelf, loader, stream, caller, voice, told, after, memory>>
    PROVE  SessionInv'
  <1>1. S!TypeOK'
    BY SessionTypes DEF S!TypeOK, Voice, Told, Memory, S!Contexts, S!Stage, S!Works
  <1>2. QED
    BY <1>1 DEF SessionInv, Fresh, Within, S!SessionSound, S!GoesOnJournalled, S!Running,
       S!DerivedHasRow, S!ContextGoesWithCall

LEMMA ContextStep ==
    ASSUME SessionInv,
           \/ S!Inbound \/ \E found \in S!Found : S!Preload(found)
           \/ \E ok \in BOOLEAN : S!Accept(ok)
           \/ S!TakeContext \/ \E read \in S!Found : S!BuildContext(read)
           \/ S!SetUp \/ S!FailSetUp \/ S!EarlierCall \/ S!Close \/ S!Status
           \/ \E ok \in BOOLEAN : S!Journal(ok)
           \/ \E ok \in BOOLEAN : S!Remember(ok)
    PROVE  SessionInv'
  <1>1. memory \in Memory /\ UNCHANGED <<session, voice, after>>
    BY SessionTypes DEF S!Inbound, S!Preload, S!Accept, S!TakeContext, S!BuildContext, S!SetUp, S!FailSetUp,
       S!EarlierCall, S!Close, S!Status, S!Journal, S!Remember, S!kept
  <1>2. ASSUME NEW read \in S!Contexts PROVE S!Loads(read) \in Memory
    <2>1. (IF read = "lead" THEN memory.row ELSE {}) \in SUBSET {"summary", "topics"}
      BY <1>1 DEF Memory
    <2>2. QED
      BY <1>1, <2>1 DEF S!Loads, Memory
  <1>3. S!Found \subseteq S!Contexts /\ {"none", "cold"} \subseteq S!Contexts
    BY DEF S!Found, S!Contexts
  <1>4. CASE S!Inbound
    BY <1>1, <1>4, SessionTypes, BesideTheVoice DEF S!Inbound, Early
  <1>5. ASSUME NEW found \in S!Found, S!Preload(found) PROVE SessionInv'
    BY <1>1, <1>3, <1>5, SessionTypes, BesideTheVoice DEF S!Preload, Early
  <1>6. ASSUME NEW ok \in BOOLEAN, S!Accept(ok) PROVE SessionInv'
    <2>1. /\ stream = "none" /\ stream' \in {"waiting", "closed"} /\ shelf' \in {shelf, "none"}
          /\ stream' = "closed" => shelf' = "none"
          /\ UNCHANGED <<caller, loader, told, memory>>
      BY <1>6 DEF S!Accept, S!kept
    <2>2. QED
      BY <1>1, <1>3, <2>1, SessionTypes, BesideTheVoice DEF S!Stage, Early
  <1>7. CASE S!TakeContext
    <2>1. /\ caller' \in {shelf, "cold"} /\ shelf' = caller' /\ memory' = S!Loads(caller')
          /\ stream = "waiting" /\ stream' = "prepared" /\ UNCHANGED <<loader, told>>
      BY <1>7 DEF S!TakeContext
    <2>2. caller' \in S!Contexts
      BY <1>3, <2>1, SessionTypes
    <2>3. memory' \in Memory
      BY <1>2, <2>1, <2>2
    <2>4. QED
      BY <1>1, <2>1, <2>2, <2>3, SessionTypes, BesideTheVoice DEF S!Stage, Early
  <1>8. ASSUME NEW read \in S!Found, S!BuildContext(read) PROVE SessionInv'
    <2>1. /\ caller' = read /\ shelf' = read /\ memory' = S!Loads(read)
          /\ stream = "waiting" /\ stream' = "prepared" /\ UNCHANGED <<loader, told>>
      BY <1>8 DEF S!BuildContext
    <2>2. memory' \in Memory
      BY <1>2, <1>3, <2>1
    <2>3. QED
      BY <1>1, <1>3, <2>1, <2>2, SessionTypes, BesideTheVoice DEF S!Stage, Early
  <1>9. CASE S!EarlierCall
    <2>1. memory' = [memory EXCEPT !.row = memory.row \cup {"topics"}]
          /\ UNCHANGED <<shelf, loader, stream, caller, told>>
      BY <1>1, <1>9 DEF S!EarlierCall
    <2>2. memory.row \cup {"topics"} \in SUBSET {"summary", "topics"}
      BY <1>1 DEF Memory
    <2>3. memory' \in Memory
      BY <1>1, <2>1, <2>2 DEF Memory
    <2>4. stream' = "closed" /\ shelf' # "none" => loader' = "done"
      BY <2>1 DEF SessionInv, S!SessionSound, S!ContextGoesWithCall
    <2>5. QED
      BY <1>1, <2>1, <2>3, <2>4, SessionTypes, BesideTheVoice
  <1>10. CASE S!Close
    <2>1. stream = "disposed" /\ stream' = "closed" /\ shelf' = "none"
          /\ UNCHANGED <<caller, told, loader, memory>>
      BY <1>10 DEF S!Close, S!Proceeds, S!kept
    <2>2. QED
      BY <1>1, <1>3, <2>1, SessionTypes, BesideTheVoice DEF S!Stage, Early
  <1>11. CASE S!Status
    <2>1. shelf' = "none" /\ UNCHANGED <<stream, caller, told, loader, memory>>
      BY <1>11 DEF S!Status, S!kept
    <2>2. QED
      BY <1>1, <1>3, <2>1, SessionTypes, BesideTheVoice
  <1>12. ASSUME NEW ok \in BOOLEAN, S!Journal(ok) PROVE SessionInv'
    <2>1. /\ stream' = "journalled" /\ S!Tells(ok, "complete")
          /\ UNCHANGED <<shelf, caller, loader, memory>>
      BY <1>12 DEF S!Journal, S!Proceeds, S!kept
    <2>2. told' \in Told
      BY <2>1, Telling
    <2>3. QED
      BY <1>1, <2>1, <2>2, SessionTypes, BesideTheVoice DEF S!Stage, Early
  <1>13. ASSUME NEW ok \in BOOLEAN, S!Remember(ok) PROVE SessionInv'
    <2>1. /\ stream' = "remembered" /\ UNCHANGED <<shelf, caller, loader, told>>
          /\ memory' \in {memory, [memory EXCEPT !.row = memory.loaded \cup {"summary"}]}
      BY <1>13 DEF S!Remember, S!Proceeds
    <2>2. memory.loaded \cup {"summary"} \in SUBSET {"summary", "topics"}
      BY <1>1 DEF Memory
    <2>3. memory' \in Memory
      BY <1>1, <2>1, <2>2 DEF Memory
    <2>4. QED
      BY <1>1, <2>1, <2>3, SessionTypes, BesideTheVoice DEF S!Stage, Early
  <1>14. CASE S!SetUp
    <2>1. stream = "prepared" /\ stream' = "running" /\ UNCHANGED <<shelf, caller, told, loader, memory>>
      BY <1>14 DEF S!SetUp, S!kept
    <2>2. QED
      BY <1>1, <2>1, SessionTypes, BesideTheVoice DEF S!Stage, Early
  <1>15. CASE S!FailSetUp
    <2>1. /\ stream \in Early /\ stream' = "closed" /\ shelf' = "none"
          /\ UNCHANGED <<caller, told, loader, memory>>
      BY <1>15 DEF S!FailSetUp, S!kept, Early
    <2>2. QED
      BY <1>1, <1>3, <2>1, SessionTypes, BesideTheVoice DEF S!Stage, Early
  <1>16. QED
    BY <1>4, <1>5, <1>6, <1>7, <1>8, <1>9, <1>10, <1>11, <1>12, <1>13, <1>14, <1>15

\* The numbers up to k, and the one after them.
LEMMA OneMore ==
    ASSUME NEW k \in Nat
    PROVE  (0 .. k - 1) \cup {k} = 0 .. (k + 1) - 1
  <1>1. \A i \in Int : (0 <= i /\ i <= k - 1) \/ i = k <=> 0 <= i /\ i <= (k + 1) - 1
    OBVIOUS
  <1>2. QED
    BY <1>1

LEMMA ConversationStep ==
    ASSUME SessionInv,
           \/ \E ok \in BOOLEAN : S!Connect(ok) \/ S!Renew(ok) \/ S!HangUp(ok)
           \/ \E ok \in BOOLEAN, ends \in {"no", "phrase", "tool"} : S!Turn(ok, ends)
           \/ S!BotStops \/ S!UserStarts \/ S!Silence \/ S!EndFrame \/ S!TimeLimit \/ S!Tick
    PROVE  SessionInv'
  <1>1. /\ voice \in Voice /\ stream \in S!Stage /\ Within(voice)
        /\ told \in Told /\ (stream = "running" => GoesOn(voice, told))
        /\ SilenceEnd \in Nat \ {0} /\ RenewEnd \in Nat \ {0} /\ Duration \in Nat /\ MaxTurns \in Nat
    BY SessionTypes DEF SessionInv
  <1>2. ASSUME S!Running, NEW v \in Voice, S!Talks(v), Within(v),
               v.greeting = voice.greeting, v.turns = voice.turns
        PROVE  SessionInv'
    <2>1. /\ stream \notin Early /\ stream' = stream /\ voice' = v
          /\ UNCHANGED <<session, shelf, caller, loader, memory, after, told>>
          /\ stream = "running" /\ ~voice.ending
      BY <1>2 DEF S!Running, S!Talks, S!kept, Early
    <2>2. GoesOn(voice', told')
      BY <1>1, <1>2, <2>1 DEF GoesOn
    <2>3. QED
      BY <1>1, <1>2, <2>1, <2>2, OfTheVoice
  <1>3. ASSUME S!Stops, UNCHANGED <<session, shelf, caller, loader, memory, after>>,
               told' \in Told
        PROVE  SessionInv'
    <2> DEFINE v == [S!Quiet EXCEPT !.greeting = voice.greeting, !.turns = voice.turns]
    <2>1. voice.greeting \in S!Greeting /\ voice.turns \in 0 .. MaxTurns
      BY <1>1 DEF Voice
    <2>2. v \in Voice
      <3>1. 0 \in 0 .. SilenceEnd /\ 0 \in 0 .. RenewEnd /\ 0 \in 0 .. Duration
        BY <1>1
      <3>2. QED
        BY <2>1, <3>1 DEF S!Quiet, Voice
    <2>3. v.silences = 0 /\ v.failures = 0
      BY DEF S!Quiet
    <2>4. voice' = v /\ stream = "running" /\ stream' = "ended"
      BY <1>3 DEF S!Stops
    <2> HIDE DEF v
    <2>5. Within(v)
      BY <1>1, <2>3 DEF Within
    <2>6. QED
      BY <1>3, <2>2, <2>3, <2>4, <2>5, OfTheVoice DEF Early
  <1>4. ASSUME NEW ok \in BOOLEAN, S!Connect(ok) PROVE SessionInv'
    <2>1. /\ stream \notin Early /\ stream' = stream /\ S!Tells(ok, "call")
          /\ UNCHANGED <<session, shelf, caller, loader, memory, after>>
      BY <1>4 DEF S!Connect, S!kept, Early
    <2>2. /\ told' \in Told /\ told'.turns = told.turns
          /\ ok /\ session.dashboard => "call" \in told'.events
      BY <2>1, Telling
    <2>3. CASE S!Journalled(ok)
      <3> DEFINE v == [voice EXCEPT !.greeting = "opener"]
      <3>1. /\ v \in Voice /\ v.ending = voice.ending /\ v.silences = voice.silences
            /\ v.failures = voice.failures /\ v.turns = voice.turns
        BY <1>1 DEF Voice, S!Greeting
      <3>2. voice' = v
        BY <1>4, <2>3 DEF S!Connect
      <3> HIDE DEF v
      <3>3. Within(v)
        BY <1>1, <3>1 DEF Within
      <3>4. stream' = "running" => GoesOn(v, told')
        BY <1>1, <2>1, <2>2, <2>3, <3>1 DEF GoesOn, S!Journalled
      <3>5. QED
        BY <1>1, <2>1, <2>2, <3>1, <3>2, <3>3, <3>4, OfTheVoice
    <2>4. CASE ~S!Journalled(ok)
      <3> DEFINE e == voice.ending \/ stream = "running"
                 v == [voice EXCEPT !.greeting = "apology", !.ending = e]
      <3>1. e \in BOOLEAN
        BY <1>1 DEF Voice
      <3>2. /\ v \in Voice /\ v.ending = e /\ v.silences = voice.silences
            /\ v.failures = voice.failures
        BY <1>1, <3>1 DEF Voice, S!Greeting
      <3>3. voice' = v
        BY <1>1, <1>4, <2>4 DEF S!Connect, Voice
      <3> HIDE DEF v
      <3>4. Within(v)
        BY <1>1, <3>1, <3>2 DEF Within
      <3>5. stream' = "running" => GoesOn(v, told')
        BY <2>1, <3>2 DEF GoesOn
      <3>6. QED
        BY <1>1, <2>1, <2>2, <3>2, <3>3, <3>4, <3>5, OfTheVoice
    <2>5. QED
      BY <2>3, <2>4
  <1>5. ASSUME NEW ok \in BOOLEAN, S!Renew(ok) PROVE SessionInv'
    <2> DEFINE e == voice.failures + 1 >= RenewEnd
               v == [voice EXCEPT !.failures = 0]
               u == [voice EXCEPT !.failures = voice.failures + 1, !.ending = e]
    <2>1. S!Running /\ ~voice.ending /\ (S!Talks(v) \/ S!Talks(u))
      BY <1>1, <1>5 DEF S!Renew, S!Running, Voice
    <2>2. voice.failures \in Nat /\ voice.failures < RenewEnd /\ voice.silences < SilenceEnd
      BY <1>1, <2>1 DEF Within, Voice
    <2>3. v \in Voice /\ Within(v) /\ v.greeting = voice.greeting /\ v.turns = voice.turns
      BY <1>1, <2>2 DEF Voice, Within
    <2>4. /\ u.failures = voice.failures + 1 /\ u.silences = voice.silences
          /\ u.ending = e /\ u.greeting = voice.greeting /\ u.turns = voice.turns
      BY <1>1 DEF Voice
    <2>5. u \in Voice
      <3>1. voice.failures + 1 \in 0 .. RenewEnd /\ e \in BOOLEAN
        BY <1>1, <2>2
      <3>2. QED
        BY <1>1, <3>1 DEF Voice
    <2> HIDE DEF u, v
    <2>6. ~e => voice.failures + 1 < RenewEnd
      BY <1>1, <2>2
    <2> HIDE DEF e
    <2>7. Within(u)
      BY <2>2, <2>4, <2>6 DEF Within
    <2>8. QED
      BY <1>2, <2>1, <2>3, <2>4, <2>5, <2>7
  <1>6. ASSUME NEW ok \in BOOLEAN, S!HangUp(ok) PROVE SessionInv'
    <2>1. /\ S!Stops /\ UNCHANGED <<session, shelf, caller, loader, memory, after>>
          /\ S!Tells(ok, "ended")
      BY <1>6 DEF S!HangUp, S!kept
    <2>2. QED
      BY <1>3, <2>1, Telling
  <1>7. CASE S!EndFrame \/ S!TimeLimit
    BY <1>1, <1>3, <1>7 DEF S!EndFrame, S!TimeLimit, S!kept
  <1>8. CASE S!BotStops
    <2> DEFINE v == [voice EXCEPT !.timer = TRUE]
    <2>1. S!Running /\ S!Talks(v)
      BY <1>8 DEF S!BotStops
    <2>2. v \in Voice /\ Within(v) /\ v.greeting = voice.greeting /\ v.turns = voice.turns
      BY <1>1 DEF Voice, Within
    <2> HIDE DEF v
    <2>3. QED
      BY <1>2, <2>1, <2>2
  <1>9. CASE S!UserStarts
    <2> DEFINE v == [voice EXCEPT !.timer = FALSE, !.silences = 0]
    <2>1. S!Running /\ S!Talks(v)
      BY <1>9 DEF S!UserStarts
    <2>2. v \in Voice
      <3>1. voice \in Voice /\ 0 \in 0 .. SilenceEnd
        BY <1>1
      <3>2. QED
        BY <3>1 DEF Voice
    <2>3. /\ v.greeting = voice.greeting /\ v.turns = voice.turns /\ v.silences = 0 /\ v.ending = voice.ending
          /\ v.failures = voice.failures
      BY <1>1 DEF Voice
    <2> HIDE DEF v
    <2>4. Within(v)
      BY <1>1, <2>3 DEF Within
    <2>5. QED
      BY <1>2, <2>1, <2>2, <2>3, <2>4
  <1>10. CASE S!Silence
    <2> DEFINE e == voice.silences + 1 >= SilenceEnd
               v == [voice EXCEPT !.timer = FALSE, !.silences = voice.silences + 1, !.ending = e]
    <2>1. S!Running /\ ~voice.ending /\ S!Talks(v)
      BY <1>1, <1>10 DEF S!Silence, S!Running, Voice
    <2>2. voice.silences \in Nat /\ voice.silences < SilenceEnd /\ voice.failures < RenewEnd
      BY <1>1, <2>1 DEF Within, Voice
    <2>3. voice.silences + 1 \in 0 .. SilenceEnd /\ e \in BOOLEAN
      BY <1>1, <2>2
    <2>4. /\ v \in Voice /\ v.silences = voice.silences + 1 /\ v.failures = voice.failures
          /\ v.ending = e /\ v.greeting = voice.greeting /\ v.turns = voice.turns
      BY <1>1, <2>3 DEF Voice
    <2> HIDE DEF v
    <2>5. ~e => voice.silences + 1 < SilenceEnd
      BY <1>1, <2>2
    <2> HIDE DEF e
    <2>6. Within(v)
      BY <2>2, <2>4, <2>5 DEF Within
    <2>7. QED
      BY <1>2, <2>1, <2>4, <2>6
  <1>11. CASE S!Tick
    <2>1. CASE stream = "running" /\ voice.elapsed < Duration
               /\ S!Talks([voice EXCEPT !.elapsed = voice.elapsed + 1])
      <3> DEFINE v == [voice EXCEPT !.elapsed = voice.elapsed + 1]
      <3>1. voice.elapsed + 1 \in 0 .. Duration
        BY <1>1, <2>1 DEF Voice
      <3>2. v \in Voice /\ v.greeting = voice.greeting /\ v.ending = voice.ending /\ v.turns = voice.turns
            /\ v.silences = voice.silences /\ v.failures = voice.failures
        BY <1>1, <3>1 DEF Voice
      <3>3. S!Talks(v)
        BY <2>1
      <3> HIDE DEF v
      <3>4. /\ stream \notin Early /\ stream' = stream /\ voice' = v /\ Within(v)
            /\ UNCHANGED <<session, shelf, caller, loader, memory, after, told>>
        BY <1>1, <2>1, <3>2, <3>3 DEF S!Talks, S!kept, Early, Within
      <3>5. GoesOn(voice', told')
        BY <1>1, <2>1, <3>2, <3>4 DEF GoesOn
      <3>6. QED
        BY <1>1, <3>2, <3>4, <3>5, OfTheVoice
    <2>2. CASE UNCHANGED S!sessionVars
      <3>1. UNCHANGED <<session, shelf, caller, loader, memory, after, told, voice, stream>>
        BY <2>2 DEF S!sessionVars
      <3>2. QED
        BY <3>1, SessionStands
    <2>3. QED
      BY <1>1, <1>11, <2>1, <2>2 DEF S!Tick, Voice
  <1>12. ASSUME NEW ok \in BOOLEAN, NEW ends \in {"no", "phrase", "tool"}, S!Turn(ok, ends)
         PROVE  SessionInv'
    <2> DEFINE e == \/ voice.ending \/ ~S!Journalled(ok) \/ ends = "phrase"
                    \/ ends = "tool" /\ caller # "lead"
               v == [voice EXCEPT !.turns = voice.turns + 1, !.ending = e]
               t == [told EXCEPT !.turns = told.turns \cup {voice.turns}]
    <2>1. /\ stream = "running" /\ stream' = stream /\ voice.turns < MaxTurns /\ voice' = v
          /\ UNCHANGED <<session, shelf, caller, loader, memory, after>>
          /\ told' = IF ok /\ session.dashboard THEN t ELSE told
      BY <1>1, <1>12 DEF S!Turn, S!kept, S!Taken, Voice, Told
    <2>2. /\ voice.turns \in Nat /\ voice.turns + 1 \in 0 .. MaxTurns /\ e \in BOOLEAN
          /\ voice.turns \in 0 .. MaxTurns - 1
          /\ ~e => ~voice.ending /\ S!Journalled(ok)
      BY <1>1, <2>1 DEF Voice
    <2>3. /\ v \in Voice /\ v.greeting = voice.greeting /\ v.silences = voice.silences
          /\ v.failures = voice.failures /\ v.ending = e /\ v.turns = voice.turns + 1
      BY <1>1, <2>2 DEF Voice
    <2>4. t \in Told /\ t.events = told.events /\ t.turns = told.turns \cup {voice.turns}
      BY <1>1, <2>2 DEF Told
    <2> HIDE DEF v, e, t
    <2>5. told' \in Told /\ Within(v)
      BY <1>1, <2>1, <2>2, <2>3, <2>4 DEF Within
    <2>6. GoesOn(v, told')
      <3> SUFFICES ASSUME session.dashboard, ~v.ending
                   PROVE  /\ told'.turns = 0 .. v.turns - 1
                          /\ v.greeting # "awaited" => "call" \in told'.events
        BY DEF GoesOn
      <3>1. told' = t /\ ~voice.ending
        <4>1. ~e /\ ~voice.ending /\ S!Journalled(ok)
          BY <2>2, <2>3
        <4>2. ok /\ session.dashboard
          BY <4>1 DEF S!Journalled
        <4>3. QED
          BY <2>1, <4>1, <4>2
      <3>2. told.turns = 0 .. voice.turns - 1 /\ (voice.greeting # "awaited" => "call" \in told.events)
        BY <1>1, <2>1, <3>1 DEF GoesOn
      <3>3. (0 .. voice.turns - 1) \cup {voice.turns} = 0 .. (voice.turns + 1) - 1
        BY <2>2, OneMore
      <3>4. QED
        BY <2>3, <2>4, <3>1, <3>2, <3>3
    <2>7. QED
      BY <2>1, <2>3, <2>5, <2>6, OfTheVoice DEF Early
  <1>13. QED
    BY <1>4, <1>5, <1>6, <1>7, <1>8, <1>9, <1>10, <1>11, <1>12

LEMMA WorkStep ==
    ASSUME SessionInv,
           \/ \E answer \in {"row", "none", "error"} : S!Record(answer)
           \/ \E ok \in BOOLEAN : S!Chunk(ok)
           \/ \E answer \in {"none", "saved", "error"} : S!Dispose(answer)
           \/ \E graded, remembered \in BOOLEAN,
                 works \in SUBSET {"intel", "workflow", "digest"} :
                    S!Analyse(graded, works, remembered)
    PROVE  SessionInv'
  <1>1. /\ memory \in Memory /\ after \subseteq S!Works
        /\ stream \in {"recorded", "chunked"} => "row" \in after
        /\ stream \in {"recorded", "chunked", "analysed"} => caller = "lead"
    BY SessionTypes DEF SessionInv
  <1>2. ASSUME NEW answer \in {"row", "none", "error"}, S!Record(answer) PROVE SessionInv'
    <2>1. /\ stream' \in {"disposed", "recorded", "analysed"}
          /\ stream' = "recorded" => answer = "row"
          /\ stream' \in {"recorded", "analysed"} => caller = "lead"
          /\ after' = IF answer = "row" THEN after \cup {"row"} ELSE after
          /\ UNCHANGED <<session, shelf, caller, loader, voice, told, memory>>
      BY <1>2 DEF S!Record, S!kept
    <2>2. after \subseteq after' /\ after' \subseteq S!Works
          /\ (stream' \in {"recorded", "chunked"} => "row" \in after') /\ after' \ after \subseteq {"row"}
      BY <1>1, <2>1 DEF S!Works
    <2>3. QED
      BY <1>1, <2>1, <2>2, AfterTheVoice DEF S!Stage, Early
  <1>3. ASSUME \/ \E ok \in BOOLEAN : S!Chunk(ok)
               \/ \E answer \in {"none", "saved", "error"} : S!Dispose(answer)
        PROVE  SessionInv'
    <2>1. /\ stream \in {"recorded", "chunked"} /\ stream' \in {"disposed", "chunked", "analysed"}
          /\ after' \in {after, after \cup {"chunks"}, after \cup {"disposition"}}
          /\ UNCHANGED <<session, shelf, caller, loader, voice, told, memory>>
      BY <1>3 DEF S!Chunk, S!Dispose, S!kept
    <2>2. after \subseteq after' /\ after' \subseteq S!Works /\ "row" \in after'
      BY <1>1, <2>1 DEF S!Works
    <2>3. QED
      BY <1>1, <2>1, <2>2, AfterTheVoice DEF S!Stage, Early
  <1>4. ASSUME NEW graded \in BOOLEAN, NEW remembered \in BOOLEAN,
               NEW works \in SUBSET {"intel", "workflow", "digest"},
               S!Analyse(graded, works, remembered)
        PROVE  SessionInv'
    <2>1. /\ stream = "analysed" /\ stream' = "disposed" /\ ("row" \in after \/ "workflow" \notin works)
          /\ after' = after \cup works \cup (IF graded THEN {"grade"} ELSE {})
          /\ memory' \in {memory, [memory EXCEPT !.row = memory.row \cup {"topics"}]}
          /\ UNCHANGED <<session, shelf, caller, loader, voice, told>>
      BY <1>4 DEF S!Analyse, S!Possible, S!WithRow
    <2>2. memory.row \cup {"topics"} \in SUBSET {"summary", "topics"}
      BY <1>1 DEF Memory
    <2>3. memory' \in Memory
      BY <1>1, <2>1, <2>2 DEF Memory
    <2>4. after \subseteq after' /\ after' \subseteq S!Works
      BY <1>1, <2>1 DEF S!Works
    <2>5. {"chunks", "disposition", "workflow"} \cap (after' \ after) # {} => "row" \in after'
      BY <2>1
    <2>6. QED
      BY <1>1, <2>1, <2>3, <2>4, <2>5, AfterTheVoice DEF S!Stage, Early
  <1>5. QED
    BY <1>2, <1>3, <1>4

LEMMA SessionStep == SessionInv /\ [S!Next]_stages => SessionInv'
  <1> SUFFICES ASSUME SessionInv, [S!Next]_stages PROVE SessionInv'
    OBVIOUS
  <1>1. CASE UNCHANGED stages
    <2>1. UNCHANGED <<session, shelf, loader, stream, caller, voice, told, after, memory>>
      BY <1>1 DEF stages
    <2>2. QED
      BY <2>1, SessionStands
  <1>2. QED
    BY <1>1, ContextStep, ConversationStep, WorkStep DEF S!Next, S!AfterCall
-----------------------------------------------------------------------------
(***************************************************************************)
(* DashboardOutbox: what a worker sends was claimed for the destination    *)
(* that its process has still.                                             *)
(***************************************************************************)
DestInv ==
    /\ job \in [Worker -> O!Job] /\ dest \in [Worker -> Target]
    /\ O!EventsStayWithTheirDestination

LEMMA DestInit == O!Init => DestInv
  BY DEF O!Init, DestInv, O!Job, O!Idle, O!EventsStayWithTheirDestination

LEMMA DestStep == DestInv /\ [O!Next]_outbox => DestInv'
  <1> SUFFICES ASSUME DestInv, [O!Next]_outbox PROVE DestInv'
    OBVIOUS
  <1>1. CASE UNCHANGED <<job, dest>>
    BY <1>1 DEF DestInv, O!EventsStayWithTheirDestination, O!Job, O!Idle
  <1>2. ASSUME NEW w \in Worker, NEW x \in O!Job, job' = [job EXCEPT ![w] = x],
               dest' \in [Worker -> Target],
               \A v \in Worker : v # w => dest'[v] = dest[v],
               x.stage = "sending" => x.event.target = dest'[w]
        PROVE  DestInv'
    <2>1. /\ job' \in [Worker -> O!Job] /\ job'[w] = x
          /\ \A v \in Worker : v # w => job'[v] = job[v]
      BY <1>2 DEF DestInv
    <2>2. QED
      BY <1>2, <2>1 DEF DestInv, O!EventsStayWithTheirDestination, O!Job, O!Idle
  <1>3. O!Idle \in O!Job /\ O!Idle.stage = "idle"
    BY DEF O!Job, O!Idle
  <1>4. ASSUME NEW w \in Worker, O!ClaimEvent(w) PROVE DestInv'
    <2>1. CASE UNCHANGED job
      BY <1>1, <1>4, <2>1 DEF O!ClaimEvent
    <2>2. ASSUME NEW e \in O!Claimable(dest[w], O!AfterSweep(dest[w])),
                 job' = [job EXCEPT ![w] = [stage |-> "sending", event |-> e]]
          PROVE  DestInv'
      <3> DEFINE x == [stage |-> "sending", event |-> e]
      <3>1. e \in Entry /\ e.target = dest[w]
        BY DEF O!Claimable, O!ForTarget
      <3>2. x \in O!Job /\ x.event = e
        BY <3>1 DEF O!Job
      <3>3. dest' = dest /\ dest \in [Worker -> Target]
        BY <1>4 DEF O!ClaimEvent, DestInv
      <3>4. job' = [job EXCEPT ![w] = x]
        BY <2>2
      <3> HIDE DEF x
      <3>5. QED
        BY <1>2, <3>1, <3>2, <3>3, <3>4
    <2>3. QED
      BY <1>4, <2>1, <2>2 DEF O!ClaimEvent
  <1>5. ASSUME NEW w \in Worker, O!SendEvent(w) PROVE DestInv'
    <2>1. job[w] \in O!Job /\ job[w].stage = "sending" /\ dest' = dest /\ dest \in [Worker -> Target]
      BY <1>5 DEF O!SendEvent, DestInv
    <2>2. job[w].event \in Entry
      BY <2>1 DEF O!Job, O!Idle
    <2>3. PICK outcome \in {"receipt", "retry", "permanent"} :
             job' = [job EXCEPT ![w] = [stage |-> "answered", event |-> job[w].event,
                                        outcome |-> outcome]]
      BY <1>5 DEF O!SendEvent
    <2> DEFINE x == [stage |-> "answered", event |-> job[w].event, outcome |-> outcome]
    <2>4. x \in O!Job /\ x.stage = "answered"
      BY <2>2 DEF O!Job
    <2>5. job' = [job EXCEPT ![w] = x]
      BY <2>3
    <2> HIDE DEF x
    <2>6. QED
      BY <1>2, <2>1, <2>4, <2>5
  <1>6. ASSUME NEW w \in Worker, O!FinishEvent(w) PROVE DestInv'
    <2>1. job' = [job EXCEPT ![w] = O!Idle] /\ dest' = dest /\ dest \in [Worker -> Target]
      BY <1>6 DEF O!FinishEvent, DestInv
    <2>2. QED
      BY <1>2, <1>3, <2>1
  <1>7. ASSUME NEW w \in Worker, NEW t \in Target, O!Restart(w, t) PROVE DestInv'
    <2>1. job' = [job EXCEPT ![w] = O!Idle] /\ dest' = [dest EXCEPT ![w] = t]
      BY <1>7 DEF O!Restart
    <2>2. dest' \in [Worker -> Target] /\ \A v \in Worker : v # w => dest'[v] = dest[v]
      BY <2>1 DEF DestInv
    <2>3. QED
      BY <1>2, <1>3, <2>1, <2>2
  <1>8. QED
    BY <1>1, <1>4, <1>5, <1>6, <1>7 DEF O!Next, O!StageEvent, O!RetryEvent, O!Tick, outbox
-----------------------------------------------------------------------------
(***************************************************************************)
(* The journals side by side: a behaviour runs one of them.                *)
(***************************************************************************)
MessagesInv ==
    /\ part = "intents" => IntentInv
    /\ part = "events" => EventInv
    /\ part = "reviews" => ReplyInv(Review, MaxAttempts, {})
    /\ part = "retries" => ReplyInv(Retried, MaxRetries, Mailer)
    /\ part = "facts" => FactInv
    /\ part = "session" => SessionInv
    /\ part = "outbox" => DestInv

LEMMA MessagesInit == Init => MessagesInv
  <1> SUFFICES ASSUME Init PROVE MessagesInv
    OBVIOUS
  <1>1. /\ E(Review, MaxAttempts, {})!ReplyAssumption /\ E(Retried, MaxRetries, Mailer)!ReplyAssumption
        /\ F!FactAssumption /\ S!SessionAssumption
    BY MessagesAssumption DEF MessagesAssumption
  <1>2. CASE part = "intents" /\ I!Init
    BY <1>2, IntentInit DEF MessagesInv
  <1>3. CASE part = "events" /\ D!Init
    BY <1>3, EventInit DEF MessagesInv
  <1>4. CASE part = "reviews" /\ E(Review, MaxAttempts, {})!Init
    BY <1>1, <1>4, ReplyInit DEF MessagesInv
  <1>5. CASE part = "retries" /\ E(Retried, MaxRetries, Mailer)!Init
    BY <1>1, <1>5, ReplyInit DEF MessagesInv
  <1>6. CASE part = "facts" /\ F!Init
    BY <1>1, <1>6, FactInit DEF MessagesInv
  <1>7. CASE part = "session" /\ S!Init
    BY <1>1, <1>7, SessionInit DEF MessagesInv
  <1>8. CASE part = "outbox" /\ O!Init
    BY <1>8, DestInit DEF MessagesInv
  <1>9. QED
    BY <1>2, <1>3, <1>4, <1>5, <1>6, <1>7, <1>8 DEF Init

LEMMA MessagesStep ==
    MessagesInv /\ [Next]_all
       => /\ MessagesInv'
          /\ part = "events" => D!StatusNeverFallsBack
          /\ part = "reviews" => E(Review, MaxAttempts, {})!VerdictStands
          /\ part = "retries" => E(Retried, MaxRetries, Mailer)!VerdictStands
  <1> SUFFICES ASSUME MessagesInv, [Next]_all
               PROVE  /\ MessagesInv'
                      /\ part = "events" => D!StatusNeverFallsBack
                      /\ part = "reviews" => E(Review, MaxAttempts, {})!VerdictStands
                      /\ part = "retries" => E(Retried, MaxRetries, Mailer)!VerdictStands
    OBVIOUS
  <1>1. E(Review, MaxAttempts, {})!ReplyAssumption /\ E(Retried, MaxRetries, Mailer)!ReplyAssumption
    BY MessagesAssumption DEF MessagesAssumption
  <1>2. part' = part
    BY DEF Next, all
  <1>3. CASE part = "intents"
    <2>1. [I!Next]_intents
      BY <1>3 DEF Next, all
    <2>2. QED
      BY <1>2, <1>3, <2>1, IntentStep DEF MessagesInv
  <1>4. CASE part = "events"
    <2>1. [D!Next]_events
      BY <1>4 DEF Next, all
    <2>2. QED
      BY <1>2, <1>4, <2>1, EventStep, StatusStep DEF MessagesInv
  <1>5. CASE part = "reviews"
    <2>1. [E(Review, MaxAttempts, {})!Next]_mails
      BY <1>5 DEF Next, all
    <2>2. QED
      BY <1>1, <1>2, <1>5, <2>1, ReplyStep DEF MessagesInv
  <1>6. CASE part = "retries"
    <2>1. [E(Retried, MaxRetries, Mailer)!Next]_mails
      BY <1>6 DEF Next, all
    <2>2. QED
      BY <1>1, <1>2, <1>6, <2>1, ReplyStep DEF MessagesInv
  <1>7. CASE part = "facts"
    <2>1. [F!Next]_facts
      BY <1>7 DEF Next, all
    <2>2. QED
      BY <1>2, <1>7, <2>1, FactStep DEF MessagesInv
  <1>8. CASE part = "session"
    <2>1. [S!Next]_stages
      BY <1>8 DEF Next, all
    <2>2. QED
      BY <1>2, <1>8, <2>1, SessionStep DEF MessagesInv
  <1>9. CASE part = "outbox"
    <2>1. [O!Next]_outbox
      BY <1>9 DEF Next, all
    <2>2. QED
      BY <1>2, <1>9, <2>1, DestStep DEF MessagesInv
  <1>10. CASE part \notin {"intents", "events", "reviews", "retries", "facts", "session", "outbox"}
    BY <1>2, <1>10 DEF MessagesInv
  <1>11. QED
    BY <1>3, <1>4, <1>5, <1>6, <1>7, <1>8, <1>9, <1>10

LEMMA MessagesInvariant == Spec => []MessagesInv
  <1>1. MessagesInv /\ [Next]_all => MessagesInv'
    BY MessagesStep
  <1>2. QED
    BY MessagesInit, <1>1, PTL DEF Spec

\* A message is posted at most once, what is reported of it is true and can be traced
\* to its row, and what the delivery journal calls synced the database has, for any
\* number of senders, carriers and messages (lib/db.py, alerts/delivery.py).
THEOREM MessagesAreSound == Spec => []MessagesSound
  <1>1. MessagesInv => MessagesSound
    BY DEF MessagesInv, MessagesSound, IntentInv, EventInv
  <1>2. QED
    BY MessagesInvariant, <1>1, PTL

\* No mail of a sequence goes out past a reply that nobody has reviewed, and a review
\* releases the replies it was made on and no other, for any number of reviews, threads
\* and attempts (alerts/email.py, lib/db.py review_email_resumption).
THEOREM RepliesAreSound == Spec => []RepliesSound
  <1>1. MessagesInv => RepliesSound
    BY DEF MessagesInv, RepliesSound, ReplyInv
  <1>2. QED
    BY MessagesInvariant, <1>1, PTL

\* No confirmed fact is lost between the call and Bob without a trace, and what is kept
\* of a call has the call's row (voice/bob_recovery.py, _handle_call_end).
THEOREM CallsAreSound == Spec => []CallsSound
  <1>1. MessagesInv => CallsSound
    BY DEF MessagesInv, CallsSound, FactInv, SessionInv
  <1>2. QED
    BY MessagesInvariant, <1>1, PTL

\* A row staged for one dashboard is never sent to another, also when a process comes
\* back configured anew (claim_dashboard_event).
THEOREM DestinationsKept == Spec => []EventsStayWithTheirDestination
  <1>1. MessagesInv => EventsStayWithTheirDestination
    BY DEF MessagesInv, EventsStayWithTheirDestination, DestInv
  <1>2. QED
    BY MessagesInvariant, <1>1, PTL

\* The delivery status of a message only moves on to a conflict of receipts, and a
\* verdict on a review stands (apply_delivery_event, review_email_resumption).
THEOREM VerdictsNeverFallBack == Spec => VerdictsStand
  <1>1. MessagesInv /\ [Next]_all
           => [/\ part = "events" => D!StatusNeverFallsBack
               /\ part = "reviews" => E(Review, MaxAttempts, {})!VerdictStands
               /\ part = "retries" => E(Retried, MaxRetries, Mailer)!VerdictStands]_all
    BY MessagesStep
  <1>2. QED
    BY MessagesInvariant, <1>1, PTL DEF Spec, VerdictsStand
=============================================================================
