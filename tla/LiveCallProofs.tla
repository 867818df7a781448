--------------------------- MODULE LiveCallProofs ---------------------------
(***************************************************************************)
(* Theorems about LiveCall: for any threads, packets and utterances, what  *)
(* the tools of a call do and say, and what the model of the call is told. *)
(***************************************************************************)
EXTENDS LiveCall, TLAPS

(***************************************************************************)
(* CallTools.  What a thread has passed says what it was called under: it  *)
(* saw no stop request once resolved, no kill switch once its flags were   *)
(* read.  s is the place of a thread, f the flags, k the database.         *)
(***************************************************************************)
Everyone == Thread \cup {Line}
Resolved == {"resolved", "read", "sanitized", "reread", "granted", "reserved", "waiting"}
Gated == Resolved \ {"resolved"}

PlaceSound(s, f, k) ==
    /\ s \in T!Step
    /\ s.at # "idle" => s.since \subseteq f
    /\ s.at \in Resolved /\ s.tool # "end" => "stop" \notin s.since
    /\ s.at \in Gated /\ s.tool \in T!SideEffect => "killed" \notin s.since
    /\ s.at = "reserved" => "slot" \in k
    /\ s.at = "written" => "dnc" \in k

ThreadsSound == \A t \in Everyone : PlaceSound(thread[t], flag, kept)

\* At most one thread waits for the operator, whose query is then open; silence is reported
\* when the time to answer is over.
QuerySound ==
    /\ \A t, o \in Everyone : thread[t].at = "waiting" /\ thread[o].at = "waiting" => t = o
    /\ \A t \in Everyone : thread[t].at = "waiting" => query.status \in {"pending", "answered"}
    /\ "silence" \in said => query.left = 0

ToolsInv == T!ToolsSound /\ ThreadsSound /\ QuerySound

\* A place that is sound stays so while flags rise and nothing reserved or listed is lost.
LEMMA PlacesStay ==
  ASSUME NEW s, NEW f, NEW g, NEW k, NEW m, PlaceSound(s, f, k), f \subseteq g,
         "slot" \in k => "slot" \in m, "dnc" \in k => "dnc" \in m
  PROVE  PlaceSound(s, g, m)
BY DEF PlaceSound

\* The only field of a thread without a tool is where it stands.
LEMMA IdleIsSound ==
  ASSUME NEW f, NEW k
  PROVE  PlaceSound(T!Idle, f, k) /\ T!Idle.at = "idle" /\ T!Idle \in T!Step
BY DEF PlaceSound, T!Idle, T!Step, Resolved, Gated

\* One thread goes on, or none.
LEMMA ThreadGoes ==
  ASSUME NEW t \in Everyone, NEW s, T!Goes(t, s), thread \in [Everyone -> T!Step], ThreadsSound,
         flag \subseteq flag', "slot" \in kept => "slot" \in kept',
         "dnc" \in kept => "dnc" \in kept', PlaceSound(s, flag', kept')
  PROVE  /\ thread' \in [Everyone -> T!Step] /\ ThreadsSound'
         /\ thread'[t] = s /\ \A o \in Everyone : o # t => thread'[o] = thread[o]
<1>1. s \in T!Step
  BY DEF PlaceSound
<1>2. /\ thread' \in [Everyone -> T!Step]
      /\ thread'[t] = s /\ \A o \in Everyone : o # t => thread'[o] = thread[o]
  BY <1>1 DEF T!Goes
<1>3. ASSUME NEW o \in Everyone
      PROVE  PlaceSound(thread'[o], flag', kept')
  <2>1. CASE o = t
    BY <2>1, <1>2
  <2>2. CASE o # t
    <3>1. PlaceSound(thread[o], flag, kept) /\ thread'[o] = thread[o]
      BY <1>2, <2>2 DEF ThreadsSound
    <3>2. QED
      BY <3>1, PlacesStay
  <2>3. QED
    BY <2>1, <2>2
<1>4. ThreadsSound'
  BY <1>3 DEF ThreadsSound
<1>5. QED
  BY <1>2, <1>4

LEMMA NobodyGoes ==
  ASSUME UNCHANGED thread, thread \in [Everyone -> T!Step], ThreadsSound,
         flag \subseteq flag', "slot" \in kept => "slot" \in kept',
         "dnc" \in kept => "dnc" \in kept'
  PROVE  thread' \in [Everyone -> T!Step] /\ ThreadsSound'
<1>1. ASSUME NEW o \in Everyone
      PROVE  PlaceSound(thread'[o], flag', kept')
  <2>1. PlaceSound(thread[o], flag, kept) /\ thread'[o] = thread[o]
    BY DEF ThreadsSound
  <2>2. QED
    BY <2>1, PlacesStay
<1>2. QED
  BY <1>1 DEF ThreadsSound

\* A step of one thread that leaves the query alone.
LEMMA ToolSteps ==
  ASSUME NEW t \in Everyone, NEW s, ToolsInv, T!Goes(t, s), PlaceSound(s, flag', kept'),
         s.at # "waiting", UNCHANGED <<packet, perms, degraded, calls, query>>,
         flag \subseteq flag', flag' \subseteq T!Flag, kept' \subseteq T!Kept,
         "slot" \in kept => "slot" \in kept', "dnc" \in kept => "dnc" \in kept',
         asked' \subseteq {"conflict", "price"}, said' \subseteq said \cup {"booked", "removed"},
         acted' = {}, T!BookedIsReserved', T!RemovedIsRemoved'
  PROVE  ToolsInv'
<1> USE DEF ToolsInv, T!ToolsSound
<1>1. /\ thread' \in [Everyone -> T!Step] /\ ThreadsSound'
      /\ thread'[t] = s /\ \A o \in Everyone : o # t => thread'[o] = thread[o]
  BY ThreadGoes DEF T!TypeOK, Everyone
<1>2. T!TypeOK'
  <2>1. said' \subseteq {"booked", "removed", "answer", "silence", "late"}
    BY DEF T!TypeOK
  <2>2. QED
    BY <1>1, <2>1 DEF T!TypeOK, Everyone
<1>3. T!NothingAfterStop'
  BY DEF T!NothingAfterStop
<1>4. T!AnswersCount'
  BY DEF T!AnswersCount
<1>5. QuerySound'
  <2>1. \A o \in Everyone : thread'[o].at = "waiting" => thread[o].at = "waiting"
    BY <1>1
  <2>2. QED
    BY <2>1 DEF QuerySound
<1>6. QED
  BY <1>1, <1>2, <1>3, <1>4, <1>5

\* A step of nobody's that leaves the query alone.
LEMMA LoopSteps ==
  ASSUME ToolsInv, UNCHANGED <<degraded, thread, calls, query, kept, asked, said, acted>>,
         flag \subseteq flag', flag' \subseteq flag \cup {"killed"},
         {packet', perms'} \subseteq T!Loaded \cup Packet
  PROVE  ToolsInv'
<1> USE DEF ToolsInv, T!ToolsSound
<1>1. thread' \in [Everyone -> T!Step] /\ ThreadsSound'
  BY NobodyGoes DEF T!TypeOK, Everyone
<1>2. T!TypeOK'
  BY <1>1 DEF T!TypeOK, Everyone, T!Flag
<1>3. T!NothingAfterStop' /\ T!BookedIsReserved' /\ T!RemovedIsRemoved' /\ T!AnswersCount'
  BY DEF T!NothingAfterStop, T!BookedIsReserved, T!RemovedIsRemoved, T!AnswersCount
<1>4. QuerySound'
  BY DEF QuerySound
<1>5. QED
  BY <1>1, <1>2, <1>3, <1>4

\* A thread with a tool has the fields of one, and keeps its tool as it goes on.
LEMMA Places ==
  ASSUME NEW s \in T!Step, s.at # "idle"
  PROVE  /\ s.tool \in T!Tool /\ s.since \subseteq {"stop", "killed"}
         /\ \A stage : /\ T!At(stage, s).at = stage /\ T!At(stage, s).tool = s.tool
                       /\ T!At(stage, s).since = s.since
         /\ \A stage \in {"called", "resolved", "read", "sanitized", "reread", "granted",
                          "reserved", "waiting", "written", "half"} : T!At(stage, s) \in T!Step
<1>1. s \in [at : {"called", "resolved", "read", "sanitized", "reread", "granted", "reserved",
                   "waiting", "written", "half"}, tool : T!Tool, since : SUBSET {"stop", "killed"}]
  BY DEF T!Step, T!Idle
<1>2. s.tool \in T!Tool /\ s.since \subseteq {"stop", "killed"}
  BY <1>1
<1>3. QED
  BY <1>2 DEF T!At, T!Step

\* What has an effect was called under neither flag: it is past both.
LEMMA NothingActs ==
  ASSUME NEW t \in Everyone, ToolsInv, thread[t].at = "granted", thread[t].tool \in T!SideEffect,
         T!Acted(t)
  PROVE  acted' = {}
<1>1. PlaceSound(thread[t], flag, kept)
  BY DEF ToolsInv, ThreadsSound
<1>2. thread[t].since \subseteq {"stop", "killed"}
  BY <1>1, Places DEF PlaceSound
<1>3. thread[t].since = {}
  BY <1>1, <1>2 DEF PlaceSound, Resolved, Gated, T!SideEffect
<1>4. QED
  BY <1>3 DEF T!Acted, ToolsInv, T!ToolsSound, T!NothingAfterStop
-----------------------------------------------------------------------------
(***************************************************************************)
(* The steps of the tools, one lemma for each kind.                        *)
(***************************************************************************)
LEMMA LoopIsSound ==
  ASSUME ToolsInv,
         T!KillSwitch \/ T!RefreshPermissions \/ \E p \in Packet : T!RefreshPacket(p)
  PROVE  ToolsInv'
<1>1. {packet, perms} \subseteq T!Loaded \cup Packet
  BY DEF ToolsInv, T!ToolsSound, T!TypeOK
<1>2. /\ UNCHANGED <<degraded, thread, calls, query, kept, asked, said, acted>>
      /\ flag \subseteq flag' /\ flag' \subseteq flag \cup {"killed"}
      /\ {packet', perms'} \subseteq T!Loaded \cup Packet
  BY <1>1 DEF T!KillSwitch, T!RefreshPermissions, T!RefreshPacket
<1>3. QED
  BY <1>2, LoopSteps

LEMMA StopPhraseIsSound ==
  ASSUME ToolsInv, T!StopPhrase
  PROVE  ToolsInv'
<1> DEFINE s == [at |-> "called", tool |-> "stop", since |-> {}]
<1>1. T!Goes(Line, s) /\ Line \in Everyone
  BY DEF T!StopPhrase, T!Goes, Everyone
<1>2. flag' = flag \cup {"heard"}
      /\ UNCHANGED <<packet, perms, degraded, calls, query, kept, asked, said, acted>>
  BY DEF T!StopPhrase
<1>3. PlaceSound(s, flag', kept') /\ s.at # "waiting"
  BY DEF PlaceSound, T!Step, T!Tool, Resolved, Gated
<1>4. flag \subseteq T!Flag /\ kept \subseteq T!Kept /\ asked \subseteq {"conflict", "price"}
      /\ acted = {}
  BY DEF ToolsInv, T!ToolsSound, T!TypeOK, T!NothingAfterStop
<1>5. T!BookedIsReserved' /\ T!RemovedIsRemoved'
  BY <1>2 DEF ToolsInv, T!ToolsSound, T!BookedIsReserved, T!RemovedIsRemoved
<1>6. flag' \subseteq T!Flag
  BY <1>2, <1>4 DEF T!Flag
<1> HIDE DEF s
<1>7. QED
  BY <1>1, <1>2, <1>3, <1>4, <1>5, <1>6, ToolSteps

LEMMA CallToolIsSound ==
  ASSUME NEW t \in Thread, NEW tool \in T!Tool, NEW owned \in BOOLEAN, NEW clear \in BOOLEAN,
         ToolsInv, T!CallTool(t, tool, owned, clear), MaxCalls \in Nat
  PROVE  ToolsInv'
<1> USE DEF ToolsInv, T!ToolsSound
<1> DEFINE called == [at |-> "called", tool |-> tool, since |-> flag \cap {"stop", "killed"}]
<1>1. PlaceSound(called, flag, kept) /\ called.at # "waiting"
  BY DEF PlaceSound, T!Step, Resolved, Gated
<1>2. PICK s \in {T!Idle, called} : T!Goes(t, s)
  BY DEF T!CallTool
<1> HIDE DEF called
<1>3. PlaceSound(s, flag, kept) /\ s.at # "waiting" /\ t \in Everyone
  BY <1>1, <1>2, IdleIsSound DEF Everyone
<1>4. calls < MaxCalls /\ calls' = calls + 1
      /\ UNCHANGED <<flag, packet, perms, degraded, query, kept, asked, said, acted>>
  BY DEF T!CallTool
<1>5. /\ thread' \in [Everyone -> T!Step] /\ ThreadsSound'
      /\ thread'[t] = s /\ \A o \in Everyone : o # t => thread'[o] = thread[o]
  BY <1>2, <1>3, <1>4, ThreadGoes DEF T!TypeOK, Everyone
<1>6. calls' \in 0 .. MaxCalls
  <2>1. calls \in 0 .. MaxCalls
    BY DEF T!TypeOK
  <2>2. QED
    BY <1>4, <2>1
<1>7. T!TypeOK'
  BY <1>4, <1>5, <1>6 DEF T!TypeOK, Everyone
<1>8. T!NothingAfterStop' /\ T!BookedIsReserved' /\ T!RemovedIsRemoved' /\ T!AnswersCount'
  BY <1>4 DEF T!NothingAfterStop, T!BookedIsReserved, T!RemovedIsRemoved, T!AnswersCount
<1>9. QuerySound'
  <2>1. \A o \in Everyone : thread'[o].at = "waiting" => thread[o].at = "waiting"
    BY <1>5, <1>3
  <2>2. QED
    BY <2>1, <1>4 DEF QuerySound
<1>10. QED
  BY <1>5, <1>7, <1>8, <1>9

\* A tool that is refused, or goes on without an effect.
LEMMA GateSteps ==
  ASSUME NEW t \in Everyone, NEW s, ToolsInv, T!Goes(t, s), PlaceSound(s, flag, kept),
         s.at # "waiting", UNCHANGED <<flag, packet, perms, degraded, calls, query, kept, said>>,
         asked' \subseteq asked \cup {"conflict", "price"}, acted' = {}
  PROVE  ToolsInv'
<1>1. flag \subseteq T!Flag /\ kept \subseteq T!Kept /\ asked \subseteq {"conflict", "price"}
  BY DEF ToolsInv, T!ToolsSound, T!TypeOK
<1>2. T!BookedIsReserved' /\ T!RemovedIsRemoved'
  BY DEF ToolsInv, T!ToolsSound, T!BookedIsReserved, T!RemovedIsRemoved
<1>3. PlaceSound(s, flag', kept') /\ asked' \subseteq {"conflict", "price"}
  BY <1>1
<1>4. QED
  BY <1>1, <1>2, <1>3, ToolSteps

LEMMA ResolveIsSound ==
  ASSUME NEW t \in Everyone, NEW found \in BOOLEAN, ToolsInv, T!Resolve(t, found)
  PROVE  ToolsInv'
<1> DEFINE stage == IF thread[t].tool = "end" THEN "granted" ELSE "resolved"
<1>1. PlaceSound(thread[t], flag, kept) /\ acted = {}
  BY DEF ToolsInv, T!ToolsSound, ThreadsSound, T!NothingAfterStop
<1>2. thread[t].at = "called"
      /\ UNCHANGED <<flag, packet, perms, degraded, calls, query, kept, asked, said, acted>>
  BY DEF T!Resolve
<1>3. CASE T!Goes(t, T!Idle)
  BY <1>1, <1>2, <1>3, IdleIsSound, GateSteps
<1>4. CASE found /\ T!Admits(thread[t].tool) /\ T!Goes(t, T!At(stage, thread[t]))
  <2> DEFINE s == T!At(stage, thread[t])
  <2>1. stage \in {"granted", "resolved"} /\ (stage = "granted" => thread[t].tool = "end")
    OBVIOUS
  <2>2. "stop" \notin flag \/ thread[t].tool = "end"
    BY <1>4 DEF T!Admits, T!UnlessStopped, T!Up
  <2> HIDE DEF stage
  <2>3. s \in T!Step /\ s.at = stage /\ s.tool = thread[t].tool /\ s.since = thread[t].since
    BY <1>1, <1>2, <2>1, Places DEF PlaceSound
  <2>4. PlaceSound(s, flag, kept) /\ s.at # "waiting"
    <3> HIDE DEF s
    <3>1. QED
      BY <1>1, <1>2, <2>1, <2>2, <2>3 DEF PlaceSound, Resolved, Gated, T!SideEffect
  <2> HIDE DEF s
  <2>5. T!Goes(t, s)
    BY <1>4 DEF s
  <2>6. QED
    BY <1>1, <1>2, <2>4, <2>5, GateSteps
<1>5. QED
  BY <1>3, <1>4 DEF T!Resolve

LEMMA ReadFlagsIsSound ==
  ASSUME NEW t \in Everyone, NEW enabled \in BOOLEAN, ToolsInv, T!ReadFlags(t, enabled)
  PROVE  ToolsInv'
<1> DEFINE stage == IF thread[t].at = "resolved" THEN "read" ELSE "reread"
<1>1. PlaceSound(thread[t], flag, kept) /\ acted = {}
  BY DEF ToolsInv, T!ToolsSound, ThreadsSound, T!NothingAfterStop
<1>2. thread[t].at \in {"resolved", "sanitized"} /\ asked' \subseteq asked \cup {"conflict", "price"}
      /\ UNCHANGED <<flag, packet, perms, degraded, calls, query, kept, said, acted>>
  BY DEF T!ReadFlags
<1>3. CASE T!Goes(t, T!Idle)
  BY <1>1, <1>2, <1>3, IdleIsSound, GateSteps
<1>4. CASE ~ (thread[t].tool \in T!SideEffect /\ T!Up("killed"))
           /\ T!Goes(t, T!At(stage, thread[t]))
  <2> DEFINE s == T!At(stage, thread[t])
  <2>1. stage \in {"read", "reread"}
    OBVIOUS
  <2> HIDE DEF stage
  <2>3. s \in T!Step /\ s.at = stage /\ s.tool = thread[t].tool /\ s.since = thread[t].since
    BY <1>1, <1>2, <2>1, Places DEF PlaceSound
  <2>4. PlaceSound(s, flag, kept) /\ s.at # "waiting"
    <3> HIDE DEF s
    <3>1. QED
      BY <1>1, <1>2, <1>4, <2>1, <2>3 DEF PlaceSound, Resolved, Gated, T!Up
  <2>5. T!Goes(t, s)
    BY <1>4
  <2> HIDE DEF s
  <2>6. QED
    BY <1>1, <1>2, <2>4, <2>5, GateSteps
<1>5. QED
  BY <1>3, <1>4 DEF T!ReadFlags

LEMMA ReadPacketIsSound ==
  ASSUME NEW t \in Everyone, NEW cleared \in BOOLEAN, ToolsInv, T!ReadPacket(t, cleared)
  PROVE  ToolsInv'
<1> DEFINE stage == IF thread[t].at = "read" /\ thread[t].tool \in T!SideEffect THEN "sanitized"
                    ELSE "granted"
<1>1. PlaceSound(thread[t], flag, kept) /\ acted = {}
  BY DEF ToolsInv, T!ToolsSound, ThreadsSound, T!NothingAfterStop
<1>2. thread[t].at \in {"read", "reread"} /\ asked' \subseteq asked \cup {"conflict", "price"}
      /\ UNCHANGED <<flag, packet, perms, degraded, calls, query, kept, said, acted>>
  BY DEF T!ReadPacket
<1>3. CASE T!Goes(t, T!Idle)
  BY <1>1, <1>2, <1>3, IdleIsSound, GateSteps
<1>4. CASE T!Goes(t, T!At(stage, thread[t]))
  <2> DEFINE s == T!At(stage, thread[t])
  <2>1. stage \in {"sanitized", "granted"}
    OBVIOUS
  <2> HIDE DEF stage
  <2>3. s \in T!Step /\ s.at = stage /\ s.tool = thread[t].tool /\ s.since = thread[t].since
    BY <1>1, <1>2, <2>1, Places DEF PlaceSound
  <2>4. PlaceSound(s, flag, kept) /\ s.at # "waiting"
    <3> HIDE DEF s
    <3>1. QED
      BY <1>1, <1>2, <2>1, <2>3 DEF PlaceSound, Resolved, Gated
  <2>5. T!Goes(t, s)
    BY <1>4
  <2> HIDE DEF s
  <2>6. QED
    BY <1>1, <1>2, <2>4, <2>5, GateSteps
<1>5. QED
  BY <1>3, <1>4 DEF T!ReadPacket

\* Reservations and what is told of them: the thread that announces one has it.
LEMMA BookingIsSound ==
  ASSUME NEW t \in Everyone, NEW yes \in BOOLEAN, NEW told \in BOOLEAN, ToolsInv,
         T!Reserve(t, yes, told) \/ T!Confirm(t)
  PROVE  ToolsInv'
<1>1. PlaceSound(thread[t], flag, kept) /\ acted = {} /\ flag \subseteq T!Flag
      /\ kept \subseteq T!Kept /\ asked \subseteq {"conflict", "price"}
  BY DEF ToolsInv, T!ToolsSound, ThreadsSound, T!NothingAfterStop, T!TypeOK
<1>2. T!BookedIsReserved /\ T!RemovedIsRemoved
  BY DEF ToolsInv, T!ToolsSound
<1>3. CASE T!Reserve(t, yes, told)
  <2> DEFINE s == IF yes /\ told THEN T!At("reserved", thread[t]) ELSE T!Idle
  <2>1. thread[t].at = "granted" /\ thread[t].tool = "book" /\ T!Goes(t, s)
        /\ kept' = (IF yes THEN kept \cup {"slot"} ELSE kept)
        /\ UNCHANGED <<flag, packet, perms, degraded, calls, query, asked, said>>
    BY <1>3 DEF T!Reserve
  <2>2. acted' = {}
    BY <1>3, NothingActs DEF T!Reserve, T!SideEffect, T!Tool
  <2>3. kept \subseteq kept' /\ kept' \subseteq T!Kept
    BY <1>1, <2>1 DEF T!Kept
  <2>4. PlaceSound(s, flag', kept') /\ s.at # "waiting"
    <3>1. CASE s = T!Idle
      BY <3>1, IdleIsSound
    <3>2. CASE yes /\ told /\ s = T!At("reserved", thread[t])
      <4>1. s \in T!Step /\ s.at = "reserved" /\ s.tool = "book" /\ s.since = thread[t].since
        BY <1>1, <2>1, <3>2, Places DEF PlaceSound
      <4> HIDE DEF s
      <4>2. "slot" \in kept' /\ flag' = flag
        BY <2>1, <3>2
      <4>3. QED
        BY <1>1, <2>1, <4>1, <4>2 DEF PlaceSound, Resolved, Gated
    <3>3. QED
      BY <3>1, <3>2
  <2>5. T!BookedIsReserved' /\ T!RemovedIsRemoved'
    <3> HIDE DEF s
    <3>1. QED
      BY <1>2, <2>1 DEF T!BookedIsReserved, T!RemovedIsRemoved
  <2> HIDE DEF s
  <2>6. QED
    BY <1>1, <2>1, <2>2, <2>3, <2>4, <2>5, ToolSteps
<1>4. CASE T!Confirm(t)
  <2>1. thread[t].at = "reserved" /\ T!Goes(t, T!Idle)
        /\ flag' = flag \cup {"booked"} /\ said' = said \cup {"booked"}
        /\ UNCHANGED <<packet, perms, degraded, calls, query, kept, asked, acted>>
    BY <1>4 DEF T!Confirm
  <2>2. "slot" \in kept'
    BY <1>1, <2>1 DEF PlaceSound
  <2>3. T!BookedIsReserved' /\ T!RemovedIsRemoved'
    BY <1>2, <2>1, <2>2 DEF T!BookedIsReserved, T!RemovedIsRemoved
  <2>4. flag' \subseteq T!Flag
    BY <1>1, <2>1 DEF T!Flag
  <2>5. QED
    BY <1>1, <2>1, <2>3, <2>4, IdleIsSound, ToolSteps
<1>5. QED
  BY <1>3, <1>4

LEMMA MessageIsSound ==
  ASSUME NEW t \in Everyone, NEW accepted \in BOOLEAN, ToolsInv,
         T!Tell(t) \/ T!Text(t) \/ T!ListSlots(t) \/ T!Transfer(t, accepted)
  PROVE  ToolsInv'
<1>1. acted = {} /\ flag \subseteq T!Flag /\ kept \subseteq T!Kept
      /\ asked \subseteq {"conflict", "price"}
  BY DEF ToolsInv, T!ToolsSound, T!NothingAfterStop, T!TypeOK
<1>2. T!Goes(t, T!Idle) /\ UNCHANGED <<packet, perms, degraded, calls, query, kept, asked, said>>
      /\ flag \subseteq flag' /\ flag' \subseteq flag \cup {"ending"}
  BY DEF T!Tell, T!Text, T!ListSlots, T!Transfer
<1>3. acted' = {}
  BY <1>1, NothingActs DEF T!Tell, T!Text, T!ListSlots, T!Transfer, T!SideEffect, T!Tool
<1>4. T!BookedIsReserved' /\ T!RemovedIsRemoved'
  BY <1>2 DEF ToolsInv, T!ToolsSound, T!BookedIsReserved, T!RemovedIsRemoved
<1>5. flag' \subseteq T!Flag
  BY <1>1, <1>2 DEF T!Flag
<1>6. QED
  BY <1>1, <1>2, <1>3, <1>4, <1>5, IdleIsSound, ToolSteps

LEMMA EndIsSound ==
  ASSUME NEW t \in Everyone, NEW reason \in {"booked", "dead", "other"}, NEW saved \in BOOLEAN,
         ToolsInv, T!End(t, reason, saved)
  PROVE  ToolsInv'
<1>1. acted = {} /\ flag \subseteq T!Flag /\ kept \subseteq T!Kept
      /\ asked \subseteq {"conflict", "price"} /\ T!BookedIsReserved /\ T!RemovedIsRemoved
  BY DEF ToolsInv, T!ToolsSound, T!NothingAfterStop, T!TypeOK
<1>2. T!Goes(t, T!Idle) /\ UNCHANGED <<packet, perms, degraded, calls, query, asked, said, acted>>
      /\ flag \subseteq flag' /\ flag' \subseteq flag \cup {"ending"}
  BY DEF T!End
<1>3. kept' \subseteq kept \cup {"walkthrough", "dead"}
      /\ kept \ {"walkthrough", "dead"} \subseteq kept'
      /\ ("walkthrough" \in kept' => "walkthrough" \in kept \/ "booked" \in flag)
  BY DEF T!End, T!Up
<1>4. T!BookedIsReserved'
  BY <1>1, <1>2, <1>3 DEF T!BookedIsReserved
<1>5. T!RemovedIsRemoved'
  BY <1>1, <1>2, <1>3 DEF T!RemovedIsRemoved
<1>6. flag' \subseteq T!Flag /\ kept' \subseteq T!Kept
  BY <1>1, <1>2, <1>3 DEF T!Flag, T!Kept
<1>7. ("slot" \in kept => "slot" \in kept') /\ ("dnc" \in kept => "dnc" \in kept')
  BY <1>3
<1>8. QED
  BY <1>1, <1>2, <1>4, <1>5, <1>6, <1>7, IdleIsSound, ToolSteps

LEMMA StopIsSound ==
  ASSUME NEW t \in Everyone, NEW phone \in BOOLEAN, NEW saved \in BOOLEAN, ToolsInv,
         T!Lists(t, phone, saved) \/ T!StopCall(t, saved)
  PROVE  ToolsInv'
<1>1. PlaceSound(thread[t], flag, kept) /\ acted = {} /\ flag \subseteq T!Flag
      /\ kept \subseteq T!Kept /\ asked \subseteq {"conflict", "price"}
  BY DEF ToolsInv, T!ToolsSound, ThreadsSound, T!NothingAfterStop, T!TypeOK
<1>2. T!BookedIsReserved /\ T!RemovedIsRemoved
  BY DEF ToolsInv, T!ToolsSound
<1>3. CASE T!Lists(t, phone, saved)
  <2> DEFINE s == IF phone THEN T!At(IF saved THEN "written" ELSE "half", thread[t]) ELSE T!Idle
  <2>1. thread[t].at = "called" /\ thread[t].tool = "stop" /\ T!Goes(t, s)
        /\ kept' = (IF phone /\ saved THEN kept \cup {"dnc"} ELSE kept)
        /\ flag \subseteq flag' /\ flag' \subseteq flag \cup {"stop", "ending"}
        /\ UNCHANGED <<packet, perms, degraded, calls, query, asked, said, acted>>
    BY <1>3 DEF T!Lists
  <2>2. kept \subseteq kept' /\ kept' \subseteq T!Kept /\ flag' \subseteq T!Flag
    BY <1>1, <2>1 DEF T!Kept, T!Flag
  <2>3. PlaceSound(s, flag', kept') /\ s.at # "waiting"
    <3>1. CASE s = T!Idle
      BY <3>1, IdleIsSound
    <3>2. CASE phone /\ s = T!At(IF saved THEN "written" ELSE "half", thread[t])
      <4>1. s \in T!Step /\ s.at \in {"written", "half"} /\ s.since = thread[t].since
            /\ (s.at = "written" => saved)
        BY <1>1, <2>1, <3>2, Places DEF PlaceSound
      <4> HIDE DEF s
      <4>2. s.at = "written" => "dnc" \in kept'
        BY <2>1, <3>2, <4>1
      <4>3. s.since \subseteq flag'
        BY <1>1, <2>1, <4>1 DEF PlaceSound
      <4>4. QED
        BY <4>1, <4>2, <4>3 DEF PlaceSound, Resolved, Gated
    <3>3. QED
      BY <3>1, <3>2
  <2> HIDE DEF s
  <2>4. T!BookedIsReserved' /\ T!RemovedIsRemoved'
    BY <1>2, <2>1 DEF T!BookedIsReserved, T!RemovedIsRemoved
  <2>5. QED
    BY <1>1, <2>1, <2>2, <2>3, <2>4, ToolSteps
<1>4. CASE T!StopCall(t, saved)
  <2>1. thread[t].at \in {"written", "half"} /\ T!Goes(t, T!Idle)
        /\ kept' = (IF saved THEN kept \cup {"optOut"} ELSE kept)
        /\ flag' = flag \cup {"stop", "ending"}
        /\ said' = (IF thread[t].at = "written" /\ saved THEN said \cup {"removed"} ELSE said)
        /\ UNCHANGED <<packet, perms, degraded, calls, query, asked, acted>>
    BY <1>4 DEF T!StopCall, T!Removed, T!BothSaved
  <2>2. kept \subseteq kept' /\ kept' \subseteq T!Kept /\ flag' \subseteq T!Flag
    BY <1>1, <2>1 DEF T!Kept, T!Flag
  <2>3. "removed" \in said' => "removed" \in said \/ (saved /\ "dnc" \in kept)
    BY <1>1, <2>1 DEF PlaceSound
  <2>4. T!BookedIsReserved' /\ T!RemovedIsRemoved'
    BY <1>2, <2>1, <2>2, <2>3 DEF T!BookedIsReserved, T!RemovedIsRemoved
  <2>5. QED
    BY <1>1, <2>1, <2>2, <2>4, IdleIsSound, ToolSteps
<1>5. QED
  BY <1>3, <1>4

\* The question to the operator: one thread asks, and it alone waits.
LEMMA AskIsSound ==
  ASSUME NEW t \in Everyone, NEW accepted \in BOOLEAN, ToolsInv, T!AskOperator(t, accepted),
         AnswerTime \in Nat
  PROVE  ToolsInv'
<1>1. PlaceSound(thread[t], flag, kept) /\ acted = {} /\ asked \subseteq {"conflict", "price"}
  BY DEF ToolsInv, T!ToolsSound, ThreadsSound, T!NothingAfterStop, T!TypeOK
<1>2. thread[t].at = "granted" /\ thread[t].tool = "ask"
      /\ UNCHANGED <<flag, packet, perms, degraded, calls, kept, asked, said>>
  BY DEF T!AskOperator
<1>3. CASE T!Goes(t, T!Idle) /\ UNCHANGED <<query, acted>>
  BY <1>1, <1>2, <1>3, IdleIsSound, GateSteps
<1>4. CASE /\ query.status = "none" /\ query' = [status |-> "pending", left |-> AnswerTime]
           /\ T!Acted(t)
           /\ T!Goes(t, IF accepted THEN T!At("waiting", thread[t]) ELSE T!Idle)
  <2> DEFINE s == IF accepted THEN T!At("waiting", thread[t]) ELSE T!Idle
  <2>1. acted' = {}
    BY <1>2, <1>4, NothingActs DEF T!SideEffect, T!Tool
  <2>2. PlaceSound(s, flag, kept)
    <3>1. CASE s = T!Idle
      BY <3>1, IdleIsSound
    <3>2. CASE s = T!At("waiting", thread[t])
      <4>1. s \in T!Step /\ s.at = "waiting" /\ s.tool = "ask" /\ s.since = thread[t].since
        BY <1>1, <1>2, <3>2, Places DEF PlaceSound
      <4> HIDE DEF s
      <4>2. QED
        BY <1>1, <1>2, <4>1 DEF PlaceSound, Resolved, Gated
    <3>3. QED
      BY <3>1, <3>2
  <2>3. T!Goes(t, s)
    BY <1>4
  <2> HIDE DEF s
  <2>4. PlaceSound(s, flag', kept')
    BY <1>2, <2>2
  <2>5. /\ thread' \in [Everyone -> T!Step] /\ ThreadsSound'
        /\ thread'[t] = s /\ \A o \in Everyone : o # t => thread'[o] = thread[o]
    BY <1>2, <2>3, <2>4, ThreadGoes DEF ToolsInv, T!ToolsSound, T!TypeOK, Everyone
  <2>6. query' \in [status : {"none", "pending", "answered", "closed"}, left : 0 .. AnswerTime]
        /\ query'.status = "pending"
    BY <1>4
  <2>7. T!TypeOK'
    BY <1>2, <2>1, <2>5, <2>6 DEF ToolsInv, T!ToolsSound, T!TypeOK, Everyone
  <2>8. T!NothingAfterStop' /\ T!BookedIsReserved' /\ T!RemovedIsRemoved'
    BY <1>2, <2>1
       DEF ToolsInv, T!ToolsSound, T!NothingAfterStop, T!BookedIsReserved, T!RemovedIsRemoved
  <2>9. "answer" \notin said' /\ "silence" \notin said' /\ "late" \notin said'
    BY <1>2, <1>4 DEF ToolsInv, T!ToolsSound, T!AnswersCount
  <2>10. T!AnswersCount'
    BY <2>9 DEF T!AnswersCount
  <2>11. \A o \in Everyone : thread'[o].at = "waiting" => o = t
    BY <1>4, <2>5 DEF ToolsInv, QuerySound
  <2>12. QuerySound'
    BY <2>6, <2>9, <2>11 DEF QuerySound
  <2>13. QED
    BY <2>5, <2>7, <2>8, <2>10, <2>12 DEF ToolsInv, T!ToolsSound
<1>5. QED
  BY <1>3, <1>4 DEF T!AskOperator

\* The operator answers a pending query, in time, before silence was reported.
LEMMA AnswerIsSound ==
  ASSUME ToolsInv, T!Answer \/ T!Tick, AnswerTime \in Nat
  PROVE  ToolsInv'
<1>1. UNCHANGED <<flag, packet, perms, degraded, thread, calls, kept, asked, acted>>
  BY DEF T!Answer, T!Tick
<1>2. query \in [status : {"none", "pending", "answered", "closed"}, left : 0 .. AnswerTime]
      /\ T!AnswersCount /\ QuerySound
  BY DEF ToolsInv, T!ToolsSound, T!TypeOK
<1> DEFINE left == query.left
<1>a. left \in Int /\ ("silence" \in said => left = 0)
  BY <1>2 DEF QuerySound
<1>3. /\ said' = said
      /\ query' \in [status : {"none", "pending", "answered", "closed"}, left : 0 .. AnswerTime]
      /\ \/ query'.status = query.status
         \/ query.status = "pending" /\ query'.status = "answered"
      /\ "silence" \in said => query'.status = query.status /\ query'.left = 0
  <2>1. CASE T!Answer
    <3>1. query.left > 0 /\ query.status = "pending" /\ query' = [query EXCEPT !.status = "answered"]
          /\ said' = said
      BY <2>1 DEF T!Answer, T!Takes, T!InTime
    <3>2. "silence" \notin said
      <4>1. left > 0
        BY <3>1
      <4> HIDE DEF left
      <4>2. QED
        BY <4>1, <1>a
    <3>3. QED
      BY <1>2, <3>1, <3>2
  <2>2. CASE T!Tick
    <3> DEFINE n == query.left - 1
    <3>1. query.left > 0 /\ query' = [query EXCEPT !.left = n] /\ said' = said
      BY <2>2 DEF T!Tick
    <3>2. n \in 0 .. AnswerTime
      <4>1. query.left \in 0 .. AnswerTime
        BY <1>2
      <4>2. QED
        BY <4>1, <3>1
    <3>3. "silence" \notin said
      <4>1. left > 0
        BY <3>1
      <4> HIDE DEF left
      <4>2. QED
        BY <4>1, <1>a
    <3> HIDE DEF n
    <3>4. QED
      BY <1>2, <3>1, <3>2, <3>3
  <2>3. QED
    BY <2>1, <2>2
<1>4. thread' \in [Everyone -> T!Step] /\ ThreadsSound'
  BY <1>1, NobodyGoes DEF ToolsInv, T!ToolsSound, T!TypeOK, Everyone
<1>5. T!TypeOK'
  BY <1>1, <1>3, <1>4 DEF ToolsInv, T!ToolsSound, T!TypeOK, Everyone
<1>6. T!NothingAfterStop' /\ T!BookedIsReserved' /\ T!RemovedIsRemoved'
  BY <1>1, <1>3
     DEF ToolsInv, T!ToolsSound, T!NothingAfterStop, T!BookedIsReserved, T!RemovedIsRemoved
<1>7. T!AnswersCount'
  BY <1>2, <1>3 DEF T!AnswersCount
<1>8. QuerySound'
  BY <1>1, <1>2, <1>3 DEF QuerySound
<1>9. QED
  BY <1>4, <1>5, <1>6, <1>7, <1>8 DEF ToolsInv, T!ToolsSound

\* The thread that waits is the only one that reports an answer or silence.
LEMMA PollIsSound ==
  ASSUME NEW t \in Everyone, NEW read_ \in BOOLEAN, NEW closed \in BOOLEAN, ToolsInv,
         T!Poll(t, read_, closed)
  PROVE  ToolsInv'
<1>1. thread[t].at = "waiting" /\ T!Goes(t, T!Idle)
      /\ UNCHANGED <<flag, packet, perms, degraded, calls, kept, asked, acted>>
  BY DEF T!Poll
<1>2. query \in [status : {"none", "pending", "answered", "closed"}, left : 0 .. AnswerTime]
      /\ T!AnswersCount /\ QuerySound
  BY DEF ToolsInv, T!ToolsSound, T!TypeOK
<1>3. query.status \in {"pending", "answered"} /\ "answer" \notin said
  BY <1>1, <1>2 DEF QuerySound, T!AnswersCount
<1>4. /\ query' \in [status : {"none", "pending", "answered", "closed"}, left : 0 .. AnswerTime]
      /\ \/ query' = query /\ said' = said
         \/ query.status = "answered" /\ query'.status = "closed" /\ said' = said \cup {"answer"}
         \/ /\ query' = query /\ query.status = "pending" /\ query.left = 0
            /\ said' = said \cup {"silence"}
  BY <1>2, <1>3 DEF T!Poll
<1>5. PlaceSound(T!Idle, flag', kept')
  BY IdleIsSound
<1>6. /\ thread' \in [Everyone -> T!Step] /\ ThreadsSound'
      /\ thread'[t] = T!Idle /\ \A o \in Everyone : o # t => thread'[o] = thread[o]
  BY <1>1, <1>5, ThreadGoes DEF ToolsInv, T!ToolsSound, T!TypeOK, Everyone
<1>7. T!TypeOK'
  <2>1. said' \subseteq {"booked", "removed", "answer", "silence", "late"}
    BY <1>4 DEF ToolsInv, T!ToolsSound, T!TypeOK
  <2>2. QED
    BY <1>1, <1>4, <1>6, <2>1 DEF ToolsInv, T!ToolsSound, T!TypeOK, Everyone
<1>8. T!NothingAfterStop'
  BY <1>1 DEF ToolsInv, T!ToolsSound, T!NothingAfterStop
<1>9. ("booked" \in said' => "booked" \in said) /\ ("removed" \in said' => "removed" \in said)
  BY <1>4
<1>10. T!BookedIsReserved' /\ T!RemovedIsRemoved'
  BY <1>1, <1>9 DEF ToolsInv, T!ToolsSound, T!BookedIsReserved, T!RemovedIsRemoved
<1>11. T!AnswersCount'
  BY <1>2, <1>3, <1>4 DEF T!AnswersCount
<1>12. \A o \in Everyone : thread'[o].at # "waiting"
  BY <1>1, <1>2, <1>6, IdleIsSound DEF QuerySound
<1>13. QuerySound'
  BY <1>2, <1>3, <1>4, <1>12 DEF QuerySound, T!AnswersCount
<1>14. QED
  BY <1>6, <1>7, <1>8, <1>10, <1>11, <1>13 DEF ToolsInv, T!ToolsSound
-----------------------------------------------------------------------------
LEMMA ToolsBegin == T!Init /\ AnswerTime \in Nat /\ MaxCalls \in Nat => ToolsInv
<1> SUFFICES ASSUME T!Init, AnswerTime \in Nat, MaxCalls \in Nat
             PROVE  ToolsInv
  OBVIOUS
<1> USE DEF T!Init
<1>1. thread \in [Everyone -> T!Step] /\ \A t \in Everyone : thread[t] = T!Idle
  BY IdleIsSound DEF Everyone
<1>2. T!TypeOK
  BY <1>1 DEF T!TypeOK, Everyone, T!NoQuery
<1>3. ThreadsSound
  BY <1>1, IdleIsSound DEF ThreadsSound
<1>4. QuerySound
  BY <1>1, IdleIsSound DEF QuerySound
<1>5. QED
  BY <1>2, <1>3, <1>4
     DEF ToolsInv, T!ToolsSound, T!NothingAfterStop, T!BookedIsReserved, T!RemovedIsRemoved,
         T!AnswersCount

LEMMA ToolsStay ==
  ASSUME ToolsInv, T!Next, AnswerTime \in Nat, MaxCalls \in Nat
  PROVE  ToolsInv'
<1>1. CASE T!KillSwitch \/ T!RefreshPermissions \/ \E p \in Packet : T!RefreshPacket(p)
  BY <1>1, LoopIsSound
<1>2. CASE T!StopPhrase
  BY <1>2, StopPhraseIsSound
<1>3. CASE \E t \in Thread, tool \in T!Tool, owned, clear \in BOOLEAN :
              T!CallTool(t, tool, owned, clear)
  BY <1>3, CallToolIsSound
<1>4. CASE T!Answer \/ T!Tick
  BY <1>4, AnswerIsSound
<1>5. CASE T!Done
  <2>1. UNCHANGED T!toolVars
    BY <1>5 DEF T!Done
  <2>2. QED
    BY <2>1 DEF T!toolVars, ToolsInv, T!ToolsSound, T!TypeOK, T!NothingAfterStop,
                T!BookedIsReserved, T!RemovedIsRemoved, T!AnswersCount, ThreadsSound, QuerySound
<1>6. ASSUME NEW t \in Everyone, NEW yes \in BOOLEAN,
             \/ T!Resolve(t, yes) \/ T!ReadFlags(t, yes) \/ T!ReadPacket(t, yes)
             \/ T!Transfer(t, yes) \/ T!AskOperator(t, yes) \/ T!StopCall(t, yes)
             \/ T!Tell(t) \/ T!Text(t) \/ T!ListSlots(t) \/ T!Confirm(t)
      PROVE  ToolsInv'
  BY <1>6, ResolveIsSound, ReadFlagsIsSound, ReadPacketIsSound, MessageIsSound, AskIsSound,
     StopIsSound, BookingIsSound
<1>7. ASSUME NEW t \in Everyone, NEW yes \in BOOLEAN, NEW also \in BOOLEAN,
             T!Reserve(t, yes, also) \/ T!Lists(t, yes, also) \/ T!Poll(t, yes, also)
      PROVE  ToolsInv'
  BY <1>7, BookingIsSound, StopIsSound, PollIsSound
<1>8. ASSUME NEW t \in Everyone, NEW yes \in BOOLEAN, NEW reason \in {"booked", "dead", "other"},
             T!End(t, reason, yes)
      PROVE  ToolsInv'
  BY <1>8, EndIsSound
<1>9. QED
  BY <1>1, <1>2, <1>3, <1>4, <1>5, <1>6, <1>7, <1>8 DEF T!Next, Everyone

\* A tool acts only on a call that was not stopped when it was called, and what it says is true:
\* a walkthrough is reserved, a number is removed in both places, an answer of the operator came
\* in time (voice/tools.py).
THEOREM ToolsAreSound == Spec => []ToolsSound
<1> DEFINE Inv == part = "tools" => ToolsInv
<1>1. AnswerTime \in Nat /\ MaxCalls \in Nat
  BY LiveCallAssumption DEF T!ToolsAssumption
<1>2. Init => Inv
  BY <1>1, ToolsBegin DEF Init
<1>3. Inv /\ [Next]_all => Inv'
  <2> SUFFICES ASSUME Inv, [Next]_all, part' = "tools"
               PROVE  ToolsInv'
    OBVIOUS
  <2>1. CASE part = "tools" /\ T!Next
    BY <1>1, <2>1, ToolsStay
  <2>2. CASE UNCHANGED all
    BY <2>2 DEF all, tools, ToolsInv, T!ToolsSound, T!TypeOK, T!NothingAfterStop,
                T!BookedIsReserved, T!RemovedIsRemoved, T!AnswersCount, ThreadsSound, QuerySound
  <2>3. QED
    BY <2>1, <2>2 DEF Next
<1>4. Inv => ToolsSound
  BY DEF ToolsSound, ToolsInv
<1>5. QED
  BY <1>2, <1>3, <1>4, PTL DEF Spec
-----------------------------------------------------------------------------
(***************************************************************************)
(* Conversation.  A processor takes the context of a call to the next one: *)
(* the scores stay on their scale, the person believed is the one recorded,*)
(* and an instruction it leaves is of the turn it works on.                *)
(***************************************************************************)
Fields ==
    {"instruction", "goal", "uncertain", "failures", "emotion", "trust", "challenges",
     "resistance", "softening", "listed", "agent", "momentum", "lengths", "short", "fatigue",
     "heat", "penalised", "microstate", "turn", "intent", "agreed", "owner", "denied", "person",
     "awaiting", "asked", "motivated", "booked", "dnc", "stopped", "ending", "objective", "killed"}

InScale(c) == {c.trust, c.resistance, c.momentum, c.heat} \subseteq 0 .. 100
Believed(c) == c.person # "none" => (c.person = "yes" <=> c.owner)

Same(c, d) ==
    /\ d.instruction = c.instruction /\ d.goal = c.goal /\ d.uncertain = c.uncertain
    /\ d.failures = c.failures /\ d.trust = c.trust /\ d.resistance = c.resistance
    /\ d.momentum = c.momentum /\ d.heat = c.heat /\ d.turn = c.turn /\ d.person = c.person
    /\ d.owner = c.owner /\ d.dnc = c.dnc /\ d.stopped = c.stopped /\ d.ending = c.ending

\* One or several processors, between the reset of a turn and its policy.
Follows(c, d) ==
    /\ DOMAIN d = Fields
    /\ InScale(c) => InScale(d)
    /\ Believed(c) => Believed(d)
    /\ d.dnc = c.dnc /\ d.stopped = c.stopped /\ (c.ending => d.ending)
    /\ d.uncertain = c.uncertain /\ d.goal = c.goal
    /\ d.turn = c.turn /\ d.failures = c.failures
    /\ d.instruction = c.instruction \/ d.instruction.of = heard + 1

LEMMA SameFollows ==
  ASSUME NEW c, NEW d, DOMAIN d = Fields, Same(c, d)
  PROVE  Follows(c, d)
BY DEF Same, Follows, InScale, Believed

LEMMA FollowsOn ==
  ASSUME NEW c, NEW d, NEW e, Follows(c, d), Follows(d, e)
  PROVE  Follows(c, e)
BY DEF Follows

LEMMA Smaller ==
  ASSUME NEW a \in Int, NEW b \in Int
  PROVE  C!Min({a, b}) \in {a, b} /\ C!Min({a, b}) <= a /\ C!Min({a, b}) <= b
<1>1. \E x \in {a, b} : \A y \in {a, b} : x <= y
  OBVIOUS
<1>2. QED
  BY <1>1 DEF C!Min

LEMMA Larger ==
  ASSUME NEW a \in Int, NEW b \in Int
  PROVE  C!Max({a, b}) \in {a, b} /\ C!Max({a, b}) >= a /\ C!Max({a, b}) >= b
<1>1. \E x \in {a, b} : \A y \in {a, b} : x >= y
  OBVIOUS
<1>2. QED
  BY <1>1 DEF C!Max

LEMMA WithinScale ==
  ASSUME NEW n \in Int
  PROVE  C!Within(n) \in 0 .. 100
<1> DEFINE m == C!Min({100, n})
<1>1. m \in Int /\ m <= 100
  BY Smaller
<1> HIDE DEF m
<1>2. C!Max({0, m}) \in {0, m} /\ C!Max({0, m}) >= 0
  BY <1>1, Larger
<1>3. C!Within(n) = C!Max({0, m})
  BY DEF C!Within, m
<1>4. QED
  BY <1>1, <1>2, <1>3

LEMMA CapScale ==
  ASSUME NEW n \in Int
  PROVE  (n >= 0 => C!Min({100, n}) \in 0 .. 100) /\ (n <= 100 => C!Max({0, n}) \in 0 .. 100)
<1> DEFINE low == C!Min({100, n})
           high == C!Max({0, n})
<1>1. low \in {100, n} /\ low <= 100
  BY Smaller
<1>2. high \in {0, n} /\ high >= 0
  BY Larger
<1> HIDE DEF low, high
<1>3. (n >= 0 => low \in 0 .. 100) /\ (n <= 100 => high \in 0 .. 100)
  BY <1>1, <1>2
<1>4. QED
  BY <1>3 DEF low, high

LEMMA PointsCount ==
  ASSUME NEW u, NEW k, NEW n \in Nat
  PROVE  C!Points(u, k, n) \in Nat
BY DEF C!Points

LEMMA Deltas ==
  ASSUME NEW u
  PROVE  /\ C!TrustDelta(u) \in Int /\ C!MomentumDelta(u) \in Int /\ C!HeatDelta(u) \in Int
         /\ C!ObjectionDelta(u) \in Nat
<1>1. \A k : \A n \in Nat : C!Points(u, k, n) \in Nat
  BY PointsCount
<1>2. C!TrustDelta(u) \in Int
  BY <1>1 DEF C!TrustDelta
<1>3. C!MomentumDelta(u) \in Int
  BY <1>1 DEF C!MomentumDelta
<1>4. C!HeatDelta(u) \in Int
  BY <1>1 DEF C!HeatDelta
<1>5. C!ObjectionDelta(u) \in Nat
  BY <1>1 DEF C!ObjectionDelta
<1>6. QED
  BY <1>2, <1>3, <1>4, <1>5

\* The processors that leave alone what the properties are about.
LEMMA Plain ==
  ASSUME NEW c, NEW u, DOMAIN c = Fields
  PROVE  /\ Follows(c, C!Emotion(c, u)) /\ Follows(c, C!Fatigue(c, u))
         /\ Follows(c, C!Microstate(c, u)) /\ Follows(c, C!Refusal(c, u))
         /\ Follows(c, C!Assent(c, u)) /\ Follows(c, C!Collected(c, u))
         /\ Follows(c, C!Objective(c, u))
<1>1. DOMAIN C!Emotion(c, u) = Fields /\ Same(c, C!Emotion(c, u))
  BY DEF C!Emotion, Fields, Same
<1>2. DOMAIN C!Fatigue(c, u) = Fields /\ Same(c, C!Fatigue(c, u))
  BY DEF C!Fatigue, Fields, Same
<1>3. DOMAIN C!Microstate(c, u) = Fields /\ Same(c, C!Microstate(c, u))
  BY DEF C!Microstate, Fields, Same
<1>4. DOMAIN C!Refusal(c, u) = Fields /\ Same(c, C!Refusal(c, u))
  BY DEF C!Refusal, Fields, Same
<1>5. DOMAIN C!Assent(c, u) = Fields /\ Same(c, C!Assent(c, u))
  BY DEF C!Assent, Fields, Same
<1>6. DOMAIN C!Collected(c, u) = Fields /\ Same(c, C!Collected(c, u))
  BY DEF C!Collected, Fields, Same
<1>7. DOMAIN C!Objective(c, u) = Fields /\ Same(c, C!Objective(c, u))
  BY DEF C!Objective, Fields, Same
<1>8. QED
  BY <1>1, <1>2, <1>3, <1>4, <1>5, <1>6, <1>7, SameFollows

\* The scores.
LEMMA TrustFollows ==
  ASSUME NEW c, NEW u, DOMAIN c = Fields
  PROVE  Follows(c, C!Trust(c, u))
<1> DEFINE n == C!Within(c.trust + C!TrustDelta(u))
           m == C!Challenges(c, u)
           d == [c EXCEPT !.trust = n, !.challenges = m]
<1>1. C!Trust(c, u) = d
  BY DEF C!Trust
<1>2. InScale(c) => n \in 0 .. 100
  <2>1. InScale(c) => c.trust + C!TrustDelta(u) \in Int
    BY Deltas DEF InScale
  <2>2. QED
    BY <2>1, WithinScale
<1> HIDE DEF n, m
<1>3. DOMAIN d = Fields /\ d.trust = n
      /\ d.instruction = c.instruction /\ d.goal = c.goal /\ d.uncertain = c.uncertain
      /\ d.failures = c.failures /\ d.resistance = c.resistance /\ d.momentum = c.momentum
      /\ d.heat = c.heat /\ d.turn = c.turn /\ d.person = c.person /\ d.owner = c.owner
      /\ d.dnc = c.dnc /\ d.stopped = c.stopped /\ d.ending = c.ending
  BY DEF Fields
<1> HIDE DEF d
<1>4. InScale(c) => InScale(d)
  BY <1>2, <1>3 DEF InScale
<1>5. QED
  BY <1>1, <1>3, <1>4 DEF Follows, Believed

LEMMA MomentumFollows ==
  ASSUME NEW c, NEW u, DOMAIN c = Fields
  PROVE  Follows(c, C!Momentum(c, u))
<1>1. PICK delta \in Int : C!Momentum(c, u) = [c EXCEPT !.momentum = C!Within(c.momentum + delta)]
  <2> DEFINE matched == C!Says(u, {"yes", "process", "offer", "ready", "stop", "think"})
             total == C!MomentumDelta(u) - (IF u.words < 4 /\ ~matched THEN 5 ELSE 0)
                      + (IF u.words > 12 THEN 5 ELSE 0) + (IF C!Asks(u) THEN 4 ELSE 0)
  <2>1. total \in Int
    BY Deltas
  <2>2. C!Momentum(c, u) = [c EXCEPT !.momentum =
            C!Within(c.momentum + (IF ~matched /\ total = 0 THEN -1 ELSE total))]
    BY DEF C!Momentum
  <2> HIDE DEF total, matched
  <2>3. (IF ~matched /\ total = 0 THEN -1 ELSE total) \in Int
    BY <2>1
  <2>4. QED
    BY <2>2, <2>3
<1> DEFINE n == C!Within(c.momentum + delta)
           d == [c EXCEPT !.momentum = n]
<1>2. InScale(c) => n \in 0 .. 100
  <2>1. InScale(c) => c.momentum + delta \in Int
    BY DEF InScale
  <2>2. QED
    BY <2>1, WithinScale
<1>3. C!Momentum(c, u) = d
  BY <1>1
<1> HIDE DEF n
<1>4. DOMAIN d = Fields /\ d.momentum = n
      /\ d.instruction = c.instruction /\ d.goal = c.goal /\ d.uncertain = c.uncertain
      /\ d.failures = c.failures /\ d.resistance = c.resistance /\ d.trust = c.trust
      /\ d.heat = c.heat /\ d.turn = c.turn /\ d.person = c.person /\ d.owner = c.owner
      /\ d.dnc = c.dnc /\ d.stopped = c.stopped /\ d.ending = c.ending
  BY DEF Fields
<1> HIDE DEF d
<1>5. InScale(c) => InScale(d)
  BY <1>2, <1>4 DEF InScale
<1>6. QED
  BY <1>3, <1>4, <1>5 DEF Follows, Believed

LEMMA HeatFollows ==
  ASSUME NEW c, NEW u, DOMAIN c = Fields
  PROVE  Follows(c, C!Heat(c, u))
<1> DEFINE agent == C!Says(u, {"agent", "noAgent"}) /\ ~c.penalised
           loss == IF agent THEN 20 ELSE 0
           n == C!Within(c.heat + C!HeatDelta(u) - loss)
           m == c.penalised \/ agent
           d == [c EXCEPT !.heat = n, !.penalised = m]
<1>1. C!Heat(c, u) = d
  BY DEF C!Heat
<1>2. InScale(c) => n \in 0 .. 100
  <2>1. loss \in Int
    OBVIOUS
  <2> HIDE DEF loss
  <2>2. InScale(c) => c.heat + C!HeatDelta(u) - loss \in Int
    BY <2>1, Deltas DEF InScale
  <2>3. QED
    BY <2>2, WithinScale
<1> HIDE DEF n, m
<1>3. DOMAIN d = Fields /\ d.heat = n
      /\ d.instruction = c.instruction /\ d.goal = c.goal /\ d.uncertain = c.uncertain
      /\ d.failures = c.failures /\ d.resistance = c.resistance /\ d.momentum = c.momentum
      /\ d.trust = c.trust /\ d.turn = c.turn /\ d.person = c.person /\ d.owner = c.owner
      /\ d.dnc = c.dnc /\ d.stopped = c.stopped /\ d.ending = c.ending
  BY DEF Fields
<1> HIDE DEF d
<1>4. InScale(c) => InScale(d)
  BY <1>2, <1>3 DEF InScale
<1>5. QED
  BY <1>1, <1>3, <1>4 DEF Follows, Believed

LEMMA ResistanceFollows ==
  ASSUME NEW c, NEW u, DOMAIN c = Fields
  PROVE  Follows(c, C!Resistance(c, u))
<1> DEFINE objects == C!Says(u, {"stop", "agent", "refuse", "think"})
           softens == C!Says(u, {"maybe", "process", "offer"})
           raised == C!Min({100, c.resistance + C!ObjectionDelta(u)})
           ease == IF softens THEN 30 ELSE 0
           rest == IF objects THEN 0 ELSE 5
           softened == C!Max({0, raised - ease})
           n == C!Max({0, softened - rest})
           s == softens /\ raised > 0
           l == c.listed \/ C!Says(u, {"agent"})
           a == c.agent \/ c.listed \/ C!Says(u, {"agent"})
           d == [c EXCEPT !.resistance = n, !.softening = s, !.listed = l, !.agent = a]
<1>1. C!Resistance(c, u) = d
  BY DEF C!Resistance
<1>2. InScale(c) => n \in 0 .. 100
  <2> SUFFICES ASSUME InScale(c)
               PROVE  n \in 0 .. 100
    OBVIOUS
  <2>1. ease \in {0, 30} /\ rest \in {0, 5}
    OBVIOUS
  <2> HIDE DEF ease, rest
  <2>2. c.resistance + C!ObjectionDelta(u) \in Int /\ c.resistance + C!ObjectionDelta(u) >= 0
    BY Deltas DEF InScale
  <2>3. raised \in 0 .. 100
    BY <2>2, CapScale
  <2> HIDE DEF raised
  <2>4. raised - ease \in Int /\ raised - ease <= 100
    BY <2>1, <2>3
  <2>5. softened \in 0 .. 100
    BY <2>4, CapScale
  <2> HIDE DEF softened
  <2>6. softened - rest \in Int /\ softened - rest <= 100
    BY <2>1, <2>5
  <2>7. QED
    BY <2>6, CapScale
<1> HIDE DEF n, s, l, a
<1>3. DOMAIN d = Fields /\ d.resistance = n
      /\ d.instruction = c.instruction /\ d.goal = c.goal /\ d.uncertain = c.uncertain
      /\ d.failures = c.failures /\ d.heat = c.heat /\ d.momentum = c.momentum
      /\ d.trust = c.trust /\ d.turn = c.turn /\ d.person = c.person /\ d.owner = c.owner
      /\ d.dnc = c.dnc /\ d.stopped = c.stopped /\ d.ending = c.ending
  BY DEF Fields
<1> HIDE DEF d
<1>4. InScale(c) => InScale(d)
  BY <1>2, <1>3 DEF InScale
<1>5. QED
  BY <1>1, <1>3, <1>4 DEF Follows, Believed

LEMMA Unmoved ==
  ASSUME NEW c, DOMAIN c = Fields
  PROVE  Follows(c, c)
BY DEF Follows

LEMMA TellFollows ==
  ASSUME NEW c, NEW kind, DOMAIN c = Fields
  PROVE  Follows(c, C!Tell(c, kind))
<1> DEFINE told == [kind |-> kind, of |-> heard + 1]
           d == [c EXCEPT !.instruction = told]
<1>1. C!Tell(c, kind) = d /\ told.of = heard + 1
  BY DEF C!Tell
<1> HIDE DEF told
<1>2. DOMAIN d = Fields /\ d.instruction = told /\ d.resistance = c.resistance
      /\ d.goal = c.goal /\ d.uncertain = c.uncertain
      /\ d.failures = c.failures /\ d.heat = c.heat /\ d.momentum = c.momentum
      /\ d.trust = c.trust /\ d.turn = c.turn /\ d.person = c.person /\ d.owner = c.owner
      /\ d.dnc = c.dnc /\ d.stopped = c.stopped /\ d.ending = c.ending
  BY DEF Fields
<1> HIDE DEF d
<1>3. QED
  BY <1>1, <1>2 DEF Follows, InScale, Believed

\* What the caller says of the house: the record and the belief change together.
LEMMA OwnerFollows ==
  ASSUME NEW c, NEW u, DOMAIN c = Fields
  PROVE  Follows(c, C!Ownership(c, u)) /\ Follows(c, C!Affirmed(c, u))
<1> DEFINE no == [c EXCEPT !.owner = FALSE, !.denied = TRUE, !.person = "no",
                           !.awaiting = FALSE, !.agreed = FALSE]
           yes == [c EXCEPT !.owner = TRUE, !.denied = FALSE, !.person = "yes"]
           bare == [c EXCEPT !.owner = TRUE, !.awaiting = FALSE, !.person = "yes"]
<1>1. C!Ownership(c, u) \in {no, yes, c} /\ C!Affirmed(c, u) \in {bare, c}
  BY DEF C!Ownership, C!Affirmed
<1>2. Follows(c, no)
  BY DEF Follows, InScale, Believed, Fields
<1>3. Follows(c, yes)
  BY DEF Follows, InScale, Believed, Fields
<1>4. Follows(c, bare)
  BY DEF Follows, InScale, Believed, Fields
<1> HIDE DEF no, yes, bare
<1>5. QED
  BY <1>1, <1>2, <1>3, <1>4, Unmoved

\* The context tracker, once it has counted the turn.
LEMMA TrackFollows ==
  ASSUME NEW c, NEW u, DOMAIN c = Fields
  PROVE  Follows(c, C!Affirmed(C!Analyze(c, u), u))
<1> DEFINE c1 == C!Refusal(c, u)
           c2 == C!Ownership(c1, u)
           c3 == C!Assent(c2, u)
           c4 == C!Collected(c3, u)
           c5 == C!Affirmed(c4, u)
<1>1. C!Affirmed(C!Analyze(c, u), u) = c5
  BY DEF C!Analyze
<1>2. Follows(c, c1)
  BY Plain
<1> HIDE DEF c1
<1>3. Follows(c1, c2)
  BY <1>2, OwnerFollows DEF Follows
<1> HIDE DEF c2
<1>4. Follows(c2, c3)
  BY <1>3, Plain DEF Follows
<1> HIDE DEF c3
<1>5. Follows(c3, c4)
  BY <1>4, Plain DEF Follows
<1> HIDE DEF c4
<1>6. Follows(c4, c5)
  BY <1>5, OwnerFollows DEF Follows
<1> HIDE DEF c5
<1>7. Follows(c, c3)
  BY <1>2, <1>3, <1>4, FollowsOn
<1>8. Follows(c, c5)
  BY <1>7, <1>5, <1>6, FollowsOn
<1>9. QED
  BY <1>1, <1>8

LEMMA MoodsFollow ==
  ASSUME NEW c, NEW u, DOMAIN c = Fields
  PROVE  Follows(c, C!Moods(c, u))
<1> DEFINE c1 == C!Emotion(c, u)
           c2 == C!Trust(c1, u)
           c3 == C!Resistance(c2, u)
           c4 == C!Momentum(c3, u)
           c5 == C!Fatigue(c4, u)
           c6 == C!Heat(c5, u)
           c7 == C!Microstate(c6, u)
<1>1. C!Moods(c, u) = c7
  BY DEF C!Moods
<1>2. Follows(c, c1)
  BY Plain
<1> HIDE DEF c1
<1>3. Follows(c1, c2)
  BY <1>2, TrustFollows DEF Follows
<1> HIDE DEF c2
<1>4. Follows(c2, c3)
  BY <1>3, ResistanceFollows DEF Follows
<1> HIDE DEF c3
<1>5. Follows(c3, c4)
  BY <1>4, MomentumFollows DEF Follows
<1> HIDE DEF c4
<1>6. Follows(c4, c5)
  BY <1>5, Plain DEF Follows
<1> HIDE DEF c5
<1>7. Follows(c5, c6)
  BY <1>6, HeatFollows DEF Follows
<1> HIDE DEF c6
<1>8. Follows(c6, c7)
  BY <1>7, Plain DEF Follows
<1> HIDE DEF c7
<1>9. Follows(c, c3)
  BY <1>2, <1>3, <1>4, FollowsOn
<1>10. Follows(c, c5)
  BY <1>9, <1>5, <1>6, FollowsOn
<1>11. Follows(c, c7)
  BY <1>10, <1>7, <1>8, FollowsOn
<1>12. QED
  BY <1>1, <1>11

LEMMA CallbacksFollow ==
  ASSUME NEW c, NEW u, DOMAIN c = Fields
  PROVE  Follows(c, C!Callbacks(c, u))
<1> DEFINE c1 == C!Triggers(c, u)
           c2 == C!Orchestrate(c1, u)
           c3 == C!KillSwitch(c2, u)
<1>1. Follows(c, c1)
  <2> DEFINE d == [c EXCEPT !.ending = TRUE]
  <2>1. C!Triggers(c, u) \in {d, C!Tell(c, C!Plan(c, u)), C!Tell(c, "goodbye"), c}
    BY DEF C!Triggers
  <2>2. Follows(c, d)
    BY DEF Follows, InScale, Believed, Fields
  <2> HIDE DEF d
  <2>3. QED
    BY <2>1, <2>2, TellFollows, Unmoved
<1> HIDE DEF c1
<1>2. Follows(c1, c2)
  <2>1. c2 \in {c1, C!Tell(c1, C!Advice(c1))}
    BY DEF C!Orchestrate
  <2>2. QED
    BY <2>1, <1>1, TellFollows, Unmoved DEF Follows
<1> HIDE DEF c2
<1>3. Follows(c2, c3)
  <2> DEFINE d == [c2 EXCEPT !.killed = TRUE]
  <2>1. c3 \in {C!Tell(d, "fallback"), c2}
    BY DEF C!KillSwitch
  <2>2. DOMAIN c2 = Fields
    BY <1>2 DEF Follows
  <2>3. Follows(c2, d)
    BY <2>2 DEF Follows, InScale, Believed, Fields
  <2> HIDE DEF d
  <2>4. Follows(d, C!Tell(d, "fallback"))
    BY <2>3, TellFollows DEF Follows
  <2>5. QED
    BY <2>1, <2>2, <2>3, <2>4, FollowsOn, Unmoved
<1> HIDE DEF c3
<1>4. Follows(c, c3)
  BY <1>1, <1>2, <1>3, FollowsOn
<1>5. C!Callbacks(c, u) \in {c, c3}
  BY DEF C!Callbacks, c1, c2, c3
<1>6. QED
  BY <1>4, <1>5, Unmoved

LEMMA GuardFollows ==
  ASSUME NEW c, NEW u, DOMAIN c = Fields
  PROVE  Follows(c, C!Identity(C!Guard(c, u), u))
<1> DEFINE c1 == C!Guard(c, u)
           c2 == C!Identity(c1, u)
<1>1. Follows(c, c1)
  BY TellFollows, Unmoved DEF C!Guard
<1> HIDE DEF c1
<1>2. Follows(c1, c2)
  BY <1>1, TellFollows, Unmoved DEF C!Identity, Follows
<1> HIDE DEF c2
<1>3. QED
  BY <1>1, <1>2, FollowsOn DEF c1, c2

LEMMA FirstRule ==
  ASSUME NEW rules, NEW k \in DOMAIN rules, DOMAIN rules = 1 .. 16, rules[k][1],
         \A i \in 1 .. k - 1 : ~ rules[i][1]
  PROVE  C!FirstOf(rules) = rules[k][2]
<1> DEFINE S == {i \in DOMAIN rules : rules[i][1]}
<1>1. k \in S /\ \A i \in S : k <= i
  OBVIOUS
<1>2. \A x \in S : (\A y \in S : x <= y) => x = k
  BY <1>1
<1> HIDE DEF S
<1>3. C!Min(S) = k
  BY <1>1, <1>2 DEF C!Min
<1>4. QED
  BY <1>3 DEF C!FirstOf, S

LEMMA PlanStarts ==
  ASSUME NEW c, NEW u
  PROVE  /\ c.stopped \/ C!Says(u, {"stop"}) => C!Plan(c, u) = "stop"
         /\ ~ (c.stopped \/ C!Says(u, {"stop"})) /\ C!Says(u, {"ai"}) => C!Plan(c, u) = "identity"
         /\ ~ (c.stopped \/ C!Says(u, {"stop"})) /\ ~ C!Says(u, {"ai"}) /\ c.uncertain
            => C!Plan(c, u) = "clarify_audio"
<1> DEFINE r1 == <<c.stopped \/ C!Says(u, {"stop"}), "stop">>
           r2 == <<C!Says(u, {"ai"}), "identity">>
           r3 == <<c.uncertain, "clarify_audio">>
           rules == <<r1, r2, r3,
    <<C!Says(u, {"human"}), "human">>,
    <<C!Says(u, {"refuse"}), "decline">>,
    <<C!Says(u, {"bye"}), "goodbye">>,
    <<C!Says(u, {"repair"}), "repair">>,
    <<C!Asks(u), "answer">>,
    <<C!Says(u, {"think"}) \/ (c.asked /\ C!Says(u, {"maybe"})), "space">>,
    <<c.denied, "contact">>,
    <<c.emotion \in C!Distressed, "empathy">>,
    <<c.booked, "saved_next_step">>,
    <<c.agreed, "schedule">>,
    <<~c.owner, "contact">>,
    <<~c.intent /\ ~c.motivated, "interest">>,
    <<TRUE, "discover">> >>
<1>1. C!Plan(c, u) = C!FirstOf(rules)
  BY DEF C!Plan
<1>2. /\ r1[1] <=> c.stopped \/ C!Says(u, {"stop"})
      /\ r2[1] <=> C!Says(u, {"ai"})
      /\ r3[1] <=> c.uncertain
  OBVIOUS
<1>3. r1[2] = "stop" /\ r2[2] = "identity" /\ r3[2] = "clarify_audio"
  OBVIOUS
<1> HIDE DEF r1, r2, r3
<1>4. DOMAIN rules = 1 .. 16 /\ rules[1] = r1 /\ rules[2] = r2 /\ rules[3] = r3
  OBVIOUS
<1> HIDE DEF rules
<1>5. CASE c.stopped \/ C!Says(u, {"stop"})
  <2>1. C!FirstOf(rules) = rules[1][2]
    BY <1>2, <1>4, <1>5, FirstRule
  <2>2. QED
    BY <1>1, <1>3, <1>4, <1>5, <2>1
<1>6. CASE ~ (c.stopped \/ C!Says(u, {"stop"})) /\ C!Says(u, {"ai"})
  <2>1. C!FirstOf(rules) = rules[2][2]
    BY <1>2, <1>4, <1>6, FirstRule
  <2>2. QED
    BY <1>1, <1>3, <1>4, <1>6, <2>1
<1>7. CASE ~ (c.stopped \/ C!Says(u, {"stop"})) /\ ~ C!Says(u, {"ai"}) /\ c.uncertain
  <2>1. C!FirstOf(rules) = rules[3][2]
    BY <1>2, <1>4, <1>7, FirstRule
  <2>2. QED
    BY <1>1, <1>3, <1>4, <1>7, <2>1
<1>8. QED
  BY <1>5, <1>6, <1>7
(***************************************************************************)
(* A context after n frames: whoever is on the do-not-call list is stopped *)
(* and the call is ending.                                                 *)
(***************************************************************************)
ViewSound(v, n) ==
    /\ DOMAIN v = Fields /\ InScale(v) /\ Believed(v)
    /\ v.turn \in 0 .. n /\ v.failures \in 0 .. 2 * n
    /\ v.dnc => v.stopped /\ v.ending

Speaks(v) == v.instruction = C!NoInstruction \/ v.instruction.of = heard + 1

\* What a frame begins with: no goal and no instruction of the turn before.
LEMMA FrameBegins ==
  ASSUME NEW u \in Utterance, heard \in Nat, ViewSound(view, heard)
  PROVE  LET c == C!Understand(C!Reset(view, u), u)
         IN  /\ DOMAIN c = Fields /\ InScale(c) /\ Believed(c) /\ c.turn = view.turn
             /\ c.failures \in 0 .. 2 * heard + 1 /\ c.dnc = view.dnc
             /\ c.stopped = view.stopped /\ c.ending = view.ending
             /\ (c.uncertain <=> ~ u.clear) /\ c.goal = "" /\ c.instruction = C!NoInstruction
<1> DEFINE v == C!Reset(view, u)
           n == CASE ~u.clear -> v.failures + 1 [] C!Says(u, {"repair"}) -> v.failures [] OTHER -> 0
           c == [v EXCEPT !.uncertain = ~u.clear, !.failures = n]
<1>1. C!Understand(C!Reset(view, u), u) = c
  BY DEF C!Understand
<1>2. DOMAIN v = Fields /\ v.trust = view.trust /\ v.resistance = view.resistance
      /\ v.momentum = view.momentum /\ v.heat = view.heat /\ v.person = view.person
      /\ v.owner = view.owner /\ v.turn = view.turn /\ v.failures = view.failures
      /\ v.dnc = view.dnc /\ v.stopped = view.stopped /\ v.ending = view.ending
      /\ v.goal = "" /\ v.instruction = C!NoInstruction
  BY DEF C!Reset, ViewSound, Fields
<1> HIDE DEF v
<1>3. n \in 0 .. 2 * heard + 1
  <2>1. v.failures \in 0 .. 2 * heard
    BY <1>2 DEF ViewSound
  <2>2. QED
    BY <2>1
<1> HIDE DEF n
<1>4. DOMAIN c = Fields /\ c.trust = v.trust /\ c.resistance = v.resistance
      /\ c.momentum = v.momentum /\ c.heat = v.heat /\ c.person = v.person
      /\ c.owner = v.owner /\ c.turn = v.turn /\ c.failures = n
      /\ c.dnc = v.dnc /\ c.stopped = v.stopped /\ c.ending = v.ending
      /\ c.goal = v.goal /\ c.instruction = v.instruction
  BY <1>2 DEF Fields
<1>5. c.uncertain <=> ~ u.clear
  BY <1>2 DEF Fields
<1> HIDE DEF c
<1>6. InScale(c) /\ Believed(c)
  <2>1. InScale(view) /\ Believed(view)
    BY DEF ViewSound
  <2>2. InScale(c)
    BY <1>2, <1>4, <2>1 DEF InScale
  <2>3. Believed(c)
    BY <1>2, <1>4, <2>1 DEF Believed
  <2>4. QED
    BY <2>2, <2>3
<1>7. QED
  BY <1>1, <1>2, <1>3, <1>4, <1>5, <1>6

LEMMA LostKeeps ==
  ASSUME NEW u \in Utterance, heard \in Nat, ViewSound(view, heard), C!Lost(u)
  PROVE  /\ ViewSound(view', heard + 1) /\ Speaks(view') /\ view'.goal = ""
         /\ view'.stopped = view.stopped /\ (view.ending => view'.ending)
<1> DEFINE c == C!Understand(C!Reset(view, u), u)
           g == C!Identity(C!Guard(c, u), u)
           d == C!Emotion(g, u)
           m == C!Challenges(d, u)
           e == [d EXCEPT !.challenges = m]
<1>1. view' = c \/ view' = e
  BY DEF C!Lost
<1>2. /\ DOMAIN c = Fields /\ InScale(c) /\ Believed(c) /\ c.turn = view.turn
      /\ c.failures \in 0 .. 2 * heard + 1 /\ c.dnc = view.dnc
      /\ c.stopped = view.stopped /\ c.ending = view.ending
      /\ c.goal = "" /\ c.instruction = C!NoInstruction
  BY FrameBegins
<1> HIDE DEF c
<1>3. Follows(c, g)
  BY <1>2, GuardFollows
<1> HIDE DEF g
<1>4. Follows(g, d)
  BY <1>3, Plain DEF Follows
<1> HIDE DEF d, m
<1>5. DOMAIN d = Fields
  BY <1>4 DEF Follows
<1>6. Follows(d, e)
  <2>1. DOMAIN e = Fields /\ Same(d, e)
    BY <1>5 DEF Fields, Same
  <2> HIDE DEF e
  <2>2. QED
    BY <2>1, SameFollows
<1> HIDE DEF e
<1>7. Follows(c, c) /\ Follows(c, e)
  BY <1>2, <1>3, <1>4, <1>6, FollowsOn, Unmoved
<1>8. ASSUME NEW w, Follows(c, w)
      PROVE  /\ ViewSound(w, heard + 1) /\ w.goal = "" /\ Speaks(w)
             /\ w.stopped = view.stopped /\ (view.ending => w.ending)
  <2>1. DOMAIN w = Fields /\ InScale(w) /\ Believed(w) /\ w.dnc = view.dnc
        /\ w.stopped = view.stopped /\ (view.ending => w.ending)
    BY <1>2, <1>8 DEF Follows
  <2>2. w.turn \in 0 .. heard + 1
    <3>1. w.turn = view.turn
      BY <1>2, <1>8 DEF Follows
    <3>2. view.turn \in 0 .. heard
      BY DEF ViewSound
    <3>3. QED
      BY <3>1, <3>2
  <2>3. w.failures \in 0 .. 2 * (heard + 1)
    <3>1. w.failures \in 0 .. 2 * heard + 1
      BY <1>2, <1>8 DEF Follows
    <3>2. QED
      BY <3>1
  <2>4. Speaks(w) /\ w.goal = ""
    BY <1>2, <1>8 DEF Follows, Speaks
  <2>5. QED
    BY <2>1, <2>2, <2>3, <2>4 DEF ViewSound
<1>9. QED
  BY <1>1, <1>7, <1>8

\* A frame as the context tracker leaves it: the turn is counted.
LEMMA Tracked ==
  ASSUME NEW u \in Utterance, heard \in Nat, ViewSound(view, heard)
  PROVE  LET c == C!Identity(C!Guard(C!Understand(C!Reset(view, u), u), u), u)
             d == C!Track(IF c.uncertain THEN c ELSE C!Moods(c, u), u)
         IN  /\ DOMAIN d = Fields /\ InScale(d) /\ Believed(d) /\ d.turn \in 0 .. heard + 1
             /\ d.failures \in 0 .. 2 * heard + 1 /\ d.dnc = view.dnc
             /\ d.stopped = view.stopped /\ (view.ending => d.ending)
             /\ (d.uncertain <=> ~ u.clear) /\ d.goal = "" /\ Speaks(d)
<1> DEFINE b == C!Understand(C!Reset(view, u), u)
           c == C!Identity(C!Guard(b, u), u)
           m == IF c.uncertain THEN c ELSE C!Moods(c, u)
           n == m.turn + 1
           e == [m EXCEPT !.turn = n]
           d == C!Track(m, u)
<1>1. /\ DOMAIN b = Fields /\ InScale(b) /\ Believed(b) /\ b.turn = view.turn
      /\ b.failures \in 0 .. 2 * heard + 1 /\ b.dnc = view.dnc
      /\ b.stopped = view.stopped /\ b.ending = view.ending
      /\ (b.uncertain <=> ~ u.clear) /\ b.goal = "" /\ b.instruction = C!NoInstruction
  BY FrameBegins
<1> HIDE DEF b
<1>2. Follows(b, c)
  BY <1>1, GuardFollows
<1> HIDE DEF c
<1>3. Follows(c, m)
  BY <1>2, MoodsFollow, Unmoved DEF Follows
<1>4. Follows(b, m)
  BY <1>2, <1>3, FollowsOn
<1>5. d \in {e, C!Affirmed(C!Analyze(e, u), u)}
  BY DEF C!Track
<1> HIDE DEF m
<1>6. n \in 0 .. heard + 1
  <2>1. m.turn = view.turn
    BY <1>1, <1>4 DEF Follows
  <2>2. view.turn \in 0 .. heard
    BY DEF ViewSound
  <2>3. QED
    BY <2>1, <2>2
<1>7. DOMAIN m = Fields
  BY <1>4 DEF Follows
<1> HIDE DEF n
<1>8. /\ DOMAIN e = Fields /\ e.turn = n /\ e.instruction = m.instruction /\ e.goal = m.goal
      /\ e.uncertain = m.uncertain /\ e.failures = m.failures /\ e.trust = m.trust
      /\ e.resistance = m.resistance /\ e.momentum = m.momentum /\ e.heat = m.heat
      /\ e.person = m.person /\ e.owner = m.owner /\ e.dnc = m.dnc /\ e.stopped = m.stopped
      /\ e.ending = m.ending
  BY <1>7 DEF Fields
<1> HIDE DEF e
<1>9. InScale(e) /\ Believed(e)
  BY <1>1, <1>4, <1>8 DEF Follows, InScale, Believed
<1>10. Follows(e, d)
  BY <1>5, <1>8, TrackFollows, Unmoved
<1> HIDE DEF d
<1>11. DOMAIN d = Fields /\ InScale(d) /\ Believed(d) /\ d.turn = n /\ d.failures = b.failures
       /\ d.dnc = b.dnc /\ d.stopped = b.stopped /\ (b.ending => d.ending)
       /\ d.uncertain = b.uncertain /\ d.goal = b.goal
  BY <1>4, <1>8, <1>9, <1>10 DEF Follows
<1>12. Speaks(d)
  BY <1>1, <1>4, <1>8, <1>10 DEF Follows, Speaks
<1>13. QED
  BY <1>1, <1>6, <1>11, <1>12 DEF b, c, m, d

Unclear == {"", "stop", "identity", "clarify_audio"}
Machine == {"", "stop", "identity"}

LEMMA HeardKeeps ==
  ASSUME NEW u \in Utterance, heard \in Nat, ViewSound(view, heard), C!Heard(u)
  PROVE  /\ ViewSound(view', heard + 1) /\ Speaks(view')
         /\ (view.stopped => view'.stopped) /\ (view.ending => view'.ending)
         /\ C!Says(u, {"stop"}) => view'.stopped /\ view'.ending
         /\ \/ pending' = pending /\ view'.goal = ""
            \/ /\ pending' = {[of |-> heard + 1, cues |-> u.cues, clear |-> u.clear]}
               /\ ~ u.clear => view'.goal \in Unclear
               /\ C!Says(u, {"ai"}) => view'.goal \in Machine
<1> DEFINE c == C!Identity(C!Guard(C!Understand(C!Reset(view, u), u), u), u)
           d == C!Track(IF c.uncertain THEN c ELSE C!Moods(c, u), u)
           o == C!Objective(d, u)
           e == C!Callbacks(o, u)
<1>1. \/ C!StopsHere(d, u) /\ view' = C!HonorStop(d) /\ pending' = pending
      \/ ~ C!StopsHere(d, u) /\ view' = C!Policy(e, u)
         /\ pending' = {[of |-> heard + 1, cues |-> u.cues, clear |-> u.clear]}
  BY DEF C!Heard
<1>2. /\ DOMAIN d = Fields /\ InScale(d) /\ Believed(d) /\ d.turn \in 0 .. heard + 1
      /\ d.failures \in 0 .. 2 * heard + 1 /\ d.dnc = view.dnc
      /\ d.stopped = view.stopped /\ (view.ending => d.ending)
      /\ (d.uncertain <=> ~ u.clear) /\ d.goal = "" /\ Speaks(d)
  BY Tracked
<1>3. view.dnc => view.stopped /\ view.ending
  BY DEF ViewSound
<1> HIDE DEF c, d
<1>4. CASE C!StopsHere(d, u) /\ view' = C!HonorStop(d) /\ pending' = pending
  <2> DEFINE w == [d EXCEPT !.dnc = TRUE, !.stopped = TRUE, !.ending = TRUE,
                            !.instruction = C!NoInstruction]
  <2>1. view' = w
    BY <1>4 DEF C!HonorStop
  <2>2. DOMAIN w = Fields /\ w.trust = d.trust /\ w.resistance = d.resistance
        /\ w.momentum = d.momentum /\ w.heat = d.heat /\ w.person = d.person
        /\ w.owner = d.owner /\ w.turn = d.turn /\ w.failures = d.failures /\ w.goal = d.goal
    BY <1>2 DEF Fields
  <2>3. w.stopped /\ w.ending /\ w.instruction = C!NoInstruction
    BY <1>2 DEF Fields
  <2> HIDE DEF w
  <2>4. InScale(w)
    BY <1>2, <2>2 DEF InScale
  <2>5. Believed(w)
    BY <1>2, <2>2 DEF Believed
  <2>6. w.failures \in 0 .. 2 * (heard + 1)
    <3>1. w.failures \in 0 .. 2 * heard + 1
      BY <1>2, <2>2
    <3>2. QED
      BY <3>1
  <2>7. ViewSound(w, heard + 1)
    BY <1>2, <2>2, <2>3, <2>4, <2>5, <2>6 DEF ViewSound
  <2>8. QED
    BY <1>2, <1>4, <2>1, <2>2, <2>3, <2>7 DEF Speaks
<1>5. CASE /\ ~ C!StopsHere(d, u) /\ view' = C!Policy(e, u)
           /\ pending' = {[of |-> heard + 1, cues |-> u.cues, clear |-> u.clear]}
  <2> DEFINE p == C!Plan(e, u)
             n == IF p = "repair" THEN e.failures + 1 ELSE e.failures
             w == [e EXCEPT !.goal = p, !.failures = n]
  <2>1. view' = w
    BY <1>5 DEF C!Policy
  <2>2. Follows(d, o)
    BY <1>2, Plain
  <2> HIDE DEF o
  <2>3. Follows(o, e)
    BY <2>2, CallbacksFollow DEF Follows
  <2> HIDE DEF e
  <2>4. Follows(d, e)
    BY <2>2, <2>3, FollowsOn
  <2>5. /\ DOMAIN e = Fields /\ InScale(e) /\ Believed(e) /\ e.turn = d.turn
        /\ e.failures = d.failures /\ e.dnc = d.dnc /\ e.stopped = d.stopped
        /\ (d.ending => e.ending) /\ e.uncertain = d.uncertain
    BY <1>2, <2>4 DEF Follows
  <2>6. Speaks(e)
    BY <1>2, <2>4 DEF Follows, Speaks
  <2>7. n \in 0 .. 2 * (heard + 1)
    <3>1. e.failures \in 0 .. 2 * heard + 1
      BY <1>2, <2>5
    <3>2. QED
      BY <3>1
  <2>8. /\ ~ u.clear => p \in Unclear
        /\ C!Says(u, {"ai"}) => p \in Machine
    BY <1>2, <2>5, PlanStarts DEF Unclear, Machine
  <2> HIDE DEF p, n
  <2>9. DOMAIN w = Fields /\ w.trust = e.trust /\ w.resistance = e.resistance
        /\ w.momentum = e.momentum /\ w.heat = e.heat /\ w.person = e.person
        /\ w.owner = e.owner /\ w.turn = e.turn /\ w.failures = n /\ w.goal = p
        /\ w.dnc = e.dnc /\ w.stopped = e.stopped /\ w.ending = e.ending
        /\ w.instruction = e.instruction
    BY <2>5 DEF Fields
  <2> HIDE DEF w
  <2>10. InScale(w)
    BY <2>5, <2>9 DEF InScale
  <2>11. Believed(w)
    BY <2>5, <2>9 DEF Believed
  <2>12. w.dnc => w.stopped /\ w.ending
    BY <1>2, <1>3, <2>5, <2>9
  <2>13. ViewSound(w, heard + 1)
    BY <1>2, <2>5, <2>7, <2>9, <2>10, <2>11, <2>12 DEF ViewSound
  <2>14. Speaks(w)
    BY <2>6, <2>9 DEF Speaks
  <2>15. C!Says(u, {"stop"}) => w.dnc
    BY <1>5, <2>5, <2>9 DEF C!StopsHere
  <2>16. (view.stopped => w.stopped) /\ (view.ending => w.ending)
    BY <1>2, <2>5, <2>9
  <2>17. QED
    BY <1>5, <2>1, <2>8, <2>9, <2>12, <2>13, <2>14, <2>15, <2>16
<1>6. QED
  BY <1>1, <1>4, <1>5
-----------------------------------------------------------------------------
\* What waits to be told to the model: its instruction, if any, is no older than the words, and
\* its goal is one that they allow.
TurnSound(v, t) ==
    /\ t.of \in Nat /\ t.of <= heard
    /\ v.instruction # C!NoInstruction => v.instruction.of >= t.of
    /\ ~ t.clear => v.goal \in Unclear
    /\ "ai" \in t.cues => v.goal \in Machine

TalkInv ==
    /\ C!ConversationSound /\ heard \in Nat /\ ViewSound(view, heard) /\ stops \in 0 .. heard
    /\ \A t \in pending : TurnSound(view, t)

LEMMA TalkBegins == C!Init /\ MaxTurns \in Nat => TalkInv
<1> SUFFICES ASSUME C!Init, MaxTurns \in Nat
             PROVE  TalkInv
  OBVIOUS
<1>1. DOMAIN view = Fields
  BY DEF C!Init, Fields
<1>2. view.trust = 50 /\ view.resistance = 0 /\ view.momentum = 50 /\ view.heat = 0
      /\ view.turn = 0 /\ view.failures = 0 /\ view.person = "none"
  BY DEF C!Init
<1>3. ~ view.dnc
  BY DEF C!Init
<1>4. heard = 0 /\ stops = 0 /\ pending = {} /\ saying \in BOOLEAN
  BY DEF C!Init
<1>5. InScale(view) /\ Believed(view)
  BY <1>2 DEF InScale, Believed
<1>6. ViewSound(view, heard)
  BY <1>1, <1>2, <1>3, <1>4, <1>5 DEF ViewSound
<1>7. C!TypeOK
  BY <1>2, <1>4 DEF C!TypeOK
<1>8. C!FactIsBelieved /\ C!StopIsHonoured
  BY <1>2, <1>4 DEF C!FactIsBelieved, C!StopIsHonoured
<1>9. C!ToldOfThisTurn
  BY DEF C!ToldOfThisTurn, C!Init
<1>10. C!GoalFitsTheWords
  BY DEF C!GoalFitsTheWords, C!Init
<1>11. QED
  BY <1>4, <1>6, <1>7, <1>8, <1>9, <1>10 DEF TalkInv, C!ConversationSound

\* A frame of the caller's.
LEMMA FrameKeeps ==
  ASSUME NEW u \in Utterance, TalkInv, MaxTurns \in Nat, C!Lost(u) \/ C!Heard(u)
  PROVE  TalkInv'
<1>1. heard \in Nat /\ ViewSound(view, heard) /\ stops \in 0 .. heard /\ C!TypeOK
      /\ C!ToldOfThisTurn /\ C!GoalFitsTheWords /\ C!StopIsHonoured
      /\ \A t \in pending : TurnSound(view, t)
  BY DEF TalkInv, C!ConversationSound
<1>2. /\ heard < MaxTurns /\ heard' = heard + 1 /\ UNCHANGED <<saying, read>>
      /\ \/ stops' = stops
         \/ /\ stops' = stops + 1
            /\ C!Heard(u) /\ C!Says(u, {"stop"})
  <2>1. CASE C!Lost(u)
    BY <2>1 DEF C!Lost
  <2>2. CASE C!Heard(u)
    <3>1. heard < MaxTurns /\ heard' = heard + 1 /\ UNCHANGED <<saying, read>>
          /\ stops' = stops + (IF C!Says(u, {"stop"}) THEN 1 ELSE 0)
      BY <2>2 DEF C!Heard
    <3>2. stops + 0 = stops
      BY <1>1
    <3>3. QED
      BY <2>2, <3>1, <3>2
  <2>3. QED
    BY <2>1, <2>2
<1>3. ViewSound(view', heard + 1) /\ Speaks(view')
      /\ (view.stopped => view'.stopped) /\ (view.ending => view'.ending)
  BY <1>1, LostKeeps, HeardKeeps
<1>4. C!Heard(u) /\ C!Says(u, {"stop"}) => view'.stopped /\ view'.ending
  BY <1>1, HeardKeeps
<1>5. \/ pending' = pending /\ view'.goal = ""
      \/ /\ pending' = {[of |-> heard + 1, cues |-> u.cues, clear |-> u.clear]}
         /\ ~ u.clear => view'.goal \in Unclear
         /\ C!Says(u, {"ai"}) => view'.goal \in Machine
  <2>1. CASE C!Lost(u)
    BY <1>1, <2>1, LostKeeps DEF C!Lost
  <2>2. CASE C!Heard(u)
    BY <1>1, <2>2, HeardKeeps
  <2>3. QED
    BY <2>1, <2>2
<1>6. ASSUME NEW t \in pending'
      PROVE  /\ t.of \in Nat /\ t.of <= heard + 1
             /\ view'.instruction # C!NoInstruction => view'.instruction.of >= t.of
             /\ ~ t.clear => view'.goal \in Unclear
             /\ "ai" \in t.cues => view'.goal \in Machine
  <2>1. CASE pending' = pending /\ view'.goal = ""
    <3>1. t.of \in Nat /\ t.of <= heard
      BY <1>1, <1>6, <2>1 DEF TurnSound
    <3>2. view'.instruction # C!NoInstruction => view'.instruction.of = heard + 1
      BY <1>3 DEF Speaks
    <3>3. view'.instruction # C!NoInstruction => view'.instruction.of >= t.of
      BY <1>1, <3>1, <3>2
    <3>4. t.of <= heard + 1
      BY <1>1, <3>1
    <3>5. QED
      BY <2>1, <3>1, <3>3, <3>4 DEF Unclear, Machine
  <2>2. CASE /\ pending' = {[of |-> heard + 1, cues |-> u.cues, clear |-> u.clear]}
             /\ ~ u.clear => view'.goal \in Unclear
             /\ C!Says(u, {"ai"}) => view'.goal \in Machine
    <3>1. t.of = heard + 1 /\ t.cues = u.cues
      BY <1>6, <2>2
    <3>2. t.clear <=> u.clear
      BY <1>6, <2>2
    <3>3. view'.instruction # C!NoInstruction => view'.instruction.of = heard + 1
      BY <1>3 DEF Speaks
    <3>4. "ai" \in t.cues => C!Says(u, {"ai"})
      BY <3>1 DEF C!Says
    <3>5. QED
      BY <1>1, <2>2, <3>1, <3>2, <3>3, <3>4
  <2>3. QED
    BY <1>5, <2>1, <2>2
<1>7. (\A t \in pending : TurnSound(view, t))'
  BY <1>2, <1>6 DEF TurnSound
<1>8. stops' \in 0 .. heard' /\ heard' \in Nat /\ heard' <= MaxTurns
  BY <1>1, <1>2
<1>9. C!StopIsHonoured'
  BY <1>1, <1>2, <1>3, <1>4 DEF C!StopIsHonoured
<1>10. ViewSound(view', heard')
  BY <1>2, <1>3
<1>11. InScale(view') /\ Believed(view') /\ view'.turn <= heard' /\ view'.failures <= 2 * heard'
  BY <1>8, <1>10 DEF ViewSound
<1>12. C!TypeOK' /\ C!FactIsBelieved'
  BY <1>1, <1>2, <1>8, <1>11 DEF C!TypeOK, C!FactIsBelieved, InScale, Believed
<1>13. C!ToldOfThisTurn' /\ C!GoalFitsTheWords'
  BY <1>1, <1>2 DEF C!ToldOfThisTurn, C!GoalFitsTheWords
<1>14. QED
  BY <1>7, <1>8, <1>9, <1>10, <1>12, <1>13 DEF TalkInv, C!ConversationSound

\* The model is told of the turn that waits; what it says changes no goal and no words.
LEMMA AnswerKeeps ==
  ASSUME TalkInv, C!Ask \/ C!Speak \/ C!Book
  PROVE  TalkInv'
<1>1. heard \in Nat /\ ViewSound(view, heard) /\ stops \in 0 .. heard /\ C!TypeOK
      /\ C!ToldOfThisTurn /\ C!GoalFitsTheWords /\ C!StopIsHonoured
      /\ \A t \in pending : TurnSound(view, t)
  BY DEF TalkInv, C!ConversationSound
<1>2. heard' = heard /\ stops' = stops
  BY DEF C!Ask, C!Speak, C!Book
<1>3. DOMAIN view = Fields
  BY <1>1 DEF ViewSound
<1>4. /\ DOMAIN view' = Fields /\ view'.trust = view.trust /\ view'.resistance = view.resistance
      /\ view'.momentum = view.momentum /\ view'.heat = view.heat /\ view'.turn = view.turn
      /\ view'.failures = view.failures /\ view'.person = view.person
      /\ view'.owner = view.owner /\ view'.dnc = view.dnc /\ view'.stopped = view.stopped
      /\ view'.ending = view.ending /\ view'.goal = view.goal
  <2>1. CASE C!Ask
    BY <1>3, <2>1 DEF C!Ask, Fields
  <2>2. CASE C!Speak
    <3>1. CASE UNCHANGED view
      BY <1>3, <3>1
    <3>2. CASE \E q \in Question :
                  view' = [view EXCEPT !.asked = (q = "walkthrough"), !.awaiting = (q = "owner")]
      BY <1>3, <3>2 DEF Fields
    <3>3. CASE view' = [view EXCEPT !.instruction = [kind |-> "watch", of |-> heard]]
      BY <1>3, <3>3 DEF Fields
    <3>4. QED
      BY <2>2, <3>1, <3>2, <3>3 DEF C!Speak
  <2>3. CASE C!Book
    BY <1>3, <2>3 DEF C!Book, Fields
  <2>4. QED
    BY <2>1, <2>2, <2>3
<1>5. InScale(view') /\ Believed(view') /\ ViewSound(view', heard)
  <2>1. InScale(view')
    BY <1>1, <1>4 DEF ViewSound, InScale
  <2>2. Believed(view')
    BY <1>1, <1>4 DEF ViewSound, Believed
  <2>3. QED
    BY <1>1, <1>4, <2>1, <2>2 DEF ViewSound
<1>6. C!StopIsHonoured'
  BY <1>1, <1>2, <1>4 DEF C!StopIsHonoured
<1>7. C!TypeOK' /\ C!FactIsBelieved'
  <2>1. saying' \in BOOLEAN
    BY <1>1 DEF C!TypeOK, C!Ask, C!Speak, C!Book
  <2>2. view'.turn <= heard' /\ view'.failures <= 2 * heard'
    BY <1>1, <1>2, <1>4 DEF C!TypeOK
  <2>3. QED
    BY <1>1, <1>2, <1>5, <2>1, <2>2 DEF C!TypeOK, C!FactIsBelieved, InScale, Believed
<1>8. CASE C!Ask
  <2>1. PICK t \in pending :
          read' = [goal |-> view.goal, instruction |-> view.instruction,
                   of |-> t.of, cues |-> t.cues, clear |-> t.clear]
    BY <1>8 DEF C!Ask
  <2>2. read'.goal = view.goal /\ read'.instruction = view.instruction /\ read'.of = t.of
        /\ read'.cues = t.cues
    BY <2>1
  <2>3. read'.clear <=> t.clear
    BY <2>1
  <2>4. TurnSound(view, t)
    BY <1>1
  <2>5. C!ToldOfThisTurn'
    BY <2>2, <2>4 DEF C!ToldOfThisTurn, TurnSound, C!NoInstruction
  <2>6. C!GoalFitsTheWords'
    BY <2>2, <2>3, <2>4 DEF C!GoalFitsTheWords, TurnSound, Unclear, Machine
  <2>7. pending' = {}
    BY <1>8 DEF C!Ask
  <2>8. QED
    BY <1>1, <1>2, <1>5, <1>6, <1>7, <2>5, <2>6, <2>7 DEF TalkInv, C!ConversationSound
<1>9. CASE C!Speak \/ C!Book
  <2>1. UNCHANGED <<pending, read>>
    BY <1>9 DEF C!Speak, C!Book
  <2>2. view'.instruction = view.instruction \/ view'.instruction.of = heard
    <3>1. CASE C!Speak
      <4>1. CASE UNCHANGED view
        BY <4>1
      <4>2. CASE \E q \in Question :
                    view' = [view EXCEPT !.asked = (q = "walkthrough"), !.awaiting = (q = "owner")]
        BY <1>3, <4>2 DEF Fields
      <4>3. CASE view' = [view EXCEPT !.instruction = [kind |-> "watch", of |-> heard]]
        BY <1>3, <4>3 DEF Fields
      <4>4. QED
        BY <3>1, <4>1, <4>2, <4>3 DEF C!Speak
    <3>2. CASE C!Book
      BY <1>3, <3>2 DEF C!Book, Fields
    <3>3. QED
      BY <1>9, <3>1, <3>2
  <2>3. ASSUME NEW t \in pending
        PROVE  TurnSound(view, t)'
    <3>1. TurnSound(view, t)
      BY <1>1
    <3>2. t.of \in Nat /\ t.of <= heard
      BY <3>1 DEF TurnSound
    <3>3. view'.instruction # C!NoInstruction => view'.instruction.of >= t.of
      BY <1>1, <2>2, <3>1, <3>2 DEF TurnSound
    <3>4. QED
      BY <1>2, <1>4, <3>1, <3>2, <3>3 DEF TurnSound
  <2>4. C!ToldOfThisTurn' /\ C!GoalFitsTheWords'
    BY <1>1, <2>1 DEF C!ToldOfThisTurn, C!GoalFitsTheWords
  <2>5. (\A t \in pending : TurnSound(view, t))'
    BY <2>1, <2>3
  <2>6. QED
    BY <1>1, <1>2, <1>5, <1>6, <1>7, <2>4, <2>5 DEF TalkInv, C!ConversationSound
<1>10. QED
  BY <1>8, <1>9

LEMMA SilenceKeeps ==
  ASSUME TalkInv, UNCHANGED talk
  PROVE  TalkInv'
<1>1. view' = view /\ heard' = heard /\ pending' = pending /\ saying' = saying /\ read' = read
      /\ stops' = stops
  BY DEF talk
<1>2. C!ConversationSound'
  BY <1>1 DEF TalkInv, C!ConversationSound, C!TypeOK, C!FactIsBelieved, C!StopIsHonoured,
              C!ToldOfThisTurn, C!GoalFitsTheWords
<1>3. ViewSound(view', heard')
  BY <1>1 DEF TalkInv
<1>4. (\A t \in pending : TurnSound(view, t))'
  BY <1>1 DEF TalkInv, TurnSound
<1>5. QED
  BY <1>1, <1>2, <1>3, <1>4 DEF TalkInv

\* The person recorded is the one believed; a stop phrase that reached the tracker stays in force;
\* the model is told an instruction of the turn it answers, and a goal that guesses at no words it
\* did not understand (voice/processors, voice/conversation_policy.py), for any caller.
THEOREM ConversationIsSound == Spec => []ConversationSound
<1> DEFINE Inv == part = "talk" => TalkInv
<1>1. MaxTurns \in Nat
  BY LiveCallAssumption DEF C!ConversationAssumption
<1>2. Init => Inv
  BY <1>1, TalkBegins DEF Init
<1>3. Inv /\ [Next]_all => Inv'
  <2> SUFFICES ASSUME Inv, [Next]_all, part' = "talk"
               PROVE  TalkInv'
    OBVIOUS
  <2>1. CASE part = "talk" /\ C!Next
    <3>1. CASE C!Hears
      BY <1>1, <2>1, <3>1, FrameKeeps DEF C!Hears
    <3>2. CASE C!Ask \/ C!Speak \/ C!Book
      BY <2>1, <3>2, AnswerKeeps
    <3>3. CASE C!Done
      BY <2>1, <3>3, SilenceKeeps DEF C!Done, C!vars, talk
    <3>4. QED
      BY <2>1, <3>1, <3>2, <3>3 DEF C!Next
  <2>2. CASE UNCHANGED all
    BY <2>2, SilenceKeeps DEF all, talk
  <2>3. QED
    BY <2>1, <2>2 DEF Next
<1>4. Inv => ConversationSound
  BY DEF ConversationSound, TalkInv
<1>5. QED
  BY <1>2, <1>3, <1>4, PTL DEF Spec
=============================================================================
