---------------------------- MODULE ReporterProofs ----------------------------
(***************************************************************************)
(* What the evidence reporter does to a report, for every delay and every  *)
(* number of messages: the inductive invariant Sound, and from it the      *)
(* properties of EvidenceReporter.                                         *)
(***************************************************************************)
EXTENDS EvidenceReporter, SequenceTheorems, TLAPS

\* The missions are numbered by the messages that began them.
MissionsAreCounted == mission <= messages

\* A plan to finalize is a plan for a report that is still open.
PlansAreForOpenReports == pending # None => Open(recorder)

\* While the mission is over, a report that is open is going to be finalized, Delay
\* after it took in the end, unless something has failed.
EndsArePlanned ==
  Open(recorder) /\ published = "idle" /\ ~recorder.failed /\ ~errors =>
    pending # None /\ due + since_end = Delay

Sound ==
  /\ TypeOK /\ MissionsAreCounted
  /\ FinalizedTellsTheWhole
  /\ PlansAreForOpenReports
  /\ AutoFinalize => EndsArePlanned

-----------------------------------------------------------------------------
\* A new report is one, and says nothing yet.
LEMMA FreshIsARecorder ==
  /\ Fresh \in Recorders /\ Fresh # None
  /\ ~Fresh.finalized /\ ~Fresh.failed
  /\ Fresh.json = None /\ Fresh.markdown = None /\ Fresh.records = <<>>
<1>1. <<>> \in Seq(Records)
  BY EmptySeq
<1>2. Fresh \in Recorders
  BY <1>1 DEF Fresh, Recorders
<1> QED
  BY <1>2, ReporterAssumption DEF Fresh

\* Taking an event in changes the records of a report and nothing else of it.
LEMMA TakingAddsARecord ==
  ASSUME NEW r \in Recorders, NEW kind \in Kinds \cup {"event"}, mission' \in Missions
  PROVE  /\ Taking(r, kind) \in Recorders /\ Taking(r, kind) # None
         /\ Taking(r, kind).finalized = r.finalized /\ Taking(r, kind).failed = r.failed
         /\ Taking(r, kind).json = r.json /\ Taking(r, kind).markdown = r.markdown
         /\ Taking(r, kind).records
              = Append(r.records, [mission |-> mission', kind |-> kind])
<1> DEFINE e == [mission |-> mission', kind |-> kind]
<1>1. e \in Records
  BY DEF Records
<1>2. r.records \in Seq(Records)
  BY DEF Recorders
<1>3. Append(r.records, e) \in Seq(Records)
  BY <1>1, <1>2, AppendProperties
<1>4. Taking(r, kind) = [r EXCEPT !.records = Append(r.records, e)]
  BY DEF Taking, Recorders
<1> HIDE DEF e
<1>5. /\ Taking(r, kind) \in Recorders
      /\ Taking(r, kind).finalized = r.finalized /\ Taking(r, kind).failed = r.failed
      /\ Taking(r, kind).json = r.json /\ Taking(r, kind).markdown = r.markdown
      /\ Taking(r, kind).records = Append(r.records, e)
  BY <1>3, <1>4 DEF Recorders
<1> QED
  BY <1>5, ReporterAssumption DEF e

\* What recording may leave: the report as it was, or with the event taken in.
LEMMA RecordingKeepsTheRest ==
  ASSUME NEW r \in Recorders, NEW kind \in Kinds \cup {"event"}, mission' \in Missions,
         NEW q \in Written(r, kind) \cup Unwritten(r, kind)
  PROVE  /\ q \in Recorders /\ q # None
         /\ q.finalized = r.finalized /\ q.failed = r.failed
         /\ q.json = r.json /\ q.markdown = r.markdown
<1>1. q = r \/ q = Taking(r, kind)
  BY DEF Written, Unwritten
<1> QED
  BY <1>1, TakingAddsARecord, ReporterAssumption

\* A report that has just been begun holds the mission it was begun in, or nothing.
LEMMA FreshHoldsOneMission ==
  ASSUME NEW kind \in Kinds \cup {"event"}, mission' \in Missions,
         NEW q \in Written(Fresh, kind) \cup Unwritten(Fresh, kind),
         NEW m, Holds(q, m)
  PROVE  m = mission'
<1> DEFINE e == [mission |-> mission', kind |-> kind]
<1>1. e \in Records /\ <<>> \in Seq(Records)
  BY EmptySeq DEF Records
<1>2. q.records = <<>> \/ q.records = Append(<<>>, e)
  BY FreshIsARecorder, TakingAddsARecord DEF Written, Unwritten
<1>3. /\ Len(<<>>) = 0
      /\ Len(Append(<<>>, e)) = 1 /\ Append(<<>>, e)[1] = e
  <2>1. Len(Append(<<>>, e)) = Len(<<>>) + 1 /\ Append(<<>>, e)[Len(<<>>) + 1] = e
    BY <1>1, AppendProperties
  <2>2. Len(<<>>) = 0
    BY EmptySeq
  <2> QED
    BY <2>1, <2>2
<1>4. PICK i \in 1 .. Len(q.records) : q.records[i].mission = m
  BY DEF Holds
<1> HIDE DEF e
<1>5. q.records = Append(<<>>, e)
  BY <1>2, <1>3, <1>4
<1>6. i = 1
  BY <1>3, <1>4, <1>5
<1> QED
  BY <1>3, <1>4, <1>5, <1>6 DEF e

\* An attempt to finalize an open report keeps its records and what was written of
\* it before; it either seals it, with both files telling the whole, or has failed.
LEMMA AttemptsSealOrFail ==
  ASSUME NEW r \in Recorders, ~r.finalized, NEW outcome \in Outcomes,
         NEW q \in Attempts(r, outcome)
  PROVE  /\ q \in Recorders /\ q # None /\ q.records = r.records
         /\ r.json # None => q.json = r.json
         /\ q.finalized => q.json = q.markdown /\ q.json.records = q.records
         /\ q.finalized \/ q.failed
<1> DEFINE text == [records |-> r.records, outcome |-> outcome]
           failed == [r EXCEPT !.failed = TRUE]
           half == [failed EXCEPT !.json = text]
           both == [half EXCEPT !.markdown = text]
           sealed == [r EXCEPT !.json = text, !.markdown = text, !.finalized = TRUE]
<1>1. text \in Texts /\ text.records = r.records
  BY DEF Texts, Recorders
<1> HIDE DEF text
<1>2. \/ q = failed
      \/ r.json = None /\ q \in {half, both, sealed}
  BY DEF Attempts, MayWrite, text
<1>3. failed \in Recorders /\ half \in Recorders /\ both \in Recorders /\ sealed \in Recorders
  BY <1>1 DEF Recorders
<1>4. failed.json = r.json
  BY DEF Recorders
<1>5. \A x \in {failed, half, both} : x.records = r.records /\ ~x.finalized /\ x.failed
  BY DEF Recorders
<1>6. /\ sealed.records = r.records /\ sealed.finalized
      /\ sealed.json = text /\ sealed.markdown = text
  BY DEF Recorders
<1> HIDE DEF failed, half, both, sealed
<1>7. q \in Recorders /\ q # None
  BY <1>2, <1>3, ReporterAssumption
<1>8. q = sealed \/ q \in {failed, half, both}
  BY <1>2
<1> QED
  BY <1>1, <1>2, <1>4, <1>5, <1>6, <1>7, <1>8

-----------------------------------------------------------------------------
\* A report is open only if there is one.
LEMMA OpenIsARecorder ==
  ASSUME TypeOK, Open(recorder)
  PROVE  recorder \in Recorders /\ recorder # None /\ ~recorder.finalized
BY DEF TypeOK, Open

\* The first state is sound: nothing is recorded.
LEMMA SoundInitially == Init => Sound
<1> SUFFICES ASSUME Init PROVE Sound
  OBVIOUS
<1> USE ReporterAssumption
<1>1. TypeOK
  <2>1. 0 \in 0 .. MaxMessages /\ 0 \in 0 .. Delay /\ LongAgo \in 0 .. LongAgo
    BY DEF LongAgo
  <2>2. "idle" \in Kinds /\ "IDLE" \in Statuses
    BY DEF Kinds, Statuses
  <2> QED
    BY <2>1, <2>2, Zenon DEF Init, TypeOK, Missions
<1>2. ~Open(recorder)
  BY DEF Init, Open
<1> QED
  BY <1>1, <1>2 DEF Init, Sound, MissionsAreCounted, FinalizedTellsTheWhole,
     PlansAreForOpenReports, EndsArePlanned

\* Where the mission stands after a message of it.
LEMMA MissionFollows ==
  ASSUME Sound, MissionMessage
  PROVE  /\ published' \in Kinds /\ mission' \in Missions
         /\ messages' \in 0 .. MaxMessages /\ mission' <= messages'
<1>1. published' \in Kinds
  BY DEF Sound, TypeOK, MissionMessage, Follows, Kinds
<1>2. messages \in 0 .. MaxMessages /\ mission \in 0 .. MaxMessages /\ mission <= messages
  BY DEF Sound, TypeOK, MissionsAreCounted, Missions
<1>3. messages' = messages + 1 /\ messages < MaxMessages
  BY DEF MissionMessage, Spend
<1>4. mission' = mission + 1 \/ mission' = mission
  BY DEF MissionMessage
<1> QED
  BY <1>1, <1>2, <1>3, <1>4, ReporterAssumption DEF Missions

\* A report that is open and takes in a mission state stays sound: the end of a
\* mission is planned for, or the failure to take it in remembered.
LEMMA RecordStateIsSound ==
  ASSUME Sound, MissionMessage, Open(recorder), RecordState(recorder, published', errors)
  PROVE  Sound'
<1> USE ReporterAssumption
<1>1. TypeOK /\ recorder \in Recorders /\ recorder # None /\ ~recorder.finalized
  BY OpenIsARecorder DEF Sound
<1>2. /\ published' \in Kinds /\ mission' \in Missions
      /\ messages' \in 0 .. MaxMessages /\ mission' <= messages'
  BY MissionFollows
<1>3. /\ recorder' \in Recorders /\ recorder' # None /\ ~recorder'.finalized
      /\ recorder'.failed = recorder.failed
  <2>1. recorder' \in Written(recorder, published') \cup Unwritten(recorder, published')
    BY DEF RecordState
  <2> QED
    BY <1>1, <1>2, <2>1, RecordingKeepsTheRest
<1>4. /\ last_state' \in Kinds \cup {None}
      /\ pending' \in Outcomes \cup {None} /\ due' \in 0 .. Delay
      /\ errors' \in BOOLEAN /\ status' \in Statuses /\ since_end' \in 0 .. LongAgo
  <2>1. Schedule(published') /\ Schedules(published') =>
          pending' \in Outcomes /\ due' = Delay /\ status' \in Statuses
    BY <1>2 DEF Schedule, Schedules, OutcomeOf, Ends, Terminal, Outcomes, Statuses
  <2>2. since_end' = 0 \/ since_end' = since_end
    BY DEF RecordState
  <2>3. since_end' \in 0 .. LongAgo
    BY <1>1, <2>2 DEF TypeOK, LongAgo
  <2>4. CASE /\ last_state' = published' /\ errors' = errors
             /\ \/ Schedules(published') /\ Schedule(published')
                \/ /\ ~Schedules(published') /\ UNCHANGED plan
                   /\ status' = IF errors THEN "FAILED" ELSE "RECORDING"
    BY <1>1, <1>2, <2>1, <2>3, <2>4 DEF TypeOK, plan, Statuses
  <2>5. CASE errors' = TRUE /\ status' = "FAILED" /\ UNCHANGED <<last_state, plan>>
    BY <1>1, <2>3, <2>5 DEF TypeOK, plan, Statuses
  <2> QED
    BY <2>4, <2>5 DEF RecordState
<1>5. TypeOK'
  BY <1>2, <1>3, <1>4 DEF TypeOK
<1>6. AutoFinalize => EndsArePlanned'
  <2> SUFFICES ASSUME AutoFinalize, published' = "idle", ~errors'
               PROVE  pending' # None /\ due' + since_end' = Delay
    BY DEF EndsArePlanned
  <2>1. Schedules(published')
    BY DEF Schedules, Ends
  <2>2. since_end' = 0 /\ Schedule(published')
    BY <2>1 DEF RecordState, Ends
  <2> QED
    BY <2>2 DEF Schedule, OutcomeOf, Outcomes
<1>7. MissionsAreCounted' /\ FinalizedTellsTheWhole' /\ PlansAreForOpenReports'
  BY <1>2, <1>3 DEF MissionsAreCounted, FinalizedTellsTheWhole, PlansAreForOpenReports, Open
<1> QED
  BY <1>5, <1>6, <1>7 DEF Sound

\* So does one that is begun: only a mission under way begins it.
LEMMA StartRecorderIsSound ==
  ASSUME Sound, MissionMessage, ~Open(recorder), published' = "active",
         StartRecorder(published')
  PROVE  Sound'
<1> USE ReporterAssumption
<1>1. /\ published' \in Kinds /\ mission' \in Missions
      /\ messages' \in 0 .. MaxMessages /\ mission' <= messages'
  BY MissionFollows
<1>2. \/ recorder' = None
      \/ recorder' \in Recorders /\ recorder' # None /\ ~recorder'.finalized
  <2>1. \/ recorder' = None
        \/ recorder' \in Written(Fresh, published') \cup Unwritten(Fresh, published')
    BY DEF StartRecorder
  <2> QED
    BY <1>1, <2>1, RecordingKeepsTheRest, FreshIsARecorder
<1>3. pending' = None
  BY DEF StartRecorder, plan, Sound, PlansAreForOpenReports
<1>4. /\ last_state' \in Kinds \cup {None} /\ due' \in 0 .. Delay
      /\ errors' \in BOOLEAN /\ status' \in Statuses /\ since_end' \in 0 .. LongAgo
  <2>1. since_end' = LongAgo \/ since_end' = since_end
    BY DEF StartRecorder
  <2>2. since_end' \in 0 .. LongAgo
    BY <2>1 DEF Sound, TypeOK, LongAgo
  <2> QED
    BY <1>1, <2>2 DEF StartRecorder, plan, Sound, TypeOK, Statuses
<1>5. TypeOK'
  BY <1>1, <1>2, <1>3, <1>4 DEF TypeOK
<1> QED
  BY <1>1, <1>2, <1>3, <1>5 DEF Sound, MissionsAreCounted, FinalizedTellsTheWhole,
     PlansAreForOpenReports, EndsArePlanned

\* So does one that is forgotten, and one the message does not concern.
LEMMA OtherStatesAreSound ==
  ASSUME Sound, MissionMessage, ~Open(recorder),
         \/ Forget
         \/ UNCHANGED <<recorder, last_state, plan, errors, status, since_end>>
  PROVE  Sound'
<1> USE ReporterAssumption
<1>1. /\ published' \in Kinds /\ mission' \in Missions
      /\ messages' \in 0 .. MaxMessages /\ mission' <= messages'
  BY MissionFollows
<1>2. pending = None
  BY DEF Sound, PlansAreForOpenReports
<1>3. ~Open(recorder') /\ pending' = None
  BY <1>2 DEF Forget, Open, plan
<1>4. TypeOK'
  BY <1>1 DEF Sound, TypeOK, Forget, plan, Kinds, Statuses
<1>5. FinalizedTellsTheWhole'
  BY DEF Sound, FinalizedTellsTheWhole, Forget
<1> QED
  BY <1>1, <1>3, <1>4, <1>5 DEF Sound, MissionsAreCounted, PlansAreForOpenReports,
     EndsArePlanned

\* A message of a mission leaves the reports sound,
LEMMA MissionMessageIsSound ==
  ASSUME Sound, MissionMessage
  PROVE  Sound'
<1> OnMissionState(published')
  BY DEF MissionMessage
<1>1. CASE Open(recorder) /\ RecordState(recorder, published', errors)
  BY <1>1, RecordStateIsSound
<1>2. CASE ~Open(recorder) /\ published' = "active" /\ StartRecorder(published')
  BY <1>2, StartRecorderIsSound
<1>3. CASE recorder # None /\ recorder.finalized /\ Forget
  BY <1>3, OtherStatesAreSound DEF Open
<1>4. CASE ~Open(recorder)
           /\ UNCHANGED <<recorder, last_state, plan, errors, status, since_end>>
  BY <1>4, OtherStatesAreSound
<1> QED
  BY <1>1, <1>2, <1>3, <1>4 DEF OnMissionState

\* An event is taken in, or the failure to is remembered.
LEMMA EventMessageIsSound ==
  ASSUME Sound, EventMessage
  PROVE  Sound'
<1> USE ReporterAssumption
<1>1. TypeOK /\ Open(recorder) /\ recorder \in Recorders /\ ~recorder.finalized
  BY OpenIsARecorder DEF Sound, EventMessage
<1>2. /\ published' = published /\ mission' = mission /\ mission' \in Missions
      /\ UNCHANGED <<last_state, plan, since_end>>
      /\ messages' \in 0 .. MaxMessages /\ mission' <= messages'
  BY <1>1 DEF EventMessage, Spend, source, TypeOK, Sound, MissionsAreCounted, Missions
<1>3. /\ recorder' \in Recorders /\ recorder' # None /\ ~recorder'.finalized
      /\ recorder'.failed = recorder.failed
  <2>1. recorder' \in Written(recorder, "event") \cup Unwritten(recorder, "event")
    BY DEF EventMessage
  <2> QED
    BY <1>1, <1>2, <2>1, RecordingKeepsTheRest
<1>4. errors' \in BOOLEAN /\ status' \in Statuses /\ (errors => errors')
  BY <1>1 DEF EventMessage, TypeOK, Statuses
<1>5. TypeOK'
  BY <1>1, <1>2, <1>3, <1>4 DEF TypeOK, plan
<1>6. AutoFinalize => EndsArePlanned'
  BY <1>1, <1>2, <1>3, <1>4 DEF Sound, EndsArePlanned, plan
<1> QED
  BY <1>2, <1>3, <1>5, <1>6 DEF Sound, MissionsAreCounted, FinalizedTellsTheWhole,
     PlansAreForOpenReports, Open

\* An attempt to finalize seals the report, or has failed and said so.
LEMMA FinalizeIsSound ==
  ASSUME Sound, Open(recorder), ClearPlan, NEW outcome \in Outcomes, Finalize(outcome),
         UNCHANGED <<source, last_state, errors, since_end>>,
         messages' \in 0 .. MaxMessages, messages <= messages'
  PROVE  Sound'
<1> USE ReporterAssumption
<1>1. TypeOK /\ recorder \in Recorders /\ ~recorder.finalized
  BY OpenIsARecorder DEF Sound
<1>2. /\ recorder' \in Recorders /\ recorder' # None
      /\ recorder'.finalized =>
           recorder'.json = recorder'.markdown
             /\ recorder'.json.records = recorder'.records
      /\ recorder'.finalized \/ recorder'.failed
  <2>1. recorder' \in Attempts(recorder, outcome)
    BY DEF Finalize
  <2> QED
    BY <1>1, <2>1, AttemptsSealOrFail
<1>3. status' \in Statuses
  BY DEF Finalize, Statuses
<1>4. pending' = None /\ due' = 0 /\ 0 \in 0 .. Delay
  BY DEF ClearPlan
<1>5. TypeOK'
  BY <1>1, <1>2, <1>3, <1>4 DEF TypeOK, source
<1>6. MissionsAreCounted'
  BY <1>1 DEF Sound, MissionsAreCounted, source, TypeOK, Missions
<1> QED
  BY <1>2, <1>4, <1>5, <1>6 DEF Sound, FinalizedTellsTheWhole, PlansAreForOpenReports,
     EndsArePlanned, Open

\* so does the timer that finalizes one,
LEMMA OnFinalizeTimerIsSound ==
  ASSUME Sound, OnFinalizeTimer
  PROVE  Sound'
<1>1. pending \in Outcomes
  BY DEF Sound, TypeOK, OnFinalizeTimer
<1>2. messages' \in 0 .. MaxMessages /\ messages <= messages'
  BY ReporterAssumption DEF Sound, TypeOK, OnFinalizeTimer
<1> QED
  BY <1>1, <1>2, FinalizeIsSound DEF OnFinalizeTimer

\* and the operator who does,
LEMMA OnManualFinalizeIsSound ==
  ASSUME Sound, OnManualFinalize
  PROVE  Sound'
<1> DEFINE outcome == IF last_state \in Terminal THEN last_state ELSE "manual"
<1>1. outcome \in Outcomes
  BY DEF Outcomes
<1>2. messages' \in 0 .. MaxMessages /\ messages <= messages'
  BY ReporterAssumption DEF Sound, TypeOK, OnManualFinalize, Spend
<1> QED
  BY <1>1, <1>2, FinalizeIsSound DEF OnManualFinalize

\* After a restart nothing is recorded.
LEMMA RestartIsSound ==
  ASSUME Sound, Restart
  PROVE  Sound'
<1> USE ReporterAssumption
<1>1. messages' \in 0 .. MaxMessages /\ messages <= messages'
  BY DEF Sound, TypeOK, Restart, Spend
<1>2. LongAgo \in 0 .. LongAgo /\ 0 \in 0 .. Delay
  BY DEF LongAgo
<1>3. TypeOK'
  BY <1>1, <1>2, Zenon DEF Sound, TypeOK, Restart, ClearPlan, source, Statuses
<1>4. MissionsAreCounted'
  BY <1>1 DEF Sound, TypeOK, MissionsAreCounted, Restart, source, Missions
<1> QED
  BY <1>3, <1>4 DEF Sound, Restart, ClearPlan, FinalizedTellsTheWhole,
     PlansAreForOpenReports, EndsArePlanned, Open

\* What is left of a delay and what has passed of it add up to the delay.
LEMMA ElapseIsSound ==
  ASSUME Sound, Elapse
  PROVE  Sound'
<1> USE ReporterAssumption
<1>1. due \in 0 .. Delay /\ since_end \in 0 .. LongAgo
  BY DEF Sound, TypeOK
<1>2. due' \in 0 .. Delay /\ since_end' \in 0 .. LongAgo
  BY <1>1 DEF Elapse, LongAgo
<1>3. TypeOK'
  BY <1>2, Zenon DEF Sound, TypeOK, Elapse, source
<1>4. pending # None /\ due + since_end = Delay => due' + since_end' = Delay
  BY <1>1 DEF Elapse, LongAgo
<1> QED
  BY <1>3, <1>4 DEF Sound, Elapse, source, MissionsAreCounted, FinalizedTellsTheWhole,
     PlansAreForOpenReports, EndsArePlanned, Open

\* hence every step.
LEMMA StepsAreSound ==
  ASSUME Sound, [Next]_vars
  PROVE  Sound'
<1>1. CASE MissionMessage
  BY <1>1, MissionMessageIsSound
<1>2. CASE EventMessage
  BY <1>2, EventMessageIsSound
<1>3. CASE OnFinalizeTimer
  BY <1>3, OnFinalizeTimerIsSound
<1>4. CASE OnManualFinalize
  BY <1>4, OnManualFinalizeIsSound
<1>5. CASE Restart
  BY <1>5, RestartIsSound
<1>6. CASE Elapse
  BY <1>6, ElapseIsSound
<1>7. CASE UNCHANGED vars
  BY <1>7 DEF vars, source, plan, Sound, TypeOK, MissionsAreCounted,
     FinalizedTellsTheWhole, PlansAreForOpenReports, EndsArePlanned, Open
<1> QED
  BY <1>1, <1>2, <1>3, <1>4, <1>5, <1>6, <1>7 DEF Next

\* Sound holds in every reachable state of the reporter.
LEMMA SoundAlways == Spec => []Sound
<1>1. Sound /\ [Next]_vars => Sound'
  BY StepsAreSound
<1> QED
  BY SoundInitially, <1>1, PTL DEF Spec

\* Every reachable state of the reporter is of its type.
THEOREM ReporterTypeCorrect == Spec => []TypeOK
<1>1. Sound => TypeOK
  BY DEF Sound
<1> QED
  BY <1>1, SoundAlways, PTL

\* However late a message arrives and whichever write fails: a report that is
\* finalized (MissionReportRecorder.finalize) says in both its files what was recorded.
THEOREM FinalizedTellsTheWholeAlways == Spec => []FinalizedTellsTheWhole
<1>1. Sound => FinalizedTellsTheWhole
  BY DEF Sound
<1> QED
  BY <1>1, SoundAlways, PTL

\* _finalize never finds its report gone or sealed: neither a new mission, nor a reset,
\* nor a manual request leaves a plan behind for a report that is not open.
THEOREM PlansAreForOpenReportsAlways == Spec => []PlansAreForOpenReports
<1>1. Sound => PlansAreForOpenReports
  BY DEF Sound
<1> QED
  BY <1>1, SoundAlways, PTL

-----------------------------------------------------------------------------
\* One step does not rewrite a file.
LEMMA StepsKeepFiles ==
  ASSUME Sound, [Next]_vars, recorder # None, recorder' # None, recorder.json # None
  PROVE  \/ recorder'.json = recorder.json
         \/ recorder.finalized /\ recorder'.json = None
<1>1. recorder \in Recorders
  BY DEF Sound, TypeOK
<1>2. CASE MissionMessage
  <2>1. mission' \in Missions /\ published' \in Kinds
    BY <1>2, MissionFollows
  <2>2. CASE Open(recorder) /\ RecordState(recorder, published', errors)
    <3>1. recorder' \in Written(recorder, published') \cup Unwritten(recorder, published')
      BY <2>2 DEF RecordState
    <3> QED
      BY <1>1, <2>1, <3>1, RecordingKeepsTheRest
  <2>3. CASE ~Open(recorder) /\ StartRecorder(published')
    <3>1. recorder' \in Written(Fresh, published') \cup Unwritten(Fresh, published')
      BY <2>3 DEF StartRecorder
    <3>2. recorder'.json = None
      BY <2>1, <3>1, RecordingKeepsTheRest, FreshIsARecorder
    <3> QED
      BY <2>3, <3>2 DEF Open
  <2>4. CASE Forget \/ UNCHANGED recorder
    BY <2>4 DEF Forget
  <2> QED
    BY <1>2, <2>2, <2>3, <2>4 DEF MissionMessage, OnMissionState
<1>3. CASE EventMessage
  <2>1. mission' \in Missions
    BY <1>3 DEF EventMessage, source, Sound, TypeOK
  <2>2. recorder' \in Written(recorder, "event") \cup Unwritten(recorder, "event")
    BY <1>3 DEF EventMessage
  <2> QED
    BY <1>1, <2>1, <2>2, RecordingKeepsTheRest
<1>4. CASE OnFinalizeTimer \/ OnManualFinalize
  <2>1. PICK outcome \in Outcomes : recorder' \in Attempts(recorder, outcome)
    BY <1>4 DEF OnFinalizeTimer, OnManualFinalize, Finalize, Sound, TypeOK, Outcomes
  <2>2. ~recorder.finalized
    BY <1>4 DEF OnFinalizeTimer, OnManualFinalize, Open
  <2> QED
    BY <1>1, <2>1, <2>2, AttemptsSealOrFail
<1>5. CASE Restart \/ Elapse \/ UNCHANGED vars
  BY <1>5 DEF Restart, Elapse, vars
<1> QED
  BY <1>2, <1>3, <1>4, <1>5 DEF Next

\* Neither a second attempt, nor another outcome, nor anything that fails in between
\* rewrites what a final report says.
THEOREM ReportsAreSealedAlways == Spec => ReportsAreSealed
<1>1. Sound /\ [Next]_vars =>
        [recorder # None /\ recorder' # None /\ recorder.json # None =>
           \/ recorder'.json = recorder.json
           \/ recorder.finalized /\ recorder'.json = None]_vars
  BY StepsKeepFiles
<1> QED
  BY <1>1, SoundAlways, PTL DEF Spec, ReportsAreSealed

\* The step that begins another mission finds an open report on its way to be
\* finalized, or a failure.
LEMMA MissionsBeginApart ==
  ASSUME AutoFinalize, Sound, [Next]_vars, recorder # None, recorder' # None,
         mission' # mission, Holds(recorder', mission)
  PROVE  since_end <= Delay \/ recorder.failed \/ errors
<1> USE ReporterAssumption
<1>1. MissionMessage /\ published = "idle" /\ published' = "active"
  BY DEF Next, EventMessage, OnFinalizeTimer, OnManualFinalize, Restart, Elapse, vars,
     source, MissionMessage
<1>2. mission' \in Missions /\ published' \in Kinds
  BY <1>1, MissionFollows
<1>3. Open(recorder)
  <2> SUFFICES ASSUME ~Open(recorder) PROVE FALSE
    OBVIOUS
  <2>1. StartRecorder(published')
    BY <1>1 DEF MissionMessage, OnMissionState
  <2>2. recorder' \in Written(Fresh, published') \cup Unwritten(Fresh, published')
    BY <2>1 DEF StartRecorder
  <2> QED
    BY <1>2, <2>2, FreshHoldsOneMission
<1>4. ~recorder.failed /\ ~errors => due + since_end = Delay
  BY <1>1, <1>3 DEF Sound, EndsArePlanned
<1>5. due \in 0 .. Delay /\ since_end \in 0 .. LongAgo /\ LongAgo \in Nat
  BY DEF Sound, TypeOK, LongAgo
<1> QED
  BY <1>4, <1>5

\* With auto_finalize, for every delay: two missions share a report only if the second
\* began within the delay after the end of the first, or something had failed.
THEOREM MissionsAreKeptApartAlways ==
  ASSUME AutoFinalize
  PROVE  Spec => MissionsAreKeptApart
<1>1. Sound /\ [Next]_vars =>
        [/\ recorder # None /\ recorder' # None /\ mission' # mission
         /\ Holds(recorder, mission) /\ Holds(recorder', mission)
         /\ Holds(recorder', mission')
         => since_end <= Delay \/ recorder.failed \/ errors]_vars
  BY MissionsBeginApart
<1> QED
  BY <1>1, SoundAlways, PTL DEF Spec, MissionsAreKeptApart

===============================================================================
