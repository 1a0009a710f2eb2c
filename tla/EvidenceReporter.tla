--------------------------- MODULE EvidenceReporter ---------------------------
(***************************************************************************)
(* The evidence reporter (inspectron_evidence_reporter/node.py and the     *)
(* MissionReportRecorder of reporting.py): it follows the mission's states *)
(* and keeps a report of each mission, sealed a while after the mission    *)
(* has ended.  Any write may fail; the process may be restarted.           *)
(*                                                                         *)
(* The orchestrator publishes its state at every transition and repeats it *)
(* when it refuses a request.  All recording states count as "active";     *)
(* "aborted" stands for a completed mission too, which is handled alike.   *)
(* An event is a capture, an assessment or a decision.  Every attempt to   *)
(* finalize writes its own finalized_at, so no two write the same text.    *)
(***************************************************************************)
EXTENDS Integers, Sequences

CONSTANTS Delay,          \* finalize_delay_seconds, in clock units
          MaxMessages,    \* messages and requests: the bound of the model
          AutoFinalize,   \* auto_finalize
          None

Kinds == {"active", "emergency", "aborted", "idle"}
Terminal == {"emergency", "aborted"}
Ends == Terminal \cup {"idle"}
Outcomes == Terminal \cup {"reset", "manual"}
Statuses == {"IDLE", "RECORDING", "FINALIZED", "FAILED"}
Missions == 0 .. MaxMessages
Records == [mission : Missions, kind : Kinds \cup {"event"}]
Texts == [records : Seq(Records), outcome : Outcomes]
Recorders == [records : Seq(Records), json : Texts \cup {None}, markdown : Texts \cup {None},
              finalized : BOOLEAN, failed : BOOLEAN]

ASSUME ReporterAssumption ==
  /\ Delay \in Nat /\ MaxMessages \in Nat \ {0} /\ AutoFinalize \in BOOLEAN
  /\ None \notin Recorders /\ None \notin Texts /\ None \notin Kinds \cup Outcomes

VARIABLES
  published,       \* the orchestrator's last state; the mission's number beside it
  mission,
  recorder,        \* _recorder, or None; failed: an attempt to finalize it failed
  last_state,      \* _last_state_code
  pending,         \* _pending_outcome
  due,             \* until _finalize_deadline
  errors,          \* whether _recording_errors has any
  status,          \* the status last published
  since_end,       \* how long ago the recorder last took in an end of a mission
  messages         \* how many messages and requests there have been

plan == <<pending, due>>
source == <<published, mission>>
vars == <<source, recorder, last_state, plan, errors, status, since_end, messages>>

LongAgo == Delay + 2

TypeOK ==
  /\ published \in Kinds /\ mission \in Missions
  /\ recorder \in Recorders \cup {None}
  /\ last_state \in Kinds \cup {None}
  /\ pending \in Outcomes \cup {None} /\ due \in 0 .. Delay
  /\ errors \in BOOLEAN
  /\ status \in Statuses
  /\ since_end \in 0 .. LongAgo
  /\ messages \in 0 .. MaxMessages

Init ==
  /\ published = "idle" /\ mission = 0
  /\ recorder = None /\ last_state = None
  /\ pending = None /\ due = 0
  /\ errors = FALSE
  /\ status = "IDLE"
  /\ since_end = LongAgo
  /\ messages = 0

-----------------------------------------------------------------------------
Fresh == [records |-> <<>>, json |-> None, markdown |-> None,
          finalized |-> FALSE, failed |-> FALSE]

BrokenOpen(r) == r # None                          \* FinalizedTellsTheWhole
Open(r) == r # None /\ ~r.finalized

Taking(r, kind) ==
  [r EXCEPT !.records = Append(@, [mission |-> mission', kind |-> kind])]

\* A write succeeds or not; if only the partial report fails, the record is kept.
Written(r, kind) == {Taking(r, kind)}
Unwritten(r, kind) == {r, Taking(r, kind)}

OutcomeOf(kind) == IF kind = "idle" THEN "reset" ELSE kind
BrokenSchedules(kind) ==                           \* MissionsAreKeptApart, EndsAreReported
  AutoFinalize /\ kind \in Terminal
Schedules(kind) == AutoFinalize /\ kind \in Ends

\* _schedule_finalization: a later end takes the place of an earlier.
Schedule(kind) ==
  /\ pending' = OutcomeOf(kind) /\ due' = Delay
  /\ status' = "RECORDING"

\* _record_event for a mission state: one that fails changes nothing else.
RecordState(r, kind, had_errors) ==
  \/ /\ recorder' \in Written(r, kind)
     /\ last_state' = kind
     /\ errors' = had_errors
     /\ since_end' = IF kind \in Ends THEN 0 ELSE since_end
     /\ \/ Schedules(kind) /\ Schedule(kind)
        \/ /\ ~Schedules(kind) /\ UNCHANGED plan
           /\ status' = IF had_errors THEN "FAILED" ELSE "RECORDING"
  \/ /\ recorder' \in Unwritten(r, kind)
     /\ errors' = TRUE /\ status' = "FAILED"
     /\ since_end' = IF kind \in Ends /\ recorder' # r THEN 0 ELSE since_end
     /\ UNCHANGED <<last_state, plan>>

\* _start_recorder and what follows it.
StartRecorder(kind) ==
  \/ /\ status' = "FAILED" /\ recorder' = None /\ errors' = FALSE
     /\ UNCHANGED <<last_state, plan, since_end>>
  \/ /\ \/ recorder' \in Written(Fresh, kind)
           /\ last_state' = kind /\ errors' = FALSE /\ status' = "RECORDING"
        \/ recorder' \in Unwritten(Fresh, kind)
           /\ last_state' = None /\ errors' = TRUE /\ status' = "FAILED"
     /\ pending' = None /\ UNCHANGED due
     /\ since_end' = LongAgo

Forget ==
  /\ recorder' = None /\ last_state' = "idle" /\ pending' = None /\ errors' = FALSE
  /\ status' = "IDLE"
  /\ UNCHANGED <<due, since_end>>

OnMissionState(kind) ==
  \/ Open(recorder) /\ RecordState(recorder, kind, errors)
  \/ ~Open(recorder) /\ kind = "active" /\ StartRecorder(kind)
  \/ recorder # None /\ recorder.finalized /\ kind = "idle" /\ Forget
  \/ /\ ~Open(recorder) /\ kind # "active" /\ ~(recorder # None /\ kind = "idle")
     /\ UNCHANGED <<recorder, last_state, plan, errors, status, since_end>>

-----------------------------------------------------------------------------
\* The orchestrator's next state, or the last one again.
Follows ==
  [active |-> Kinds, emergency |-> Kinds \ {"active"}, aborted |-> Kinds \ {"active"},
   idle |-> {"active", "emergency", "idle"}]

Spend == messages < MaxMessages /\ messages' = messages + 1

MissionMessage ==
  /\ Spend
  /\ published' \in Follows[published]
  /\ mission' = IF published = "idle" /\ published' = "active" THEN mission + 1 ELSE mission
  /\ OnMissionState(published')

\* record_evidence, record_assessment or record_policy_decision.
EventMessage ==
  /\ Spend
  /\ Open(recorder)
  /\ UNCHANGED source
  /\ \/ /\ recorder' \in Written(recorder, "event") /\ UNCHANGED errors
        /\ status' = IF errors THEN "FAILED" ELSE "RECORDING"
     \/ /\ recorder' \in Unwritten(recorder, "event")
        /\ errors' = TRUE /\ status' = "FAILED"
  /\ UNCHANGED <<last_state, plan, since_end>>

-----------------------------------------------------------------------------
BrokenMayWrite(file) == TRUE                       \* ReportsAreSealed: overwrites
MayWrite(file) == file = None

\* finalize: the evidence is verified, the two files are written one after the
\* other and made read-only.  What raises on the way leaves the recorder open, and
\* the files written so far behind.
Attempts(r, outcome) ==
  LET text == [records |-> r.records, outcome |-> outcome]
      failed == [r EXCEPT !.failed = TRUE]
      half == [failed EXCEPT !.json = text]
      both == [half EXCEPT !.markdown = text]
  IN  {failed} \cup
      (IF MayWrite(r.json)
       THEN {half, both, [r EXCEPT !.json = text, !.markdown = text, !.finalized = TRUE]}
       ELSE {})

Finalize(outcome) ==
  /\ recorder' \in Attempts(recorder, outcome)
  /\ status' = IF recorder'.finalized THEN "FINALIZED" ELSE "FAILED"

ClearPlan == pending' = None /\ due' = 0

\* A plan is only ever made for a recorder that is open.
OnFinalizeTimer ==
  /\ pending # None /\ due = 0
  /\ Open(recorder)
  /\ ClearPlan
  /\ Finalize(pending)
  /\ UNCHANGED <<source, last_state, errors, since_end, messages>>

OnManualFinalize ==
  /\ Spend
  /\ Open(recorder)
  /\ ClearPlan
  /\ Finalize(IF last_state \in Terminal THEN last_state ELSE "manual")
  /\ UNCHANGED <<source, last_state, errors, since_end>>

\* The process dies and is started again; the latched state may come again.
Restart ==
  /\ Spend
  /\ recorder' = None /\ last_state' = None /\ ClearPlan /\ errors' = FALSE
  /\ status' = "IDLE" /\ since_end' = LongAgo
  /\ UNCHANGED source

\* The finalize timer fires before the next unit passes.
Elapse ==
  /\ ~(pending # None /\ due = 0)
  /\ due' = IF due > 0 THEN due - 1 ELSE due
  /\ since_end' = IF since_end < LongAgo THEN since_end + 1 ELSE since_end
  /\ UNCHANGED <<source, recorder, last_state, pending, errors, status, messages>>

Next ==
  \/ MissionMessage \/ EventMessage
  \/ OnFinalizeTimer \/ OnManualFinalize \/ Restart \/ Elapse

\* Time passes and the finalize timer keeps firing.
Spec == Init /\ [][Next]_vars /\ WF_vars(Elapse) /\ WF_vars(OnFinalizeTimer)

-----------------------------------------------------------------------------
\* What a final report says is never rewritten, neither by a second attempt nor
\* by another outcome.
ReportsAreSealed ==
  [][recorder # None /\ recorder' # None /\ recorder.json # None =>
       \/ recorder'.json = recorder.json
       \/ recorder.finalized /\ recorder'.json = None]_vars

\* A finalized report tells all that was recorded, in both of its files: nothing
\* is taken in once it is sealed, however late it arrives.
FinalizedTellsTheWhole ==
  recorder # None /\ recorder.finalized =>
    /\ recorder.json = recorder.markdown
    /\ recorder.json.records = recorder.records

\* A report takes in the beginning of another mission only within the finalize
\* delay after the end of the last, or after something had failed.
Holds(r, m) == \E i \in 1 .. Len(r.records) : r.records[i].mission = m
MissionsAreKeptApart ==
  [][/\ recorder # None /\ recorder' # None /\ mission' # mission
     /\ Holds(recorder, mission) /\ Holds(recorder', mission) /\ Holds(recorder', mission')
     => since_end <= Delay \/ recorder.failed \/ errors]_vars

\* An end of a mission that the reporter holds for its last state (last_state) is
\* finalized, or finalizing it has failed and that was said; the reporter is not
\* restarted.  An end that was recorded but whose partial report could not be written
\* never becomes the last state: then an error was told, and no more is promised.
EndsAreReported ==
  /\ Open(recorder) /\ last_state \in Ends ~> ~Open(recorder) \/ recorder.failed
  /\ Open(recorder) /\ since_end = 0 ~> ~Open(recorder) \/ recorder.failed \/ errors

=============================================================================
