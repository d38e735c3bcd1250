------------------------- MODULE DepthFiltersProofs -------------------------
(***************************************************************************)
(* Proofs about DepthFilters, for any filters of the device and any        *)
(* thresholds and bounds.  The properties are those the run depth_filters  *)
(* checks.                                                                 *)
(***************************************************************************)
EXTENDS DepthFilters, TLAPS

\* What a request that is served at once, or put on its way, does to a filter.
ServeRefuse(r) == Accepting /\ Refuse(r)
ServeFilter(r) ==
    /\ Accepting
    /\ \/ ApplyNamed(r) \/ NamedThrows(r)
       \/ SetPositional(r) \/ SetSwitchOnly(r) \/ SetThrows(r)
ServeEnhanced(r) == Accepting /\ (EnhancedBegin(r) \/ EnhancedRefuse(r))

\* A report on its way: reading, storing and building touch no request.
SetupReports == SetupPublishers \/ SetupRead \/ SetupUp \/ SetupThrows

LEMMA Steps ==
    ASSUME Next
    PROVE  \/ SetupFilters \/ SetupProfiles \/ SetupEnsure \/ SetupReports
           \/ \E r \in Requests : ServeRefuse(r) \/ ServeFilter(r) \/ ServeEnhanced(r)
           \/ EnhancedEnsure \/ EnhancedApply \/ EnhancedStore
           \/ Report \/ Publishing \/ Realign \/ Frame
BY DEF Next, Setup, Serve, Enhanced, ServeRefuse, ServeFilter, ServeEnhanced, SetupReports

-----------------------------------------------------------------------------
(* Types *)

Threshold == Values \cup {"unset", "bad"}
Reading   == Values \cup {"null", "initial"}
PCs       == {"idle", "ensure", "apply", "store", "publish"}
Answers   == {"none", "ok", "rejected", "partial", "failed"}
Served    == [f : Filters \cup {"unknown", "enhanced"}, on : BOOLEAN,
              form : {"named", "positional", "both"},
              p : Values \cup {"none", "bad", "skip"}, pc : PCs, answer : Answers]
Found     == [dev : [Filters -> Setting], flag : BOOLEAN, thr : Threshold]

Message   == [at : {"read", "store", "build", "publish"}, of : [Filters -> Setting],
              unsure : SUBSET Filters, enh : [on : BOOLEAN, val : Threshold]]

SettingsInv == dev \in [Filters -> Setting] /\ cache \in [Filters -> Setting]
ShownInv    == /\ shown \in [Filters -> Setting]
               /\ shownEnh \in [on : BOOLEAN, val : Threshold]
               /\ torn \subseteq Filters \cup {"enhanced"}
               /\ crossed \subseteq Filters \cup {"enhanced"}
               /\ report \in [Reporters -> Message]
EnhTypeInv  == /\ flag \in BOOLEAN /\ thr \in Threshold
               /\ enhanced \in Reading
ReqTypeInv  == req \in Served /\ before \in Found
FlagsInv    == /\ confidence \in BOOLEAN /\ aligned \in BOOLEAN /\ alone \in BOOLEAN
               /\ stray \in BOOLEAN
PlacesInv   == /\ setup \in {"config", "serving", "profiles", "ensured", "status", "up", "failed"}
               /\ frame \in {"idle", "ensure", "pick", "process"}
CountsInv   == /\ requests \in 0 .. MaxRequests /\ frames \in 0 .. MaxFrames
               /\ faults \in 0 .. MaxFaults

\* ensureEnhancedDepthFilter
LEMMA EnsureFacts ==
    ASSUME EnhTypeInv, NEW ok \in BOOLEAN, Ensure(ok)
    PROVE  /\ enhanced' \in Reading /\ enhanced' \in {enhanced, Created, Applied}
           /\ enhanced # "null" => enhanced' # "null"
           /\ ok => thr # "bad" /\ enhanced' = Applied /\ enhanced' # "null"
<1>1. Created \in Reading /\ Created # "null"
  BY DEF Created, EnhTypeInv, Reading
<1>2. Applied \in Reading /\ Applied # "null"
  BY <1>1, ValuesAssumption DEF Applied, EnhTypeInv, Reading, Threshold
<1>3. enhanced \in Reading
  BY DEF EnhTypeInv
<1>4. CASE ~Valid /\ ~ok /\ NoFault /\ UNCHANGED filter
  BY <1>3, <1>4 DEF filter
<1>5. CASE Valid /\ NoFault /\ ok = (thr # "bad") /\ enhanced' = Applied
  BY <1>2, <1>5
<1>6. CASE Valid /\ ~ok /\ Fault /\ enhanced' \in {enhanced, Created, Applied}
  BY <1>1, <1>2, <1>3, <1>6
<1> QED
  BY <1>4, <1>5, <1>6 DEF Ensure

LEMMA RequestFacts ==
    ASSUME NEW r \in Requests
    PROVE  /\ r.f \in Filters \cup {"unknown", "enhanced"} /\ r.on \in BOOLEAN
           /\ r.form \in {"named", "positional", "both"}
           /\ r.p \in Values \cup {"none", "bad", "skip"}
BY DEF Requests

LEMMA SetTyped ==
    ASSUME NEW s \in [Filters -> Setting], NEW r \in Requests, r.f \in Filters,
           NEW taken \in BOOLEAN, taken => r.p \in Values
    PROVE  Set(s, r, taken) \in [Filters -> Setting]
<1>1. s[r.f].val \in Values \cup {"initial", "absent"}
  BY DEF Setting
<1>2. [on |-> r.on, val |-> IF taken THEN r.p ELSE s[r.f].val] \in Setting
  BY <1>1, RequestFacts DEF Setting
<1> QED
  BY <1>2 DEF Set

\* What the reports leave alone.
LEMMA SetupMoves ==
    ASSUME SetupReports
    PROVE  /\ UNCHANGED <<dev, flag, thr, enhanced, confidence, aligned, frame, alone,
                          stray, frames, before, req, requests>>
           /\ \/ setup = "ensured" /\ setup' = "status"
              \/ setup = "status" /\ setup' \in {"status", "up", "failed"}
           /\ Fault \/ NoFault
BY DEF SetupReports, SetupPublishers, SetupRead, SetupUp, SetupThrows, SetupKeeps,
   StatusRead, Misread, ReportKeeps, state, filter, request

LEMMA ReportMoves ==
    ASSUME Report
    PROVE  /\ UNCHANGED <<dev, flag, thr, enhanced, confidence, aligned, frame, alone,
                          stray, frames, before, req, requests, setup, shown, shownEnh,
                          torn, crossed, faults>>
BY DEF Report, StatusStore, StatusBuild, ReportKeeps, NoFault, filter, status

LEMMA PublishingMoves ==
    ASSUME Publishing
    PROVE  /\ UNCHANGED <<dev, flag, thr, enhanced, confidence, aligned, frame, stray,
                          frames, requests, setup>>
           /\ req.pc = "publish" /\ alone' \in {alone, FALSE}
           /\ \/ req' = req
              \/ req' = Asked(req, "idle", "ok") \/ req' = Asked(req, "idle", "failed")
           /\ before' \in {before, [dev |-> dev, flag |-> flag, thr |-> thr]}
           /\ Fault \/ NoFault
<1> USE DEF ReportKeeps, state, filter, request
<1>1. CASE PublishNothing
  BY <1>1 DEF PublishNothing, Step, Remember, ExecKeeps
<1>2. CASE PublishRead
  BY <1>2 DEF PublishRead, StatusRead, Misread
<1>3. CASE Publish \/ PublishThrows
  BY <1>3 DEF Publish, PublishThrows
<1> QED
  BY <1>1, <1>2, <1>3 DEF Publishing

\* A request on its way: what it may be, and what it has set.
ReqInv ==
    /\ setup = "config" => Idle /\ req.answer = "none"
    /\ ~Idle => req.answer = "none"
    /\ ~Idle => req.f # "unknown"
    /\ req.pc \in {"ensure", "apply", "store"} => req.f = "enhanced"
    /\ req.pc \in {"ensure", "apply"} => before.dev = dev /\ before.flag = flag
    /\ req.pc \in {"ensure", "apply", "store"} /\ req.p # "none" => thr = req.p
    /\ req.pc = "ensure" /\ req.p = "none" => thr = before.thr
    /\ req.pc = "apply" => req.p # "none"
    /\ RejectedHarmless

LEMMA SettingsStep ==
    ASSUME SettingsInv, ShownInv, [Next]_vars
    PROVE  SettingsInv'
<1> USE DEF SettingsInv, state, status, filter, request
<1>1. CASE SetupFilters
  BY <1>1 DEF SetupFilters, SetupKeeps, Setting
<1>2. CASE SetupProfiles
  BY <1>2 DEF SetupProfiles, SetupKeeps
<1>3. CASE SetupEnsure
  BY <1>3 DEF SetupEnsure, SetupKeeps
<1>4. CASE SetupReports
  BY <1>4 DEF SetupReports, SetupPublishers, SetupRead, SetupUp, SetupThrows, SetupKeeps,
     ReportKeeps
<1>5. ASSUME NEW r \in Requests, ServeRefuse(r) PROVE SettingsInv'
  BY <1>5 DEF ServeRefuse, Accepting, Refuse, Begin, ExecKeeps
<1>6. ASSUME NEW r \in Requests, ServeFilter(r) PROVE SettingsInv'
  <2>1. CASE ApplyNamed(r)
    <3>1. r.f \in Filters
      BY <2>1 DEF ApplyNamed, ByName
    <3>2. (r.p \in Values) \in BOOLEAN /\ (r.p \in Values /\ r.f \in Props) \in BOOLEAN
      OBVIOUS
    <3>3. /\ Set(dev, r, r.p \in Values) \in [Filters -> Setting]
          /\ Set(cache, r, r.p \in Values /\ r.f \in Props) \in [Filters -> Setting]
      BY <3>1, <3>2, SetTyped
    <3> QED
      BY <2>1, <3>3, Zenon DEF ApplyNamed
  <2>2. CASE SetPositional(r)
    <3>1. r.f \in Filters
      BY <2>2 DEF SetPositional, ByPosition
    <3>2. Taken(r) \in BOOLEAN /\ (Taken(r) => r.p \in Values)
      BY DEF Taken
    <3>3. /\ Set(dev, r, Taken(r)) \in [Filters -> Setting]
          /\ Set(cache, r, Taken(r)) \in [Filters -> Setting]
      BY <3>1, <3>2, SetTyped
    <3> QED
      BY <2>2, <3>3, Zenon DEF SetPositional
  <2>3. CASE NamedThrows(r) \/ SetSwitchOnly(r) \/ SetThrows(r)
    <3>1. r.f \in Filters
      BY <2>3 DEF NamedThrows, SetSwitchOnly, SetThrows, ByName, ByPosition
    <3>2. Set(dev, r, FALSE) \in [Filters -> Setting]
      BY <3>1, SetTyped
    <3>3. UNCHANGED cache /\ dev' \in {dev, Set(dev, r, FALSE)}
      BY <2>3 DEF NamedThrows, SetSwitchOnly, SetThrows
    <3> QED
      BY <3>2, <3>3
  <2> QED
    BY <1>6, <2>1, <2>2, <2>3 DEF ServeFilter
<1>7. ASSUME NEW r \in Requests, ServeEnhanced(r) PROVE SettingsInv'
  BY <1>7 DEF ServeEnhanced, Accepting, EnhancedBegin, EnhancedRefuse, Begin, ExecKeeps, Keeps
<1>8. CASE EnhancedEnsure
  BY <1>8 DEF EnhancedEnsure, Step, ExecKeeps, Keeps
<1>9. CASE EnhancedApply
  BY <1>9 DEF EnhancedApply, Step, ExecKeeps, Keeps
<1>10. CASE EnhancedStore
  BY <1>10 DEF EnhancedStore, Step, ExecKeeps, Keeps
<1>11. CASE Publishing
  BY <1>11 DEF Publishing, PublishNothing, PublishRead, Publish, PublishThrows, ReportKeeps
<1>12. CASE Realign
  BY <1>12 DEF Realign
<1>13. CASE Frame
  BY <1>13 DEF Frame, FrameEnter, FrameEnsure, FramePick, FrameProcess, FrameKeeps,
     Alone
<1>14. CASE UNCHANGED vars
  BY <1>14 DEF vars
<1>15. CASE Report
  <2>1. PICK t \in Reporters : StatusStore(t) \/ StatusBuild(t)
    BY <1>15 DEF Report
  <2>2. report[t].of \in [Filters -> Setting] /\ UNCHANGED dev
    BY <2>1 DEF ShownInv, Message, StatusStore, StatusBuild, ReportKeeps
  <2> QED
    BY <2>1, <2>2 DEF StatusStore, StatusBuild
<1> QED
  BY <1>1, <1>2, <1>3, <1>4, <1>5, <1>6, <1>7, <1>8, <1>9, <1>10, <1>11, <1>12, <1>13,
     <1>14, <1>15, Steps

LEMMA EnhTypeStep ==
    ASSUME ReqTypeInv, ReqInv, EnhTypeInv, [Next]_vars
    PROVE  EnhTypeInv'
<1> USE DEF EnhTypeInv, Reading, Threshold, state, status, filter, request
<1>1. CASE SetupFilters
  BY <1>1 DEF SetupFilters, SetupKeeps
<1>2. CASE SetupProfiles
  BY <1>2 DEF SetupProfiles, SetupKeeps
<1>3. CASE SetupEnsure
  BY <1>3, EnsureFacts DEF SetupEnsure, SetupKeeps
<1>4. CASE SetupReports
  BY <1>4, SetupMoves
<1>5. ASSUME NEW r \in Requests, ServeRefuse(r) PROVE EnhTypeInv'
  BY <1>5 DEF ServeRefuse, Accepting, Refuse, Begin, ExecKeeps
<1>6. ASSUME NEW r \in Requests, ServeFilter(r) PROVE EnhTypeInv'
  BY <1>6 DEF ServeFilter, Accepting, ApplyNamed, NamedThrows, SetPositional, SetSwitchOnly,
     SetThrows, Begin, ExecKeeps, FilterKeeps
<1>7. ASSUME NEW r \in Requests, ServeEnhanced(r) PROVE EnhTypeInv'
  BY <1>7, RequestFacts DEF ServeEnhanced, Accepting, EnhancedBegin, EnhancedRefuse, Begin,
     ExecKeeps, Keeps, Refused, BadThreshold
<1>8. CASE EnhancedEnsure
  <2>1. before.thr \in Threshold
    BY DEF ReqTypeInv, Found
  <2>2. flag' = flag /\ thr' \in {thr, before.thr}
    BY <1>8 DEF EnhancedEnsure
  <2>3. enhanced' \in Reading
    BY <1>8, EnsureFacts DEF EnhancedEnsure
  <2> QED
    BY <2>1, <2>2, <2>3
<1>9. CASE EnhancedApply
  <2>1. before.thr \in Threshold
    BY DEF ReqTypeInv, Found
  <2>2. thr # "unset"
    BY <1>9, ValuesAssumption DEF EnhancedApply, ReqInv, ReqTypeInv, Served
  <2>3. UNCHANGED flag /\ thr' \in {thr, before.thr}
    BY <1>9 DEF EnhancedApply
  <2>4. enhanced' = enhanced \/ (enhanced' = thr /\ thr # "bad")
    BY <1>9 DEF EnhancedApply
  <2> QED
    BY <2>1, <2>2, <2>3, <2>4
<1>10. CASE EnhancedStore
  BY <1>10 DEF EnhancedStore, Step, ExecKeeps, Keeps, ReqTypeInv, Served
<1>11. CASE Publishing
  BY <1>11, PublishingMoves
<1>12. CASE Realign
  BY <1>12 DEF Realign
<1>13. CASE Frame
  BY <1>13, EnsureFacts DEF Frame, FrameEnter, FrameEnsure, FramePick, FrameProcess,
     FrameKeeps, Alone
<1>14. CASE UNCHANGED vars
  BY <1>14 DEF vars
<1>15. CASE Report
  BY <1>15, ReportMoves
<1> QED
  BY <1>1, <1>2, <1>3, <1>4, <1>5, <1>6, <1>7, <1>8, <1>9, <1>10, <1>11, <1>12, <1>13,
     <1>14, <1>15, Steps

LEMMA OffTyped == Off \in Setting /\ NoReport \in Message
<1>1. Off \in Setting
  BY DEF Off, Setting
<1> QED
  BY <1>1 DEF NoReport, Message, Threshold

LEMMA ReadTyped ==
    ASSUME SettingsInv, ShownInv, NEW t \in Reporters, StatusRead(t), UNCHANGED status,
           UNCHANGED torn, crossed' \subseteq Filters \cup {"enhanced"}
    PROVE  ShownInv'
<1>1. PICK M \in Misreads :
        report' = [report EXCEPT ![t].at = "store", ![t].of = dev, ![t].unsure = M]
  BY DEF StatusRead
<1>2. M \in SUBSET Filters /\ report[t] \in Message
  BY DEF Misreads, ShownInv
<1>3. [report[t] EXCEPT !.at = "store", !.of = dev, !.unsure = M] \in Message
  BY <1>2 DEF Message, SettingsInv
<1>4. report' \in [Reporters -> Message]
  BY <1>1, <1>3 DEF ShownInv
<1> QED
  BY <1>4 DEF ShownInv, status

LEMMA PublishTyped ==
    ASSUME ShownInv, NEW t \in Reporters, StatusPublish(t), UNCHANGED crossed
    PROVE  ShownInv'
<1>1. report[t] \in Message
  BY DEF ShownInv
<1>2. report' \in [Reporters -> Message]
  BY OffTyped DEF ShownInv, StatusPublish
<1> QED
  BY <1>1, <1>2 DEF ShownInv, StatusPublish, Message

LEMMA ShownStep ==
    ASSUME SettingsInv, EnhTypeInv, ReqTypeInv, ReqInv, ShownInv, [Next]_vars
    PROVE  ShownInv'
<1> USE DEF ShownInv, Reporters, state, status, filter, request, reports
<1>1. CASE SetupFilters
  BY <1>1 DEF SetupFilters, SetupKeeps
<1>2. CASE SetupProfiles
  BY <1>2 DEF SetupProfiles, SetupKeeps
<1>3. CASE SetupEnsure
  BY <1>3 DEF SetupEnsure, SetupKeeps
<1>4. CASE SetupReports
  <2>1. CASE SetupPublishers
    <3>1. Underway \subseteq {"enhanced"}
      BY DEF Underway, ReqInv
    <3> QED
      BY <2>1, <3>1 DEF SetupPublishers, SetupKeeps
  <2>2. CASE SetupRead
    BY <2>2, ReadTyped DEF SetupRead
  <2>3. CASE SetupUp
    BY <2>3, PublishTyped DEF SetupUp
  <2>4. CASE SetupThrows
    BY <2>4, OffTyped DEF SetupThrows
  <2> QED
    BY <1>4, <2>1, <2>2, <2>3, <2>4 DEF SetupReports
<1>5. ASSUME NEW r \in Requests, ServeRefuse(r) PROVE ShownInv'
  BY <1>5 DEF ServeRefuse, Accepting, Refuse, Begin, ExecKeeps
<1>6. ASSUME NEW r \in Requests, ServeFilter(r) PROVE ShownInv'
  BY <1>6 DEF ServeFilter, Accepting, ApplyNamed, NamedThrows, SetPositional, SetSwitchOnly,
     SetThrows, Begin, ExecKeeps, FilterKeeps, ByName, ByPosition
<1>7. ASSUME NEW r \in Requests, ServeEnhanced(r) PROVE ShownInv'
  BY <1>7 DEF ServeEnhanced, Accepting, EnhancedBegin, EnhancedRefuse, Begin, ExecKeeps, Keeps
<1>8. CASE EnhancedEnsure
  BY <1>8 DEF EnhancedEnsure, Step, ExecKeeps, Keeps
<1>9. CASE EnhancedApply
  BY <1>9 DEF EnhancedApply, Step, ExecKeeps, Keeps
<1>10. CASE EnhancedStore
  BY <1>10 DEF EnhancedStore, Step, ExecKeeps, Keeps
<1>11. CASE Publishing
  <2>1. CASE PublishNothing
    BY <2>1 DEF PublishNothing, Step
  <2>2. CASE PublishRead
    <3>1. crossed' \subseteq Filters \cup {"enhanced"}
      BY <2>2 DEF PublishRead
    <3> QED
      BY <2>2, <3>1, ReadTyped DEF PublishRead
  <2>3. CASE Publish
    BY <2>3, PublishTyped DEF Publish
  <2>4. CASE PublishThrows
    <3>1. req.f \in Filters \cup {"enhanced"}
      BY <2>4 DEF PublishThrows, ReqInv, Idle, ReqTypeInv, Served
    <3> QED
      BY <2>4, <3>1, OffTyped DEF PublishThrows
  <2> QED
    BY <1>11, <2>1, <2>2, <2>3, <2>4 DEF Publishing
<1>12. CASE Realign
  BY <1>12 DEF Realign
<1>13. CASE Frame
  BY <1>13 DEF Frame, FrameEnter, FrameEnsure, FramePick, FrameProcess, FrameKeeps,
     Alone
<1>14. CASE UNCHANGED vars
  BY <1>14 DEF vars
<1>15. CASE Report
  <2>1. PICK t \in Reporters : StatusStore(t) \/ StatusBuild(t)
    BY <1>15 DEF Report
  <2>2. report' \in [Reporters -> Message]
    <3>1. report[t] \in Message
      OBVIOUS
    <3>2. CASE StatusStore(t)
      BY <2>1, <3>1, <3>2, OffTyped DEF StatusStore, NoReport, Message
    <3>3. CASE StatusBuild(t)
      <4>1. \A f \in Filters : FilterState(f, report[t].unsure) \in Setting
        BY OffTyped DEF FilterState, SettingsInv
      <4>2. [on |-> flag, val |-> thr] \in [on : BOOLEAN, val : Threshold]
        BY DEF EnhTypeInv
      <4>3. report[t].unsure \cap (Lists \cup torn) \in SUBSET Filters
        BY <3>1 DEF Message
      <4>4. [f \in Filters |-> FilterState(f, report[t].unsure)] \in [Filters -> Setting]
        BY <4>1
      <4> HIDE DEF ShownInv
      <4> DEFINE of == [f \in Filters |-> FilterState(f, report[t].unsure)]
                 sure == report[t].unsure \cap (Lists \cup torn)
                 enh == [on |-> flag, val |-> thr]
      <4>5. [report[t] EXCEPT !.at = "publish", !.of = of, !.unsure = sure, !.enh = enh]
              \in Message
        <5> HIDE DEF of, sure, enh
        <5> QED
          BY <3>1, <4>2, <4>3, <4>4 DEF of, sure, enh, Message
      <4>6. report' = [report EXCEPT ![t] = [report[t] EXCEPT !.at = "publish", !.of = of,
                                            !.unsure = sure, !.enh = enh]]
        BY <3>3, Zenon DEF StatusBuild
      <4> QED
        BY <4>5, <4>6 DEF ShownInv
    <3> QED
      BY <2>1, <3>2, <3>3
  <2> QED
    BY <1>15, <2>2, ReportMoves
<1> QED
  BY <1>1, <1>2, <1>3, <1>4, <1>5, <1>6, <1>7, <1>8, <1>9, <1>10, <1>11, <1>12, <1>13,
     <1>14, <1>15, Steps

LEMMA AskedTyped ==
    ASSUME NEW r, r.f \in Filters \cup {"unknown", "enhanced"}, r.on \in BOOLEAN,
           r.form \in {"named", "positional", "both"},
           r.p \in Values \cup {"none", "bad", "skip"},
           NEW pc \in PCs, NEW answer \in Answers
    PROVE  Asked(r, pc, answer) \in Served
<1>1. NoRequest \in Served /\ [NoRequest EXCEPT !.answer = answer] \in Served
  BY DEF NoRequest, Served, PCs, Answers
<1>2. [f |-> r.f, on |-> r.on, form |-> r.form, p |-> r.p, pc |-> pc, answer |-> answer]
        \in Served
  BY DEF Served
<1> QED
  BY <1>1, <1>2, Zenon DEF Asked

LEMMA BeginTyped ==
    ASSUME SettingsInv, SettingsInv', EnhTypeInv, EnhTypeInv',
           NEW r \in Requests, NEW pc \in PCs, NEW answer \in Answers, Begin(r, pc, answer)
    PROVE  ReqTypeInv'
<1>1. req' \in Served
  BY RequestFacts, AskedTyped DEF Begin
<1>2. before' \in Found
  BY DEF Begin, Remember, Found, SettingsInv, EnhTypeInv
<1> QED
  BY <1>1, <1>2 DEF ReqTypeInv

LEMMA StepTyped ==
    ASSUME SettingsInv, SettingsInv', EnhTypeInv, EnhTypeInv', ReqTypeInv,
           NEW pc \in PCs, NEW answer \in Answers, Step(pc, answer)
    PROVE  ReqTypeInv'
<1>1. req' \in Served
  <2>1. /\ req.f \in Filters \cup {"unknown", "enhanced"} /\ req.on \in BOOLEAN
        /\ req.form \in {"named", "positional", "both"}
        /\ req.p \in Values \cup {"none", "bad", "skip"}
    BY DEF ReqTypeInv, Served
  <2> QED
    BY <2>1, AskedTyped DEF Step
<1>2. before' \in Found
  BY DEF Step, Remember, Found, SettingsInv, EnhTypeInv, ReqTypeInv
<1> QED
  BY <1>1, <1>2 DEF ReqTypeInv

LEMMA ReqTypeStep ==
    ASSUME SettingsInv, SettingsInv', EnhTypeInv, EnhTypeInv', ReqTypeInv, [Next]_vars
    PROVE  ReqTypeInv'
<1> USE DEF PCs, Answers, state, status, filter, request
<1>1. CASE SetupFilters
  BY <1>1 DEF SetupFilters, SetupKeeps, ReqTypeInv
<1>2. CASE SetupProfiles
  BY <1>2 DEF SetupProfiles, SetupKeeps, ReqTypeInv
<1>3. CASE SetupEnsure
  BY <1>3 DEF SetupEnsure, SetupKeeps, ReqTypeInv
<1>4. CASE SetupReports
  BY <1>4, SetupMoves DEF ReqTypeInv
<1>5. ASSUME NEW r \in Requests, ServeRefuse(r) PROVE ReqTypeInv'
  BY <1>5, BeginTyped DEF ServeRefuse, Accepting, Refuse
<1>6. ASSUME NEW r \in Requests, ServeFilter(r) PROVE ReqTypeInv'
  BY <1>6, BeginTyped DEF ServeFilter, Accepting, ApplyNamed, NamedThrows, SetPositional,
     SetSwitchOnly, SetThrows, FilterKeeps
<1>7. ASSUME NEW r \in Requests, ServeEnhanced(r) PROVE ReqTypeInv'
  BY <1>7, BeginTyped DEF ServeEnhanced, Accepting, EnhancedBegin, EnhancedRefuse, Keeps
<1>8. CASE EnhancedEnsure
  BY <1>8, StepTyped DEF EnhancedEnsure, Keeps
<1>9. CASE EnhancedApply
  BY <1>9, StepTyped DEF EnhancedApply, Keeps
<1>10. CASE EnhancedStore
  BY <1>10, StepTyped DEF EnhancedStore, Keeps
<1>11. CASE Publishing
  <2>1. /\ req.f \in Filters \cup {"unknown", "enhanced"} /\ req.on \in BOOLEAN
        /\ req.form \in {"named", "positional", "both"}
        /\ req.p \in Values \cup {"none", "bad", "skip"}
    BY DEF ReqTypeInv, Served
  <2>2. req' \in Served
    BY <1>11, <2>1, AskedTyped, PublishingMoves DEF ReqTypeInv
  <2>3. before' \in Found
    BY <1>11, PublishingMoves DEF ReqTypeInv, Found, SettingsInv, EnhTypeInv
  <2> QED
    BY <2>2, <2>3 DEF ReqTypeInv
<1>12. CASE Realign
  BY <1>12 DEF Realign, ReqTypeInv
<1>13. CASE Frame
  BY <1>13 DEF Frame, FrameEnter, FrameEnsure, FramePick, FrameProcess, FrameKeeps,
     Alone, ReqTypeInv
<1>14. CASE UNCHANGED vars
  BY <1>14 DEF vars, ReqTypeInv
<1>15. CASE Report
  BY <1>15, ReportMoves DEF ReqTypeInv
<1> QED
  BY <1>1, <1>2, <1>3, <1>4, <1>5, <1>6, <1>7, <1>8, <1>9, <1>10, <1>11, <1>12, <1>13,
     <1>14, <1>15, Steps

LEMMA FlagsStep ==
    ASSUME FlagsInv, [Next]_vars
    PROVE  FlagsInv'
<1> USE DEF FlagsInv, state, status, filter, request
<1>1. CASE SetupFilters
  BY <1>1, Zenon DEF SetupFilters, SetupKeeps
<1>2. CASE SetupProfiles
  BY <1>2, Zenon DEF SetupProfiles, SetupKeeps
<1>3. CASE SetupEnsure
  BY <1>3, Zenon DEF SetupEnsure, SetupKeeps, Ensure, Stray
<1>4. CASE SetupReports
  BY <1>4, SetupMoves
<1>5. ASSUME NEW r \in Requests, ServeRefuse(r) PROVE FlagsInv'
  BY <1>5, Zenon DEF ServeRefuse, Accepting, Refuse, Begin, ExecKeeps
<1>6. ASSUME NEW r \in Requests, ServeFilter(r) PROVE FlagsInv'
  BY <1>6, Zenon DEF ServeFilter, Accepting, ApplyNamed, NamedThrows, SetPositional, SetSwitchOnly,
     SetThrows, Begin, ExecKeeps, FilterKeeps
<1>7. ASSUME NEW r \in Requests, ServeEnhanced(r) PROVE FlagsInv'
  BY <1>7, Zenon DEF ServeEnhanced, Accepting, EnhancedBegin, EnhancedRefuse, Begin, ExecKeeps,
     Keeps
<1>8. CASE EnhancedEnsure
  BY <1>8, Zenon DEF EnhancedEnsure, Step, ExecKeeps, Keeps, Ensure
<1>9. CASE EnhancedApply
  BY <1>9, Zenon DEF EnhancedApply, Step, ExecKeeps, Keeps
<1>10. CASE EnhancedStore
  BY <1>10, Zenon DEF EnhancedStore, Step, ExecKeeps, Keeps
<1>11. CASE Publishing
  BY <1>11, PublishingMoves
<1>12. CASE Realign
  BY <1>12, Zenon DEF Realign
<1>13. CASE Frame
  <2>1. UNCHANGED aligned
    BY <1>13, Zenon DEF Frame, FrameEnter, FrameEnsure, FramePick, FrameProcess, FrameKeeps
  <2>2. alone' \in BOOLEAN
    <3>1. Idle \in BOOLEAN /\ (alone /\ frame' # "idle") \in BOOLEAN
      BY DEF Idle
    <3> QED
      BY <1>13, <3>1, Zenon DEF Frame, FrameEnter, FrameEnsure, FramePick, FrameProcess,
         Alone
  <2>3. CASE FrameEnsure
    <3>1. PICK ok \in BOOLEAN : Ensure(ok)
      BY <2>3, Zenon DEF FrameEnsure
    <3>2. (confidence \/ ok) \in BOOLEAN
      OBVIOUS
    <3>3. confidence' \in BOOLEAN
      BY <3>1, <3>2, Zenon DEF Ensure, filter
    <3>4. /\ (stray \/ enhanced' # enhanced) \in BOOLEAN
          /\ (stray /\ enhanced' # thr) \in BOOLEAN
      OBVIOUS
    <3>5. stray' \in BOOLEAN
      BY <2>3, <3>4, Zenon DEF FrameEnsure, Stray
    <3> QED
      BY <2>1, <2>2, <3>3, <3>5
  <2>4. CASE FrameEnter \/ FramePick \/ FrameProcess
    <3>1. UNCHANGED <<confidence, stray>>
      BY <2>4, Zenon DEF FrameEnter, FramePick, FrameProcess, filter
    <3> QED
      BY <2>1, <2>2, <3>1, Zenon
  <2> QED
    BY <1>13, <2>3, <2>4 DEF Frame
<1>14. CASE UNCHANGED vars
  BY <1>14, Zenon DEF vars
<1>15. CASE Report
  BY <1>15, ReportMoves
<1> QED
  BY <1>1, <1>2, <1>3, <1>4, <1>5, <1>6, <1>7, <1>8, <1>9, <1>10, <1>11, <1>12, <1>13,
     <1>14, <1>15, Steps

LEMMA PlacesStep ==
    ASSUME PlacesInv, [Next]_vars
    PROVE  PlacesInv'
<1> USE DEF PlacesInv, state, status, filter, request
<1>1. CASE SetupFilters
  BY <1>1 DEF SetupFilters, SetupKeeps
<1>2. CASE SetupProfiles
  BY <1>2 DEF SetupProfiles, SetupKeeps
<1>3. CASE SetupEnsure
  BY <1>3 DEF SetupEnsure, SetupKeeps
<1>4. CASE SetupReports
  BY <1>4, SetupMoves
<1>5. ASSUME NEW r \in Requests, ServeRefuse(r) PROVE PlacesInv'
  BY <1>5 DEF ServeRefuse, Accepting, Refuse, Begin, ExecKeeps
<1>6. ASSUME NEW r \in Requests, ServeFilter(r) PROVE PlacesInv'
  BY <1>6 DEF ServeFilter, Accepting, ApplyNamed, NamedThrows, SetPositional, SetSwitchOnly,
     SetThrows, Begin, ExecKeeps, FilterKeeps
<1>7. ASSUME NEW r \in Requests, ServeEnhanced(r) PROVE PlacesInv'
  BY <1>7 DEF ServeEnhanced, Accepting, EnhancedBegin, EnhancedRefuse, Begin, ExecKeeps, Keeps
<1>8. CASE EnhancedEnsure
  BY <1>8 DEF EnhancedEnsure, Step, ExecKeeps, Keeps
<1>9. CASE EnhancedApply
  BY <1>9 DEF EnhancedApply, Step, ExecKeeps, Keeps
<1>10. CASE EnhancedStore
  BY <1>10 DEF EnhancedStore, Step, ExecKeeps, Keeps
<1>11. CASE Publishing
  BY <1>11, PublishingMoves
<1>12. CASE Realign
  BY <1>12 DEF Realign
<1>13. CASE Frame
  BY <1>13 DEF Frame, FrameEnter, FrameEnsure, FramePick, FrameProcess, FrameKeeps,
     Alone
<1>14. CASE UNCHANGED vars
  BY <1>14 DEF vars
<1>15. CASE Report
  BY <1>15, ReportMoves
<1> QED
  BY <1>1, <1>2, <1>3, <1>4, <1>5, <1>6, <1>7, <1>8, <1>9, <1>10, <1>11, <1>12, <1>13,
     <1>14, <1>15, Steps

LEMMA CountsStep ==
    ASSUME CountsInv, [Next]_vars
    PROVE  CountsInv'
<1> USE DEF CountsInv, Fault, NoFault, Misread, state, status, filter, request
<1>1. CASE SetupFilters
  BY <1>1, ValuesAssumption DEF SetupFilters, SetupKeeps
<1>2. CASE SetupProfiles
  BY <1>2, ValuesAssumption DEF SetupProfiles, SetupKeeps
<1>3. CASE SetupEnsure
  BY <1>3, ValuesAssumption DEF SetupEnsure, SetupKeeps, Ensure
<1>4. CASE SetupReports
  BY <1>4, SetupMoves, ValuesAssumption
<1>5. ASSUME NEW r \in Requests, ServeRefuse(r) PROVE CountsInv'
  BY <1>5, ValuesAssumption DEF ServeRefuse, Accepting, Refuse, Begin, ExecKeeps
<1>6. ASSUME NEW r \in Requests, ServeFilter(r) PROVE CountsInv'
  <2>1. NoFault \/ Fault
    BY <1>6, Zenon DEF ServeFilter, Accepting, ApplyNamed, NamedThrows, SetPositional, SetSwitchOnly,
       SetThrows
  <2>2. requests < MaxRequests /\ requests' = requests + 1 /\ UNCHANGED frames
    BY <1>6, Zenon DEF ServeFilter, Accepting, ApplyNamed, NamedThrows, SetPositional, SetSwitchOnly,
       SetThrows, Begin, ExecKeeps
  <2> QED
    BY <2>1, <2>2, ValuesAssumption
<1>7. ASSUME NEW r \in Requests, ServeEnhanced(r) PROVE CountsInv'
  BY <1>7, ValuesAssumption DEF ServeEnhanced, Accepting, EnhancedBegin, EnhancedRefuse, Begin,
     ExecKeeps, Keeps
<1>8. CASE EnhancedEnsure
  BY <1>8, ValuesAssumption DEF EnhancedEnsure, Step, ExecKeeps, Keeps, Ensure
<1>9. CASE EnhancedApply
  BY <1>9, ValuesAssumption DEF EnhancedApply, Step, ExecKeeps, Keeps
<1>10. CASE EnhancedStore
  BY <1>10, ValuesAssumption DEF EnhancedStore, Step, ExecKeeps, Keeps
<1>11. CASE Publishing
  BY <1>11, PublishingMoves, ValuesAssumption
<1>12. CASE Realign
  BY <1>12, ValuesAssumption DEF Realign
<1>13. CASE Frame
  BY <1>13, ValuesAssumption DEF Frame, FrameEnter, FrameEnsure, FramePick,
     FrameProcess, FrameKeeps, Alone, Ensure
<1>14. CASE UNCHANGED vars
  BY <1>14 DEF vars
<1>15. CASE Report
  BY <1>15, ReportMoves
<1> QED
  BY <1>1, <1>2, <1>3, <1>4, <1>5, <1>6, <1>7, <1>8, <1>9, <1>10, <1>11, <1>12, <1>13,
     <1>14, <1>15, Steps

\* What is left of a request that goes on, and of one that begins.
LEMMA AskedFacts ==
    ASSUME NEW r, NEW pc, NEW answer
    PROVE  /\ answer \in {"none", "ok"} =>
                /\ Asked(r, pc, answer).f = r.f /\ Asked(r, pc, answer).on = r.on
                /\ Asked(r, pc, answer).form = r.form /\ Asked(r, pc, answer).p = r.p
           /\ answer \in {"none", "ok"} \/ pc = "idle" => Asked(r, pc, answer).pc = pc
           /\ Asked(r, pc, answer).answer = answer
BY DEF Asked, NoRequest

LEMMA StepFacts ==
    ASSUME ReqTypeInv, NEW pc, NEW answer, Step(pc, answer)
    PROVE  /\ answer \in {"none", "ok"} =>
                /\ req'.f = req.f /\ req'.on = req.on /\ req'.form = req.form
                /\ req'.p = req.p
           /\ answer \in {"none", "ok"} \/ pc = "idle" => req'.pc = pc
           /\ req'.answer = answer /\ UNCHANGED <<setup, report, crossed>>
           /\ answer = "rejected" => UNCHANGED before
           /\ pc \notin {"ensure", "apply"} /\ answer # "rejected"
                => before' = [dev |-> dev', flag |-> flag', thr |-> thr']
BY AskedFacts DEF Step, Remember, ExecKeeps, reports

LEMMA BeginFacts ==
    ASSUME NEW r, NEW pc, NEW answer, Begin(r, pc, answer)
    PROVE  /\ UNCHANGED <<setup, frame, report>> /\ ~alone'
           /\ answer \in {"none", "ok"} =>
                /\ req'.f = r.f /\ req'.on = r.on /\ req'.form = r.form /\ req'.p = r.p
           /\ answer \in {"none", "ok"} \/ pc = "idle" => req'.pc = pc
           /\ req'.answer = answer
           /\ crossed' = crossed \cup {f \in {r.f} : setup = "status" /\ answer # "rejected"}
           /\ pc \in {"ensure", "apply"} \/ answer = "rejected"
                => before' = [dev |-> dev, flag |-> flag, thr |-> thr]
BY AskedFacts DEF Begin, Remember, ExecKeeps

LEMMA FilterMoves ==
    ASSUME NEW r \in Requests, ServeFilter(r)
    PROVE  /\ r.f \in Filters /\ r.f \notin {"enhanced", "unknown"} /\ Accepting
           /\ Begin(r, "publish", "none") \/ Begin(r, "idle", "failed")
                \/ Begin(r, "idle", "partial")
           /\ UNCHANGED <<flag, thr, shown, shownEnh, enhanced, confidence, stray>>
<1>1. r.f \in Filters
  BY DEF ServeFilter, Accepting, ApplyNamed, NamedThrows, SetPositional, SetSwitchOnly, SetThrows,
     ByName, ByPosition
<1>2. Accepting /\ FilterKeeps
  BY Zenon DEF ServeFilter, Accepting, ApplyNamed, NamedThrows, SetPositional, SetSwitchOnly,
     SetThrows
<1>3. \/ Begin(r, "publish", "none") \/ Begin(r, "idle", "failed")
      \/ Begin(r, "idle", "partial")
  BY Zenon DEF ServeFilter, Accepting, ApplyNamed, NamedThrows, SetPositional, SetSwitchOnly,
     SetThrows
<1> QED
  BY <1>1, <1>2, <1>3, FiltersAssumption DEF ListKinds, PropKinds, FilterKeeps, status,
     filter

LEMMA ReqStep ==
    ASSUME PlacesInv, ReqTypeInv, ReqInv, [Next]_vars
    PROVE  ReqInv'
<1> USE DEF ReqInv, RejectedHarmless, Idle, state, status, filter, request
<1>1. CASE SetupFilters
  BY <1>1 DEF SetupFilters, SetupKeeps
<1>2. CASE SetupProfiles
  BY <1>2 DEF SetupProfiles, SetupKeeps
<1>3. CASE SetupEnsure
  BY <1>3 DEF SetupEnsure, SetupKeeps
<1>4. CASE SetupReports
  BY <1>4, SetupMoves
<1>5. ASSUME NEW r \in Requests, ServeRefuse(r) PROVE ReqInv'
  BY <1>5, BeginFacts DEF ServeRefuse, Accepting, Refuse
<1>6. ASSUME NEW r \in Requests, ServeFilter(r) PROVE ReqInv'
  BY <1>6, FilterMoves, BeginFacts DEF Accepting
<1>7. ASSUME NEW r \in Requests, ServeEnhanced(r) PROVE ReqInv'
  <2>1. /\ Accepting /\ UNCHANGED <<dev, flag>> /\ r.f = "enhanced"
        /\ \/ EnhancedRefuse(r)
           \/ /\ thr' = (IF r.p = "none" THEN thr ELSE r.p)
              /\ \/ Begin(r, "ensure", "none") \/ Begin(r, "store", "none")
                 \/ Begin(r, "apply", "none") /\ r.p # "none"
    BY <1>7, Zenon DEF ServeEnhanced, EnhancedBegin, EnhancedRefuse, Keeps
  <2>2. CASE EnhancedRefuse(r)
    BY <2>1, <2>2, BeginFacts DEF EnhancedRefuse, Accepting
  <2>3. CASE thr' = (IF r.p = "none" THEN thr ELSE r.p) /\ Begin(r, "ensure", "none")
    BY <2>1, <2>3, BeginFacts DEF Accepting
  <2>4. CASE /\ thr' = (IF r.p = "none" THEN thr ELSE r.p)
             /\ Begin(r, "store", "none")
    BY <2>1, <2>4, BeginFacts DEF Accepting
  <2>5. CASE /\ thr' = (IF r.p = "none" THEN thr ELSE r.p)
             /\ Begin(r, "apply", "none") /\ r.p # "none"
    BY <2>1, <2>5, BeginFacts DEF Accepting
  <2> QED
    BY <2>1, <2>2, <2>3, <2>4, <2>5
<1>8. CASE EnhancedEnsure
  <2>1. \/ Step("store", "none") /\ thr' = thr
        \/ Step("idle", "rejected") /\ thr' = before.thr
    BY <1>8, Zenon DEF EnhancedEnsure
  <2>2. req.pc = "ensure" /\ UNCHANGED <<dev, flag>>
    BY <1>8 DEF EnhancedEnsure, Keeps
  <2>3. before = [dev |-> before.dev, flag |-> before.flag, thr |-> before.thr]
    BY DEF ReqTypeInv, Found
  <2>4. CASE Step("store", "none") /\ thr' = thr
    BY <2>2, <2>4, StepFacts
  <2>5. CASE Step("idle", "rejected") /\ thr' = before.thr
    BY <2>2, <2>3, <2>5, StepFacts
  <2> QED
    BY <2>1, <2>4, <2>5
<1>9. CASE EnhancedApply
  <2>1. \/ Step("store", "none") /\ thr' = thr
        \/ Step("idle", "rejected") /\ thr' = before.thr
    BY <1>9, Zenon DEF EnhancedApply
  <2>2. req.pc = "apply" /\ UNCHANGED <<dev, flag>>
    BY <1>9 DEF EnhancedApply, Keeps
  <2>3. before = [dev |-> before.dev, flag |-> before.flag, thr |-> before.thr]
    BY DEF ReqTypeInv, Found
  <2>4. CASE Step("store", "none") /\ thr' = thr
    BY <2>2, <2>4, StepFacts
  <2>5. CASE Step("idle", "rejected") /\ thr' = before.thr
    BY <2>2, <2>3, <2>5, StepFacts
  <2> QED
    BY <2>1, <2>4, <2>5
<1>10. CASE EnhancedStore
  <2>1. req.pc = "store" /\ UNCHANGED <<thr, dev>> /\ Step("publish", "none")
    BY <1>10, Zenon DEF EnhancedStore, Keeps
  <2> QED
    BY <2>1, StepFacts
<1>11. CASE Publishing
  <2>1. req'.pc \in {"publish", "idle"} /\ UNCHANGED setup
    BY <1>11, PublishingMoves, AskedFacts
  <2>2. req'.pc = "publish" => req' = req /\ req'.answer = "none"
    BY <1>11, PublishingMoves, AskedFacts
  <2>3. req'.answer # "rejected"
    BY <1>11, <2>2, PublishingMoves, AskedFacts
  <2> QED
    BY <1>11, <2>1, <2>2, <2>3, PublishingMoves
<1>12. CASE Realign
  BY <1>12 DEF Realign
<1>13. CASE Frame
  BY <1>13 DEF Frame, FrameEnter, FrameEnsure, FramePick, FrameProcess, FrameKeeps,
     Alone
<1>14. CASE UNCHANGED vars
  BY <1>14 DEF vars
<1>15. CASE Report
  BY <1>15, ReportMoves
<1> QED
  BY <1>1, <1>2, <1>3, <1>4, <1>5, <1>6, <1>7, <1>8, <1>9, <1>10, <1>11, <1>12, <1>13,
     <1>14, <1>15, Steps

\* the request has done what it asks for
Done ==
    /\ req.f \in Filters =>
         /\ dev[req.f].on = req.on
         /\ req.p \in Values /\ Taken(req) => dev[req.f].val = req.p
         /\ req.p = "bad" => ~req.on \/ req.f = "plain"
    /\ req.f = "enhanced" =>
         /\ flag = req.on
         /\ req.p # "none" => thr = req.p
AnswerInv == req.pc = "publish" \/ req.answer = "ok" => Done

LEMMA AnswerStep ==
    ASSUME SettingsInv, ReqTypeInv, ReqInv, AnswerInv, [Next]_vars
    PROVE  AnswerInv'
<1> USE DEF AnswerInv, Done, Taken, ReqInv, Idle, state, status, filter, request
<1>1. CASE SetupFilters
  BY <1>1 DEF SetupFilters, SetupKeeps
<1>2. CASE SetupProfiles
  BY <1>2 DEF SetupProfiles, SetupKeeps
<1>3. CASE SetupEnsure
  BY <1>3 DEF SetupEnsure, SetupKeeps
<1>4. CASE SetupReports
  BY <1>4, SetupMoves
<1>5. ASSUME NEW r \in Requests, ServeRefuse(r) PROVE AnswerInv'
  BY <1>5, BeginFacts DEF ServeRefuse, Accepting, Refuse
<1>6. ASSUME NEW r \in Requests, ServeFilter(r) PROVE AnswerInv'
  <2>1. r.f \in Filters /\ r.f \notin {"enhanced", "unknown"}
    BY <1>6, FilterMoves
  <2>2. CASE NamedThrows(r) \/ SetSwitchOnly(r) \/ SetThrows(r)
    <3>1. Begin(r, "idle", "failed") \/ Begin(r, "idle", "partial")
      BY <2>2, Zenon DEF NamedThrows, SetSwitchOnly, SetThrows
    <3> QED
      BY <3>1, BeginFacts
  <2>3. CASE ApplyNamed(r)
    <3>1. /\ Begin(r, "publish", "none") /\ dev' = Set(dev, r, r.p \in Values)
          /\ r.p # "bad"
      BY <2>3, <2>1 DEF ApplyNamed, ByName, Refused, BadParameter
    <3>2. /\ dev'[r.f].on = r.on
          /\ r.p \in Values => dev'[r.f].val = r.p
      BY <3>1, <2>1 DEF Set, SettingsInv
    <3> QED
      BY <2>1, <3>1, <3>2, BeginFacts
  <2>4. CASE SetPositional(r)
    <3>1. /\ Begin(r, "publish", "none") /\ dev' = Set(dev, r, Taken(r))
          /\ r.p = "bad" => ~r.on \/ r.f = "plain"
      BY <2>4, ValuesAssumption DEF SetPositional
    <3>2. /\ dev'[r.f].on = r.on
          /\ Taken(r) => dev'[r.f].val = r.p
      BY <3>1, <2>1 DEF Set, SettingsInv
    <3>3. Taken(req)' <=> Taken(r)
      BY <3>1, BeginFacts
    <3> QED
      BY <2>1, <3>1, <3>2, <3>3, BeginFacts
  <2> QED
    BY <1>6, <2>2, <2>3, <2>4 DEF ServeFilter
<1>7. ASSUME NEW r \in Requests, ServeEnhanced(r) PROVE AnswerInv'
  <2>1. \/ Begin(r, "ensure", "none") \/ Begin(r, "store", "none")
        \/ Begin(r, "apply", "none") \/ Begin(r, "idle", "rejected")
    BY <1>7, Zenon DEF ServeEnhanced, EnhancedBegin, EnhancedRefuse
  <2> QED
    BY <2>1, BeginFacts
<1>8. CASE EnhancedEnsure
  <2>1. Step("store", "none") \/ Step("idle", "rejected")
    BY <1>8, Zenon DEF EnhancedEnsure
  <2> QED
    BY <2>1, StepFacts
<1>9. CASE EnhancedApply
  <2>1. Step("store", "none") \/ Step("idle", "rejected")
    BY <1>9, Zenon DEF EnhancedApply
  <2> QED
    BY <2>1, StepFacts
<1>10. CASE EnhancedStore
  <2>1. req.pc = "store" /\ flag' = req.on /\ UNCHANGED thr /\ Step("publish", "none")
    BY <1>10, Zenon DEF EnhancedStore
  <2>2. req'.f = "enhanced" /\ req'.f \notin Filters
    BY <2>1, StepFacts, FiltersAssumption DEF ListKinds, PropKinds
  <2> QED
    BY <2>1, <2>2, StepFacts
<1>11. CASE Publishing
  <2>1. UNCHANGED <<dev, flag, thr>> /\ req.pc = "publish"
    BY <1>11, PublishingMoves
  <2>2. \/ req' = req
        \/ req'.answer = "failed" /\ req'.pc = "idle"
        \/ req'.f = req.f /\ req'.on = req.on /\ req'.form = req.form /\ req'.p = req.p
    BY <1>11, PublishingMoves, AskedFacts
  <2> QED
    BY <2>1, <2>2
<1>12. CASE Realign
  BY <1>12 DEF Realign
<1>13. CASE Frame
  BY <1>13 DEF Frame, FrameEnter, FrameEnsure, FramePick, FrameProcess, FrameKeeps,
     Alone
<1>14. CASE UNCHANGED vars
  BY <1>14 DEF vars
<1>15. CASE Report
  BY <1>15, ReportMoves
<1> QED
  BY <1>1, <1>2, <1>3, <1>4, <1>5, <1>6, <1>7, <1>8, <1>9, <1>10, <1>11, <1>12, <1>13,
     <1>14, <1>15, Steps

\* The threshold that holds if the request being served is refused.
Settled == IF req.pc \in {"ensure", "apply"} THEN before.thr ELSE thr

\* The enhanced filter, in every state.
EnhancedInv ==
    /\ setup \in {"ensured", "status", "up"} /\ flag => enhanced # "null"
    /\ req.pc = "store" /\ req.on => enhanced # "null" /\ thr # "bad"
    /\ frame # "idle" => setup = "up" /\ enhanced # "null"
    /\ ~stray => enhanced \in {"null", "initial", Settled}
    /\ setup \in {"ensured", "status", "up"} /\ flag /\ ~stray => Settled # "bad"

\* A frame on its way through the filter.
FrameInv ==
    frame \in {"pick", "process"} /\ alone /\ thr # "unset" => enhanced = thr

\* What the set-up and a frame do when they set up the filter.
LEMMA EnsuredFacts ==
    ASSUME EnhTypeInv, ReqTypeInv, ReqInv, EnhancedInv,
           NEW ok \in BOOLEAN, Ensure(ok), Stray, UNCHANGED <<thr, before, req>>
    PROVE  /\ enhanced # "null" => enhanced' # "null"
           /\ ok => thr # "bad" /\ enhanced' # "null" /\ enhanced' = Applied
           /\ ~stray' => enhanced' \in {"null", "initial", Settled}
           /\ ~stray' => (stray \/ ok => Settled # "bad")
<1> USE DEF EnhTypeInv, Threshold, Reading
<1>1. /\ enhanced' \in Reading /\ enhanced' \in {enhanced, Created, Applied}
      /\ enhanced # "null" => enhanced' # "null"
      /\ ok => thr # "bad" /\ enhanced' = Applied /\ enhanced' # "null"
  BY EnsureFacts
<1>2. "bad" \notin Reading /\ {"unset", "null", "initial"} \cap Values = {}
  BY ValuesAssumption
<1>3. CASE req.pc \in {"ensure", "apply"}
  <2>1. Settled = before.thr /\ stray' = (stray \/ enhanced' # enhanced)
    BY <1>3 DEF Settled, Stray, Pending
  <2>2. ~stray' => ~stray /\ enhanced' = enhanced
    BY <2>1
  <2>3. ~stray' => enhanced' \in {"null", "initial", Settled}
    BY <2>2 DEF EnhancedInv
  <2>4. ok /\ ~stray' => Settled # "bad"
    <3> SUFFICES ASSUME ok, ~stray' PROVE Settled # "bad"
      OBVIOUS
    <3>1. CASE thr \in Values
      BY <1>1, <1>2, <2>3, <3>1 DEF Applied
    <3>2. CASE thr = "unset"
      <4>1. req.p \in Values \cup {"none", "bad", "skip"}
        BY DEF ReqTypeInv, Served
      <4>2. req.p = "none" \/ req.p = "unset"
        BY <1>3, <3>2 DEF ReqInv
      <4>3. req.pc = "ensure" /\ req.p = "none"
        BY <1>2, <1>3, <4>1, <4>2 DEF ReqInv
      <4> QED
        BY <2>1, <3>2, <4>3 DEF ReqInv
    <3> QED
      BY <1>1, <3>1, <3>2
  <2> QED
    BY <1>1, <2>2, <2>3, <2>4
<1>4. CASE req.pc \notin {"ensure", "apply"}
  <2>1. Settled = thr /\ stray' = (stray /\ enhanced' # thr)
    BY <1>4 DEF Settled, Stray, Pending
  <2>2. ~stray => enhanced \in {"null", "initial", thr}
    BY <2>1 DEF EnhancedInv
  <2>3. ~stray => enhanced' \in {"null", "initial", thr}
    BY <1>1, <2>2 DEF Applied, Created
  <2>4. ~stray' => enhanced' \in {"null", "initial", thr}
    BY <2>1, <2>3
  <2>5. ~stray' /\ stray => thr # "bad"
    BY <1>1, <1>2, <2>1
  <2> QED
    BY <1>1, <2>1, <2>4, <2>5
<1> QED
  BY <1>3, <1>4

LEMMA EnhancedStep ==
    ASSUME EnhTypeInv, ReqTypeInv, ReqInv, EnhancedInv, [Next]_vars
    PROVE  EnhancedInv'
<1> USE DEF EnhancedInv, Settled, Idle, state, status, filter, request
<1>1. CASE SetupFilters
  BY <1>1 DEF SetupFilters, SetupKeeps
<1>2. CASE SetupProfiles
  BY <1>2 DEF SetupProfiles, SetupKeeps
<1>3. CASE SetupEnsure
  <2>1. setup = "profiles" /\ UNCHANGED <<req, before, thr, flag, frame>> /\ frame = "idle"
    BY <1>3 DEF SetupEnsure, SetupKeeps
  <2>2. CASE ~flag /\ setup' = "ensured" /\ UNCHANGED <<enhanced, stray>>
    BY <2>1, <2>2
  <2>3. ASSUME NEW ok \in BOOLEAN, Ensure(ok), Stray,
               setup' = IF ok THEN "ensured" ELSE "failed"
        PROVE  EnhancedInv'
    BY <2>1, <2>3, EnsuredFacts
  <2> QED
    BY <1>3, <2>2, <2>3, Zenon DEF SetupEnsure, filter
<1>4. CASE SetupReports
  BY <1>4, SetupMoves
<1>5. ASSUME NEW r \in Requests, ServeRefuse(r) PROVE EnhancedInv'
  BY <1>5, BeginFacts DEF ServeRefuse, Accepting, Refuse
<1>6. ASSUME NEW r \in Requests, ServeFilter(r) PROVE EnhancedInv'
  BY <1>6, FilterMoves, BeginFacts DEF Accepting, Idle
<1>7. ASSUME NEW r \in Requests, ServeEnhanced(r) PROVE EnhancedInv'
  <2>0. req.pc = "idle"
    BY <1>7 DEF ServeEnhanced, Accepting
  <2>1. CASE EnhancedRefuse(r)
    <3>1. Begin(r, "idle", "rejected") /\ UNCHANGED <<flag, thr, enhanced, stray>>
      BY <2>1 DEF EnhancedRefuse
    <3> QED
      BY <2>0, <3>1, BeginFacts
  <2>2. CASE EnhancedBegin(r)
    <3>1. /\ UNCHANGED <<flag, enhanced, stray>>
          /\ thr' = (IF r.p = "none" THEN thr ELSE r.p)
          /\ \/ r.on /\ Begin(r, "ensure", "none")
             \/ r.p # "none" /\ enhanced # "null" /\ ~r.on /\ Begin(r, "apply", "none")
             \/ ~r.on /\ (r.p = "none" \/ enhanced = "null") /\ Begin(r, "store", "none")
      BY <2>2, RequestFacts DEF EnhancedBegin
    <3>2. CASE Begin(r, "ensure", "none") \/ Begin(r, "apply", "none")
      BY <2>0, <3>1, <3>2, BeginFacts
    <3>3. CASE ~r.on /\ (r.p = "none" \/ enhanced = "null") /\ Begin(r, "store", "none")
      BY <2>0, <3>1, <3>3, BeginFacts
    <3> QED
      BY <3>1, <3>2, <3>3
  <2> QED
    BY <1>7, <2>1, <2>2 DEF ServeEnhanced
<1>8. CASE EnhancedEnsure
  <2>1. req.pc = "ensure" /\ UNCHANGED <<flag, setup, frame>> /\ Settled = before.thr
    BY <1>8 DEF EnhancedEnsure, Step, ExecKeeps
  <2>2. CASE Ensure(TRUE) /\ stray' = (stray /\ enhanced' # thr) /\ UNCHANGED thr
             /\ Step("store", "none")
    <3>1. enhanced' = Applied /\ enhanced' # "null" /\ thr # "bad"
      BY <2>2, EnsureFacts
    <3>2. CASE thr = "unset"
      <4>1. thr = before.thr
        BY <2>1, <3>2, ValuesAssumption DEF ReqInv, ReqTypeInv, Served
      <4>2. ~stray => enhanced \in {"null", "initial"}
        BY <2>1, <3>2, <4>1, ValuesAssumption DEF EnhTypeInv, Reading
      <4>3. ~stray => enhanced' = "initial"
        BY <3>1, <3>2, <4>2 DEF Applied, Created
      <4>4. enhanced' # thr
        BY <3>1, <3>2, ValuesAssumption DEF Applied, Created, EnhTypeInv, Reading
      <4>5. ~stray' => ~stray
        BY <2>2, <4>4
      <4> QED
        BY <2>1, <2>2, <3>1, <3>2, <4>3, <4>5, StepFacts
    <3>3. CASE thr # "unset"
      <4>1. enhanced' = thr
        BY <3>1, <3>3 DEF Applied
      <4> QED
        BY <2>1, <2>2, <3>1, <4>1, StepFacts
    <3> QED
      BY <3>2, <3>3
  <2>3. CASE Ensure(FALSE) /\ stray' = (stray \/ enhanced' \notin {enhanced, "initial"})
             /\ thr' = before.thr /\ Step("idle", "rejected")
    <3>1. enhanced # "null" => enhanced' # "null"
      BY <2>3, EnsureFacts
    <3>2. ~stray' => ~stray /\ enhanced' \in {enhanced, "initial"}
      BY <2>3
    <3> QED
      BY <2>1, <2>3, <3>1, <3>2, StepFacts
  <2> QED
    BY <1>8, <2>2, <2>3, Zenon DEF EnhancedEnsure
<1>9. CASE EnhancedApply
  <2>1. req.pc = "apply" /\ UNCHANGED <<flag, setup, frame, stray>> /\ Settled = before.thr
    BY <1>9 DEF EnhancedApply, Step, ExecKeeps
  <2>2. CASE thr # "bad" /\ enhanced' = thr /\ UNCHANGED thr /\ Step("store", "none")
    <3>1. thr # "null"
      BY ValuesAssumption DEF EnhTypeInv, Threshold
    <3> QED
      BY <2>1, <2>2, <3>1, StepFacts
  <2>3. CASE thr' = before.thr /\ UNCHANGED enhanced /\ Step("idle", "rejected")
    BY <2>1, <2>3, StepFacts
  <2> QED
    BY <1>9, <2>2, <2>3, Zenon DEF EnhancedApply
<1>10. CASE EnhancedStore
  <2>1. /\ req.pc = "store" /\ flag' = req.on /\ Step("publish", "none")
        /\ UNCHANGED <<thr, enhanced, stray, setup, frame>>
    BY <1>10 DEF EnhancedStore, Step, ExecKeeps, filter
  <2> QED
    BY <2>1, StepFacts
<1>11. CASE Publishing
  <2>1. UNCHANGED <<flag, thr, enhanced, stray, setup, frame>> /\ req.pc = "publish"
    BY <1>11, PublishingMoves
  <2>2. req' = req \/ req'.pc = "idle"
    BY <1>11, PublishingMoves, AskedFacts
  <2> QED
    BY <2>1, <2>2
<1>12. CASE Realign
  BY <1>12 DEF Realign
<1>13. CASE Frame
  <2>1. UNCHANGED <<setup, req, before, thr, flag>>
    BY <1>13 DEF Frame, FrameEnter, FrameEnsure, FramePick, FrameProcess, FrameKeeps
  <2>2. CASE FrameEnsure
    <3>1. PICK ok \in BOOLEAN : Ensure(ok)
      BY <2>2, Zenon DEF FrameEnsure
    <3>2. Stray /\ frame = "ensure"
      BY <2>2, Zenon DEF FrameEnsure
    <3> QED
      BY <2>1, <3>1, <3>2, EnsuredFacts
  <2>3. CASE FrameEnter
    BY <2>1, <2>3 DEF FrameEnter, filter
  <2>4. CASE FramePick \/ FrameProcess
    BY <2>1, <2>4 DEF FramePick, FrameProcess, filter
  <2> QED
    BY <1>13, <2>2, <2>3, <2>4 DEF Frame
<1>14. CASE UNCHANGED vars
  BY <1>14 DEF vars
<1>15. CASE Report
  BY <1>15, ReportMoves
<1> QED
  BY <1>1, <1>2, <1>3, <1>4, <1>5, <1>6, <1>7, <1>8, <1>9, <1>10, <1>11, <1>12, <1>13,
     <1>14, <1>15, Steps

LEMMA FrameStep ==
    ASSUME EnhTypeInv, EnhancedInv, FrameInv, [Next]_vars
    PROVE  FrameInv'
<1> USE DEF FrameInv, state, status, filter, request
<1>1. CASE SetupFilters
  BY <1>1 DEF SetupFilters, SetupKeeps
<1>2. CASE SetupProfiles
  BY <1>2 DEF SetupProfiles, SetupKeeps
<1>3. CASE SetupEnsure
  BY <1>3, EnsureFacts DEF SetupEnsure, SetupKeeps, EnhancedInv
<1>4. CASE SetupReports
  BY <1>4, SetupMoves
<1>5. ASSUME NEW r \in Requests, ServeRefuse(r) PROVE FrameInv'
  BY <1>5, BeginFacts DEF ServeRefuse, Accepting, Refuse
<1>6. ASSUME NEW r \in Requests, ServeFilter(r) PROVE FrameInv'
  BY <1>6, FilterMoves, BeginFacts DEF Accepting, Idle
<1>7. ASSUME NEW r \in Requests, ServeEnhanced(r) PROVE FrameInv'
  BY <1>7, BeginFacts DEF ServeEnhanced, Accepting, EnhancedBegin, EnhancedRefuse
<1>8. CASE EnhancedEnsure
  BY <1>8 DEF EnhancedEnsure, Step, ExecKeeps, Keeps
<1>9. CASE EnhancedApply
  BY <1>9 DEF EnhancedApply, Step, ExecKeeps, Keeps
<1>10. CASE EnhancedStore
  BY <1>10 DEF EnhancedStore, Step, ExecKeeps, Keeps
<1>11. CASE Publishing
  BY <1>11, PublishingMoves
<1>12. CASE Realign
  BY <1>12 DEF Realign
<1>13. CASE Frame
  <2>1. UNCHANGED thr /\ (alone' => frame = "idle" \/ alone)
    BY <1>13 DEF Frame, FrameEnter, FrameEnsure, FramePick, FrameProcess, FrameKeeps, Alone
  <2>2. CASE FrameEnsure
    <3>1. PICK ok \in BOOLEAN : Ensure(ok) /\ frame' = IF ok THEN "pick" ELSE "idle"
      BY <2>2, Zenon DEF FrameEnsure
    <3>2. CASE ok
      BY <2>1, <3>1, <3>2, EnsureFacts DEF Applied
    <3>3. CASE ~ok
      BY <3>1, <3>3
    <3> QED
      BY <3>2, <3>3
  <2>3. CASE FrameEnter \/ FramePick \/ FrameProcess
    BY <2>1, <2>3 DEF FrameEnter, FramePick, FrameProcess, filter
  <2> QED
    BY <1>13, <2>2, <2>3 DEF Frame
<1>14. CASE UNCHANGED vars
  BY <1>14 DEF vars
<1>15. CASE Report
  BY <1>15, ReportMoves
<1> QED
  BY <1>1, <1>2, <1>3, <1>4, <1>5, <1>6, <1>7, <1>8, <1>9, <1>10, <1>11, <1>12, <1>13,
     <1>14, <1>15, Steps

\* What the request being served is about to report
InFlight == {f \in {req.f} : req.pc \in {"store", "publish"}}

\* A report on its way is right about the filters that it could read and that
\* no request beside the set-up's report is about.
ReportOK(t) ==
    LET r == report[t] sure == crossed \cup r.unsure IN
    /\ r.at = "store" => \A f \in Filters \ crossed : r.of[f] = dev[f]
    /\ r.at \in {"build", "publish"} => \A f \in Props \ sure : cache[f] = dev[f]
    /\ r.at = "publish" =>
         /\ \A f \in Filters \ sure : r.of[f] = dev[f]
         /\ "enhanced" \notin crossed => r.enh = [on |-> flag, val |-> thr]

\* Who reports when, and what has crossed the set-up's report.
ReportingInv ==
    /\ setup # "status" => report["setup"].at = "read"
    /\ report["executor"].at # "read" => req.pc = "publish"
    /\ setup \in {"config", "serving", "profiles", "ensured"} => crossed = {}
    /\ setup = "status" /\ req.pc \in {"ensure", "apply", "store"} => "enhanced" \in crossed
    /\ setup = "up" => crossed \subseteq torn

\* The members, but for what has crossed the set-up's report.
MembersInv == \A f \in Props \ (torn \cup crossed) : cache[f] = dev[f]

\* The status, but for what the request in flight is about to report.
ShownRight ==
    setup = "up" =>
        /\ \A f \in Filters \ (torn \cup InFlight) : shown[f] = dev[f]
        /\ "enhanced" \notin torn \cup InFlight
             => shownEnh = [on |-> flag, val |-> Settled]

StatusInv ==
    /\ setup = "config" => Filters \subseteq torn
    /\ ReportingInv /\ MembersInv /\ ShownRight
    /\ \A t \in Reporters : ReportOK(t)

LEMMA Kinds ==
    /\ \A f \in Props : f \in Filters /\ f \notin Lists
    /\ \A f \in Filters : f \in Props \/ f \in Lists
    /\ "enhanced" \notin Filters
BY FiltersAssumption DEF Props, Lists, PropKinds, ListKinds

\* A step that leaves the reports and what they read alone.
LEMMA StatusKept ==
    ASSUME StatusInv, UNCHANGED <<dev, cache, flag, thr, req, before, status, torn, reports>>,
           \/ setup' = setup
           \/ setup \in {"serving", "profiles", "ensured"}
              /\ setup' \in {"profiles", "ensured", "failed"}
    PROVE  StatusInv'
<1> USE DEF StatusInv, status, reports
<1>1. ReportingInv'
  BY DEF ReportingInv
<1>2. MembersInv'
  BY DEF MembersInv
<1>3. ShownRight'
  BY DEF ShownRight, InFlight, Settled
<1>4. \A t \in Reporters : ReportOK(t)'
  BY DEF ReportOK
<1> QED
  BY <1>1, <1>2, <1>3, <1>4

\* A request about one filter of which nothing is reported.
LEMMA StatusOfFilter ==
    ASSUME SettingsInv, ShownInv, StatusInv, NEW r \in Requests, ServeFilter(r)
    PROVE  StatusInv'
<1> USE DEF StatusInv
<1>1. /\ r.f \in Filters /\ r.f # "enhanced" /\ Accepting
      /\ UNCHANGED <<flag, thr, shown, shownEnh>>
  BY FilterMoves
<1>2. PICK pc \in {"idle", "publish"}, answer \in {"none", "failed", "partial"} :
        Begin(r, pc, answer)
  BY FilterMoves
<1>3. /\ UNCHANGED <<setup, report>>
      /\ req'.pc \in {"idle", "publish"}
      /\ crossed' = crossed \cup {f \in {r.f} : setup = "status"}
      /\ req.pc = "idle"
  BY <1>1, <1>2, FilterMoves, BeginFacts DEF Accepting, Idle
<1>4. /\ \A f \in Filters : f # r.f => dev'[f] = dev[f] /\ cache'[f] = cache[f]
      /\ torn' \in {torn, torn \cup {r.f}}
  BY <1>1 DEF ServeFilter, ApplyNamed, NamedThrows, SetPositional, SetSwitchOnly, SetThrows,
     Set, SettingsInv
<1>5. \/ r.f \in torn'
      \/ /\ req'.pc = "publish" /\ req'.f = r.f
         /\ r.f \in Props /\ cache[r.f] = dev[r.f] => cache'[r.f] = dev'[r.f]
  <2>1. CASE ApplyNamed(r) \/ SetPositional(r)
    <3>1. Begin(r, "publish", "none")
      BY <2>1, Zenon DEF ApplyNamed, SetPositional
    <3>2. r.f \in Props /\ cache[r.f] = dev[r.f] => cache'[r.f] = dev'[r.f]
      BY <1>1, <2>1 DEF ApplyNamed, SetPositional, Set, SettingsInv
    <3> QED
      BY <3>1, <3>2, BeginFacts
  <2>2. CASE NamedThrows(r) \/ SetSwitchOnly(r) \/ SetThrows(r)
    BY <2>2 DEF NamedThrows, SetSwitchOnly, SetThrows
  <2> QED
    BY <2>1, <2>2 DEF ServeFilter
<1>6. setup # "status" => report["setup"].at = "read" /\ crossed' = crossed
  BY <1>3 DEF ReportingInv
<1>7. report["executor"].at = "read"
  BY <1>3 DEF ReportingInv
<1>8. ReportingInv'
  BY <1>1, <1>3, <1>4, <1>6, <1>7 DEF ReportingInv
<1>9. MembersInv'
  BY <1>3, <1>4, <1>5, Kinds DEF MembersInv
<1>10. ShownRight'
  <2> SUFFICES ASSUME setup = "up"
               PROVE  /\ \A f \in Filters \ (torn' \cup InFlight') : shown[f] = dev'[f]
                      /\ "enhanced" \notin torn' \cup InFlight'
                           => shownEnh = [on |-> flag, val |-> Settled']
    BY <1>1, <1>3 DEF ShownRight
  <2>1. InFlight = {} /\ Settled = thr /\ Settled' = thr
    BY <1>1, <1>3 DEF InFlight, Settled
  <2>2. r.f \in torn' \cup InFlight'
    BY <1>5 DEF InFlight
  <2> QED
    BY <1>1, <1>4, <2>1, <2>2 DEF ShownRight
<1>11. \A t \in Reporters : ReportOK(t)'
  <2> SUFFICES ASSUME NEW t \in Reporters PROVE ReportOK(t)'
    OBVIOUS
  <2>1. CASE report[t].at = "read"
    BY <1>3, <2>1 DEF ReportOK
  <2>2. CASE report[t].at # "read"
    <3>1. t = "setup" /\ setup = "status" /\ crossed' = crossed \cup {r.f}
      BY <1>3, <1>6, <1>7, <2>2 DEF Reporters
    <3> QED
      BY <1>1, <1>3, <1>4, <3>1, Kinds DEF ReportOK
  <2> QED
    BY <2>1, <2>2
<1>12. setup' = "config" => Filters \subseteq torn'
  BY <1>3, <1>4
<1> QED
  BY <1>8, <1>9, <1>10, <1>11, <1>12

\* A request about the enhanced filter, of which no report is right before it is done.
LEMMA StatusOfEnhanced ==
    ASSUME StatusInv, UNCHANGED <<dev, cache, status, torn, setup, report>>,
           req.pc # "publish", req.pc = "store" => req.f = "enhanced",
           crossed' = crossed \/ (setup = "status" /\ crossed' = crossed \cup {"enhanced"}),
           setup = "status" => "enhanced" \in crossed' \/ UNCHANGED <<flag, thr>>,
           req'.pc \in {"ensure", "apply", "store"} =>
             req'.f = "enhanced" /\ (setup = "status" => "enhanced" \in crossed'),
           req'.pc = "publish" => req'.f = "enhanced",
           ~("enhanced" \in InFlight') => UNCHANGED flag /\ Settled' = Settled
                                          /\ InFlight = {}
    PROVE  StatusInv'
<1> USE DEF StatusInv, status
<1>1. report["executor"].at = "read"
  BY DEF ReportingInv
<1>2. ReportingInv'
  BY <1>1 DEF ReportingInv
<1>3. MembersInv'
  BY DEF MembersInv
<1>4. \A t \in Reporters : ReportOK(t)'
  <2> SUFFICES ASSUME NEW t \in Reporters PROVE ReportOK(t)'
    OBVIOUS
  <2>1. CASE report[t].at = "read"
    BY <2>1 DEF ReportOK
  <2>2. CASE report[t].at # "read"
    <3>1. setup = "status"
      BY <1>1, <2>2 DEF Reporters, ReportingInv
    <3> QED
      BY <3>1 DEF ReportOK
  <2> QED
    BY <2>1, <2>2
<1>5. ShownRight'
  <2>1. InFlight \subseteq {"enhanced"}
    BY DEF InFlight
  <2>2. \A f \in Filters : setup = "up" => shown[f] = dev[f] \/ f \in torn
    BY <2>1, Kinds DEF ShownRight
  <2>3. setup = "up" /\ "enhanced" \notin torn \cup InFlight'
          => shownEnh = [on |-> flag', val |-> Settled']
    BY DEF ShownRight
  <2> QED
    BY <2>2, <2>3 DEF ShownRight
<1> QED
  BY <1>2, <1>3, <1>4, <1>5

\* What a report that is read, stored or built does to what is known of it.
LEMMA StatusOfRead ==
    ASSUME SettingsInv, ShownInv, StatusInv, NEW t \in Reporters, StatusRead(t),
           UNCHANGED <<dev, cache, flag, thr, req, before, status, torn, setup>>,
           \/ crossed' = crossed
           \/ crossed' = {} /\ setup = "up",
           t = "setup" => setup = "status", t = "executor" => req.pc = "publish"
    PROVE  StatusInv'
<1> USE DEF StatusInv, status
<1>1. PICK M \in Misreads :
        report' = [report EXCEPT ![t].at = "store", ![t].of = dev, ![t].unsure = M]
  BY DEF StatusRead
<1>2. /\ report'[t].at = "store" /\ report'[t].of = dev
      /\ \A u \in Reporters \ {t} : report'[u] = report[u]
  BY <1>1 DEF ShownInv, Message
<1>3. ReportingInv'
  BY <1>2 DEF ReportingInv, Reporters
<1>4. MembersInv'
  BY DEF MembersInv, ReportingInv
<1>5. ShownRight'
  BY DEF ShownRight, InFlight, Settled
<1>6. \A u \in Reporters : ReportOK(u)'
  <2> SUFFICES ASSUME NEW u \in Reporters PROVE ReportOK(u)'
    OBVIOUS
  <2>1. CASE u = t
    BY <1>2, <2>1 DEF ReportOK
  <2>2. CASE u # t /\ report[u].at = "read"
    BY <1>2, <2>2 DEF ReportOK
  <2>3. CASE u # t /\ report[u].at # "read"
    <3>1. setup = "up" => u = "executor" /\ t = "setup"
      BY <2>3 DEF Reporters, ReportingInv
    <3>2. crossed' = crossed
      BY <3>1
    <3> QED
      BY <1>2, <2>3, <3>2 DEF ReportOK
  <2> QED
    BY <2>1, <2>2, <2>3
<1> QED
  BY <1>3, <1>4, <1>5, <1>6

LEMMA StatusOfStore ==
    ASSUME SettingsInv, ShownInv, StatusInv, NEW t \in Reporters, StatusStore(t)
    PROVE  StatusInv'
<1> USE DEF StatusInv, status
<1>1. UNCHANGED <<dev, flag, thr, req, before, shown, shownEnh, torn, setup, crossed>>
  BY DEF StatusStore, ReportKeeps
<1>2. /\ report[t].at = "store" /\ report'[t].at = "build"
      /\ report'[t].unsure = report[t].unsure
      /\ \A u \in Reporters \ {t} : report'[u] = report[u]
  BY DEF StatusStore, ShownInv, Message
<1>3. \A f \in Props : cache'[f] = IF f \in report[t].unsure THEN cache[f]
                                                               ELSE report[t].of[f]
  BY Kinds DEF StatusStore
<1>4. \A f \in Props \ crossed : cache'[f] = cache[f] \/ cache'[f] = dev[f]
  BY <1>2, <1>3, Kinds DEF ReportOK
<1>5. ReportingInv'
  BY <1>1, <1>2 DEF ReportingInv, Reporters
<1>6. MembersInv'
  BY <1>1, <1>4 DEF MembersInv
<1>7. ShownRight'
  BY <1>1 DEF ShownRight, InFlight, Settled
<1>8. \A u \in Reporters : ReportOK(u)'
  <2> SUFFICES ASSUME NEW u \in Reporters PROVE ReportOK(u)'
    OBVIOUS
  <2>1. CASE u = t
    BY <1>1, <1>2, <1>3, <2>1, Kinds DEF ReportOK
  <2>2. CASE u # t
    BY <1>1, <1>2, <1>4, <2>2 DEF ReportOK
  <2> QED
    BY <2>1, <2>2
<1> QED
  BY <1>1, <1>5, <1>6, <1>7, <1>8

LEMMA StatusOfBuild ==
    ASSUME SettingsInv, ShownInv, StatusInv, NEW t \in Reporters, StatusBuild(t)
    PROVE  StatusInv'
<1> USE DEF StatusInv, status
<1>1. UNCHANGED <<dev, cache, flag, thr, req, before, shown, shownEnh, torn, setup, crossed>>
  BY DEF StatusBuild, ReportKeeps
<1>2. /\ report[t].at = "build" /\ report'[t].at = "publish"
      /\ report'[t].unsure = report[t].unsure \cap (Lists \cup torn)
      /\ report'[t].of = [f \in Filters |-> FilterState(f, report[t].unsure)]
      /\ report'[t].enh = [on |-> flag, val |-> thr]
      /\ \A u \in Reporters \ {t} : report'[u] = report[u]
  BY DEF StatusBuild, ShownInv, Message
<1>3. \A f \in Props \ (crossed \cup (report[t].unsure \cap (Lists \cup torn))) :
        cache[f] = dev[f]
  BY <1>2 DEF ReportOK, MembersInv
<1>4. \A f \in Filters \ (crossed \cup (report[t].unsure \cap (Lists \cup torn))) :
        FilterState(f, report[t].unsure) = dev[f]
  BY <1>3, Kinds DEF FilterState
<1>5. ReportingInv'
  BY <1>1, <1>2 DEF ReportingInv, Reporters
<1>6. MembersInv'
  BY <1>1 DEF MembersInv
<1>7. ShownRight'
  BY <1>1 DEF ShownRight, InFlight, Settled
<1>8. \A u \in Reporters : ReportOK(u)'
  <2> SUFFICES ASSUME NEW u \in Reporters PROVE ReportOK(u)'
    OBVIOUS
  <2>1. CASE u = t
    BY <1>1, <1>2, <1>3, <1>4, <2>1 DEF ReportOK
  <2>2. CASE u # t
    BY <1>1, <1>2, <2>2 DEF ReportOK
  <2> QED
    BY <2>1, <2>2
<1> QED
  BY <1>1, <1>5, <1>6, <1>7, <1>8

\* What a published report leaves known.
LEMMA Published ==
    ASSUME SettingsInv, ShownInv, StatusInv, NEW t \in Reporters, StatusPublish(t),
           UNCHANGED <<dev, cache, flag, thr, crossed>>
    PROVE  /\ MembersInv' /\ crossed' \subseteq torn'
           /\ \A f \in Filters \ torn' : shown'[f] = dev'[f]
           /\ "enhanced" \notin torn' => shownEnh' = [on |-> flag', val |-> thr']
           /\ report'[t] = NoReport
           /\ \A u \in Reporters \ {t} : report'[u] = report[u]
<1> USE DEF StatusInv
<1>1. /\ shown' = report[t].of /\ shownEnh' = report[t].enh
      /\ torn' = report[t].unsure \cup crossed /\ report[t].at = "publish"
      /\ report' = [report EXCEPT ![t] = NoReport]
  BY DEF StatusPublish
<1>2. MembersInv'
  BY <1>1 DEF MembersInv, ReportOK
<1>3. /\ \A f \in Filters \ torn' : shown'[f] = dev'[f]
      /\ "enhanced" \notin torn' => shownEnh' = [on |-> flag', val |-> thr']
  BY <1>1 DEF ReportOK
<1> QED
  BY <1>1, <1>2, <1>3 DEF ShownInv

LEMMA StatusStep ==
    ASSUME SettingsInv, ShownInv, EnhTypeInv, ReqTypeInv, ReqInv, StatusInv, [Next]_vars
    PROVE  StatusInv'
<1> USE DEF state, status, filter, request, reports
<1>1. CASE SetupFilters
  <2>1. /\ setup = "config" /\ setup' = "serving"
        /\ UNCHANGED <<cache, flag, thr, shown, shownEnh, crossed, torn, req, report>>
    BY <1>1 DEF SetupFilters, SetupKeeps
  <2>2. Filters \subseteq torn'
    BY <2>1 DEF StatusInv
  <2>3. \A t \in Reporters : report[t].at = "read"
    BY <2>1 DEF StatusInv, ReportingInv, ReqInv, Idle, Reporters
  <2> QED
    BY <2>1, <2>2, <2>3, Kinds DEF StatusInv, ReportingInv, MembersInv, ShownRight, ReportOK
<1>2. CASE SetupProfiles
  BY <1>2, StatusKept DEF SetupProfiles, SetupKeeps
<1>3. CASE SetupEnsure
  <2>1. setup = "profiles" /\ setup' \in {"ensured", "failed"}
    BY <1>3 DEF SetupEnsure
  <2>2. UNCHANGED <<dev, cache, flag, thr, req, before, status, torn, reports>>
    BY <1>3 DEF SetupEnsure, SetupKeeps
  <2> QED
    BY <2>1, <2>2, StatusKept
<1>4. CASE SetupReports
  <2>1. CASE SetupPublishers
    <3>1. /\ setup = "ensured" /\ setup' = "status" /\ crossed' = Underway /\ crossed = {}
          /\ UNCHANGED <<dev, cache, flag, thr, shown, shownEnh, torn, req, report>>
      BY <2>1 DEF SetupPublishers, SetupKeeps, StatusInv, ReportingInv
    <3>2. req.pc \in {"ensure", "apply", "store"} => "enhanced" \in Underway
      BY DEF Underway, ReqInv
    <3>3. \A t \in Reporters : ReportOK(t)'
      BY <3>1 DEF StatusInv, ReportOK
    <3> QED
      BY <3>1, <3>2, <3>3 DEF StatusInv, ReportingInv, MembersInv, ShownRight
  <2>2. CASE SetupRead
    <3>1. /\ setup = "status" /\ StatusRead("setup") /\ UNCHANGED <<crossed, setup>>
          /\ UNCHANGED <<dev, cache, flag, thr, req, before, status, torn>>
      BY <2>2 DEF SetupRead, ReportKeeps
    <3>2. "setup" \in Reporters /\ "setup" # "executor"
      BY DEF Reporters
    <3> HIDE DEF status
    <3> QED
      BY <3>1, <3>2, StatusOfRead
  <2>3. CASE SetupUp
    <3>1. /\ setup = "status" /\ setup' = "up" /\ StatusPublish("setup")
          /\ UNCHANGED <<dev, cache, flag, thr, crossed, req, before>>
      BY <2>3 DEF SetupUp, ReportKeeps
    <3>2. /\ MembersInv' /\ crossed' \subseteq torn'
          /\ \A f \in Filters \ torn' : shown'[f] = dev'[f]
          /\ "enhanced" \notin torn' => shownEnh' = [on |-> flag', val |-> thr']
          /\ report'["setup"] = NoReport
          /\ report'["executor"] = report["executor"]
      BY <3>1, Published DEF Reporters
    <3>3. "enhanced" \notin torn' => Settled' = thr'
      BY <3>1, <3>2 DEF Settled, StatusInv, ReportingInv
    <3>4. ReportingInv' /\ ShownRight'
      BY <3>1, <3>2, <3>3 DEF StatusInv, ReportingInv, ShownRight, NoReport
    <3>5. \A t \in Reporters : ReportOK(t)'
      BY <3>1, <3>2 DEF StatusInv, Reporters, ReportOK, NoReport
    <3> QED
      BY <3>1, <3>2, <3>4, <3>5 DEF StatusInv
  <2>4. CASE SetupThrows
    <3>1. /\ setup = "status" /\ setup' = "failed"
          /\ UNCHANGED <<dev, cache, flag, thr, crossed, req, before, shown, shownEnh, torn>>
          /\ report'["setup"] = NoReport /\ report'["executor"] = report["executor"]
      BY <2>4 DEF SetupThrows, ReportKeeps, ShownInv, Reporters
    <3>2. \A t \in Reporters : ReportOK(t)'
      BY <3>1 DEF StatusInv, Reporters, ReportOK, NoReport
    <3> QED
      BY <3>1, <3>2 DEF StatusInv, ReportingInv, MembersInv, ShownRight, NoReport
  <2> QED
    BY <1>4, <2>1, <2>2, <2>3, <2>4 DEF SetupReports
<1>5. ASSUME NEW r \in Requests, ServeRefuse(r) PROVE StatusInv'
  <2>1. /\ req.pc = "idle" /\ Begin(r, "idle", "rejected")
        /\ UNCHANGED <<dev, cache, flag, thr, status, torn>>
    BY <1>5 DEF ServeRefuse, Accepting, Idle, Refuse
  <2>2. req'.pc = "idle" /\ UNCHANGED <<crossed, report, setup>>
    BY <2>1, BeginFacts
  <2> QED
    BY <2>1, <2>2, StatusOfEnhanced DEF InFlight, Settled
<1>6. ASSUME NEW r \in Requests, ServeFilter(r) PROVE StatusInv'
  BY <1>6, StatusOfFilter
<1>7. ASSUME NEW r \in Requests, ServeEnhanced(r) PROVE StatusInv'
  <2>1. req.pc = "idle" /\ r.f = "enhanced" /\ UNCHANGED <<dev, cache, flag, status, torn>>
    BY <1>7 DEF ServeEnhanced, Accepting, Idle, EnhancedBegin, EnhancedRefuse, Keeps
  <2>2. CASE EnhancedRefuse(r)
    <3>1. req'.pc = "idle" /\ UNCHANGED <<crossed, report, setup, thr>>
      BY <2>2, BeginFacts DEF EnhancedRefuse
    <3> QED
      BY <2>1, <3>1, StatusOfEnhanced DEF InFlight, Settled
  <2>3. CASE EnhancedBegin(r)
    <3>1. PICK pc \in {"ensure", "apply", "store"} : Begin(r, pc, "none")
      BY <2>3 DEF EnhancedBegin
    <3>2. /\ req'.pc = pc /\ req'.f = "enhanced" /\ UNCHANGED <<report, setup>>
          /\ crossed' = crossed \cup {f \in {"enhanced"} : setup = "status"}
          /\ pc \in {"ensure", "apply"} => before' = [dev |-> dev, flag |-> flag, thr |-> thr]
      BY <2>1, <3>1, BeginFacts
    <3>3. pc # "store" => Settled' = Settled
      BY <2>1, <3>2 DEF Settled
    <3>4. InFlight = {} /\ (pc = "store" => "enhanced" \in InFlight')
      BY <2>1, <3>2 DEF InFlight
    <3>5. crossed' = crossed \/ (setup = "status" /\ crossed' = crossed \cup {"enhanced"})
      BY <3>2
    <3> QED
      BY <2>1, <3>2, <3>3, <3>4, <3>5, StatusOfEnhanced
  <2> QED
    BY <1>7, <2>2, <2>3 DEF ServeEnhanced
<1>8. CASE EnhancedEnsure
  <2>1. /\ req.pc = "ensure" /\ req.f = "enhanced" /\ InFlight = {} /\ Settled = before.thr
        /\ setup = "status" => "enhanced" \in crossed
    BY <1>8 DEF EnhancedEnsure, ReqInv, InFlight, Settled, StatusInv, ReportingInv
  <2>2. UNCHANGED <<dev, cache, flag, status, torn>>
    BY <1>8 DEF EnhancedEnsure, Keeps
  <2>3. \/ Step("store", "none")
        \/ Step("idle", "rejected") /\ thr' = before.thr
    BY <1>8, Zenon DEF EnhancedEnsure
  <2>4. CASE Step("store", "none")
    BY <2>1, <2>2, <2>4, StepFacts, StatusOfEnhanced DEF InFlight
  <2>5. CASE Step("idle", "rejected") /\ thr' = before.thr
    BY <2>1, <2>2, <2>5, StepFacts, StatusOfEnhanced DEF Settled
  <2> QED
    BY <2>3, <2>4, <2>5
<1>9. CASE EnhancedApply
  <2>1. /\ req.pc = "apply" /\ req.f = "enhanced" /\ InFlight = {} /\ Settled = before.thr
        /\ setup = "status" => "enhanced" \in crossed
    BY <1>9 DEF EnhancedApply, ReqInv, InFlight, Settled, StatusInv, ReportingInv
  <2>2. UNCHANGED <<dev, cache, flag, status, torn>>
    BY <1>9 DEF EnhancedApply, Keeps
  <2>3. \/ Step("store", "none")
        \/ Step("idle", "rejected") /\ thr' = before.thr
    BY <1>9, Zenon DEF EnhancedApply
  <2>4. CASE Step("store", "none")
    BY <2>1, <2>2, <2>4, StepFacts, StatusOfEnhanced DEF InFlight
  <2>5. CASE Step("idle", "rejected") /\ thr' = before.thr
    BY <2>1, <2>2, <2>5, StepFacts, StatusOfEnhanced DEF Settled
  <2> QED
    BY <2>3, <2>4, <2>5
<1>10. CASE EnhancedStore
  <2>1. /\ req.pc = "store" /\ req.f = "enhanced"
        /\ setup = "status" => "enhanced" \in crossed
    BY <1>10 DEF EnhancedStore, ReqInv, StatusInv, ReportingInv
  <2>2. Step("publish", "none") /\ UNCHANGED <<dev, cache, thr, status, torn>>
    BY <1>10 DEF EnhancedStore, Keeps
  <2> QED
    BY <2>1, <2>2, StepFacts, StatusOfEnhanced DEF InFlight
<1>11. CASE Publishing
  <2>1. /\ UNCHANGED <<dev, flag, thr, setup>> /\ req.pc = "publish"
        /\ Settled = thr /\ InFlight = {req.f}
    BY <1>11, PublishingMoves DEF Settled, InFlight
  <2>2. CASE PublishNothing
    <3>1. /\ UNCHANGED <<cache, shown, shownEnh, torn, report, crossed>>
          /\ setup \notin {"status", "up"} /\ req'.pc = "idle"
          /\ report["executor"].at = "read"
      BY <2>2, StepFacts DEF PublishNothing, HasPublisher
    <3>2. \A t \in Reporters : ReportOK(t)'
      BY <2>1, <3>1 DEF StatusInv, ReportOK
    <3> QED
      BY <2>1, <3>1, <3>2 DEF StatusInv, ReportingInv, MembersInv, ShownRight
  <2>3. CASE PublishRead
    <3>1. /\ StatusRead("executor")
          /\ \/ crossed' = crossed
             \/ crossed' = {} /\ setup = "up"
          /\ UNCHANGED <<dev, cache, flag, thr, req, before, status, torn, setup>>
      BY <2>3 DEF PublishRead, ReportKeeps
    <3>2. "executor" \in Reporters /\ "setup" # "executor"
      BY DEF Reporters
    <3> HIDE DEF status
    <3> QED
      BY <2>1, <3>1, <3>2, StatusOfRead
  <2>4. CASE Publish
    <3>1. /\ StatusPublish("executor") /\ UNCHANGED <<cache, crossed>>
          /\ req'.pc = "idle"
      BY <2>4, AskedFacts DEF Publish
    <3>2. /\ MembersInv' /\ crossed' \subseteq torn'
          /\ \A f \in Filters \ torn' : shown'[f] = dev'[f]
          /\ "enhanced" \notin torn' => shownEnh' = [on |-> flag', val |-> thr']
          /\ report'["executor"] = NoReport
          /\ report'["setup"] = report["setup"]
      BY <2>1, <3>1, Published DEF Reporters
    <3>3. Settled' = thr' /\ setup # "config"
      BY <2>1, <3>1 DEF Settled, ReqInv, Idle
    <3>4. ReportingInv' /\ ShownRight'
      BY <2>1, <3>1, <3>2, <3>3 DEF StatusInv, ReportingInv, ShownRight, NoReport
    <3>5. \A t \in Reporters : ReportOK(t)'
      BY <2>1, <3>1, <3>2 DEF StatusInv, Reporters, ReportOK, NoReport
    <3> QED
      BY <2>1, <3>2, <3>3, <3>4, <3>5 DEF StatusInv
  <2>5. CASE PublishThrows
    <3>1. /\ torn' = torn \cup {req.f} /\ UNCHANGED <<cache, shown, shownEnh, crossed>>
          /\ req'.pc = "idle"
          /\ report'["executor"] = NoReport /\ report'["setup"] = report["setup"]
      BY <2>5, AskedFacts DEF PublishThrows, ShownInv, Reporters
    <3>2. \A t \in Reporters : ReportOK(t)'
      BY <2>1, <3>1 DEF StatusInv, Reporters, ReportOK, NoReport
    <3>3. Settled' = thr /\ setup # "config" /\ InFlight' = {}
      BY <2>1, <3>1 DEF Settled, ReqInv, Idle, InFlight
    <3>4. ShownRight'
      BY <2>1, <3>1, <3>3 DEF StatusInv, ShownRight
    <3>5. ReportingInv' /\ MembersInv'
      BY <2>1, <3>1 DEF StatusInv, ReportingInv, MembersInv, NoReport
    <3> QED
      BY <2>1, <3>2, <3>3, <3>4, <3>5 DEF StatusInv
  <2> QED
    BY <1>11, <2>2, <2>3, <2>4, <2>5 DEF Publishing
<1>12. CASE Realign
  BY <1>12, StatusKept DEF Realign
<1>13. CASE Frame
  BY <1>13, StatusKept DEF Frame, FrameEnter, FrameEnsure, FramePick, FrameProcess,
     FrameKeeps
<1>14. CASE UNCHANGED vars
  BY <1>14, StatusKept DEF vars
<1>15. CASE Report
  BY <1>15, StatusOfStore, StatusOfBuild DEF Report
<1> QED
  BY <1>1, <1>2, <1>3, <1>4, <1>5, <1>6, <1>7, <1>8, <1>9, <1>10, <1>11, <1>12, <1>13,
     <1>14, <1>15, Steps

-----------------------------------------------------------------------------
(* The inductive invariant and the theorems *)

Types == /\ SettingsInv /\ ShownInv /\ EnhTypeInv /\ ReqTypeInv
         /\ FlagsInv /\ PlacesInv /\ CountsInv
IInv  == Types /\ ReqInv /\ AnswerInv /\ EnhancedInv /\ FrameInv /\ StatusInv

LEMMA InitInv == Init => IInv
<1> SUFFICES ASSUME Init PROVE IInv
  OBVIOUS
<1>0. \A f \in Filters : (f \in DeviceOn) \in BOOLEAN /\ (f \in LaunchOn) \in BOOLEAN
  OBVIOUS
<1> USE DEF Init
<1>1. SettingsInv
  BY <1>0 DEF SettingsInv, Setting
<1>2. ShownInv
  BY OffTyped DEF ShownInv, Threshold
<1>3. EnhTypeInv
  BY DEF EnhTypeInv, Threshold, Reading
<1>4. ReqTypeInv
  BY <1>1, <1>3 DEF ReqTypeInv, NoRequest, Served, Found, PCs, Answers, SettingsInv,
     EnhTypeInv
<1>5. FlagsInv
  BY Zenon DEF FlagsInv
<1>6. PlacesInv /\ CountsInv
  BY ValuesAssumption DEF PlacesInv, CountsInv
<1>7. ReqInv /\ AnswerInv
  BY DEF ReqInv, RejectedHarmless, AnswerInv, Idle, NoRequest
<1>8. EnhancedInv /\ FrameInv
  BY DEF EnhancedInv, FrameInv, NoRequest
<1>9. StatusInv
  BY Kinds DEF StatusInv, ReportingInv, MembersInv, ShownRight, ReportOK, NoReport, NoRequest,
     Reporters
<1> QED
  BY <1>1, <1>2, <1>3, <1>4, <1>5, <1>6, <1>7, <1>8, <1>9 DEF IInv, Types

LEMMA StepInv ==
    ASSUME IInv, [Next]_vars
    PROVE  IInv'
<1>1. SettingsInv' /\ ShownInv' /\ EnhTypeInv'
  BY SettingsStep, ShownStep, EnhTypeStep DEF IInv, Types
<1>2. ReqTypeInv' /\ FlagsInv' /\ PlacesInv' /\ CountsInv'
  BY <1>1, ReqTypeStep, FlagsStep, PlacesStep, CountsStep DEF IInv, Types
<1>3. ReqInv' /\ AnswerInv'
  BY ReqStep, AnswerStep DEF IInv, Types
<1>4. EnhancedInv' /\ FrameInv' /\ StatusInv'
  BY EnhancedStep, FrameStep, StatusStep DEF IInv, Types
<1> QED
  BY <1>1, <1>2, <1>3, <1>4 DEF IInv, Types

\* What the proofs below start from: the inductive invariant always holds.
LEMMA Always == Spec => []IInv
BY InitInv, StepInv, PTL DEF Spec

\* The variables keep their types.
THEOREM TypeCorrect == Spec => []TypeOK
<1>1. IInv => TypeOK
  <2> SUFFICES ASSUME IInv PROVE TypeOK
    OBVIOUS
  <2>1. req.pc \in PCs /\ req.answer \in Answers
    BY DEF IInv, Types, ReqTypeInv, Served
  <2> QED
    BY <2>1 DEF IInv, Types, TypeOK, SettingsInv, ShownInv, EnhTypeInv, FlagsInv,
       PlacesInv, CountsInv, PCs, Answers, Threshold, Reading, Message
<1> QED
  BY <1>1, Always, PTL

\* depth_filters/status tells the truth, but for what failed half-way.
THEOREM StatusCorrect == Spec => []StatusHonest
<1>1. IInv => StatusHonest
  <2> SUFFICES ASSUME IInv, Idle, setup = "up" PROVE
        /\ \A f \in Filters \ torn : shown[f] = dev[f]
        /\ "enhanced" \notin torn => shownEnh = [on |-> flag, val |-> thr]
    BY DEF StatusHonest
  <2>1. InFlight = {} /\ Settled = thr
    BY DEF Idle, InFlight, Settled
  <2> QED
    BY <2>1 DEF IInv, StatusInv, ShownRight
<1> QED
  BY <1>1, Always, PTL

\* A request that is answered with success has done what it asks for.
THEOREM AnswerCorrect == Spec => []AnswerKept
<1>1. IInv => AnswerKept
  BY DEF IInv, AnswerInv, Done, AnswerKept
<1> QED
  BY <1>1, Always, PTL

\* A request that is rejected leaves everything as it found it.
THEOREM RejectedCorrect == Spec => []RejectedHarmless
<1>1. IInv => RejectedHarmless
  BY DEF IInv, ReqInv
<1> QED
  BY <1>1, Always, PTL

\* An enabled enhanced filter is there and takes the node's threshold.
THEOREM EnabledCorrect == Spec => []EnabledWorks
<1>1. IInv => EnabledWorks
  BY DEF IInv, EnhancedInv, EnabledWorks, Idle, Settled
<1> QED
  BY <1>1, Always, PTL

\* A frame alone is filtered with the threshold that the node reports.
THEOREM FrameCorrect == Spec => []FrameFollowsThreshold
<1>1. IInv => FrameFollowsThreshold
  BY DEF IInv, FrameInv, FrameFollowsThreshold
<1> QED
  BY <1>1, Always, PTL

\* The threshold of a failed request stays in the filter only if another
\* thread applied it in between.
THEOREM LeftoverCorrect == Spec => []NoLeftover
<1>1. IInv => NoLeftover
  BY DEF IInv, EnhancedInv, NoLeftover, Idle, Settled
<1> QED
  BY <1>1, Always, PTL
=============================================================================
