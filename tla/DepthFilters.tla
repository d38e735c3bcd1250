---------------------------- MODULE DepthFilters ----------------------------
(***************************************************************************)
(* The depth filters of a camera node and their set_filter service         *)
(* (orbbec_camera/src/ob_camera_node.cpp). Three threads meet here: the    *)
(* driver's connecting thread sets the filters up, the executor serves one *)
(* set_filter request at a time and publishes depth_filters/status, and    *)
(* the SDK's frame thread takes each frameset through the enhanced depth   *)
(* filter while it is enabled.                                             *)
(*                                                                         *)
(* A filter is one of each way the code treats them: in depth_filter_list_ *)
(* "decimation" (one parameter with a range), "threshold" (every filter    *)
(* whose positional parameters may be too few), "plain" (a switch only)    *)
(* and "hole" (no positional setter); as device properties "noise",        *)
(* "hardware" and "outliers". The device supports all properties of those  *)
(* it has. A request's parameters are "none", a value, "bad" (what a check *)
(* or a setter refuses) or "skip" (positional: too few, or a scale of -1). *)
(***************************************************************************)
EXTENDS Naturals

CONSTANTS
    Filters,      \* the filters of the device, see above
    DeviceOn,     \* those that are on when the device makes them
    LaunchOn,     \* those that the launch file switches on
    Values,       \* parameter values and confidence thresholds
    MaxRequests, MaxFrames, MaxFaults   \* bounds

ListKinds == {"decimation", "threshold", "plain", "hole"}
PropKinds == {"noise", "hardware", "outliers"}

ASSUME FiltersAssumption ==
    /\ Filters \subseteq ListKinds \cup PropKinds
    /\ DeviceOn \subseteq Filters /\ LaunchOn \subseteq Filters
ASSUME ValuesAssumption ==
    /\ Values \cap {"none", "bad", "skip", "initial", "absent", "unset", "null"} = {}
    /\ {MaxRequests, MaxFrames, MaxFaults} \subseteq Nat

VARIABLES
    setup,      \* the connecting thread: "config", "serving", "profiles",
                \* "ensured", "status", "up" or "failed"
    dev,        \* of a filter: what the filter object or the device holds
    cache,      \* the node's members for it
    shown,      \* what depth_filters/status said last
    flag,       \* enable_enhanced_depth_
    thr,        \* enhanced_depth_confidence_threshold_, "unset" below 0
    enhanced,   \* the threshold in enhanced_depth_filter_, "null" without one
    confidence, \* confidence_image_publisher_ exists
    shownEnh,   \* flag and threshold in depth_filters/status
    report,     \* the status that a thread is about to publish
    aligned,    \* the streams are aligned as the enhanced filter asks
    req,        \* the request being served, or the last one; what it asked for
                \* as long as its answer stands for that
    before,     \* what the request found, previous_threshold among it, as long
                \* as that may be asked for
    frame,      \* the frame thread: "idle", "ensure", "pick", "process"
    alone,      \* no request has run since the frame entered
    torn,       \* filters that the status need not show right
    crossed,    \* those requested while the set-up was reporting
    stray,      \* a threshold of a failed request may be in the filter
    requests, frames, faults

state   == <<dev, cache, flag, thr>>
status  == <<shown, shownEnh>>
filter  == <<enhanced, confidence>>
request == <<req, before, requests>>
reports == <<report, crossed>>
vars == <<setup, state, status, filter, aligned, request, frame, alone, torn,
          reports, stray, frames, faults>>

Reporters == {"setup", "executor"}
Off       == [on |-> FALSE, val |-> "absent"]

Lists == Filters \cap ListKinds
Props == Filters \cap PropKinds
Setting == [on : BOOLEAN, val : Values \cup {"initial", "absent"}]
\* parameters of both forms are refused whatever they are; only the positional
\* form can have too few
Requests ==
    {r \in [f : Filters \cup {"unknown", "enhanced"}, on : BOOLEAN,
            form : {"named", "positional", "both"},
            p : Values \cup {"none", "bad", "skip"}] :
        /\ r.form = "both" => r.p = "bad"
        /\ r.form = "named" => r.p # "skip"
        /\ r.f = "unknown" => r.p = "none"}

\* at: what the thread does next; of: the filters as it has read or built them;
\* unsure: what it could not read
NoReport == [at |-> "read", of |-> [f \in Filters |-> Off], unsure |-> {},
             enh |-> [on |-> FALSE, val |-> "unset"]]

NoRequest == [f |-> "unknown", on |-> FALSE, form |-> "named", p |-> "none",
              pc |-> "idle", answer |-> "none"]

Init ==
    /\ setup = "config" /\ aligned \in BOOLEAN
    /\ dev = [f \in Filters |-> [on |-> f \in DeviceOn, val |-> "initial"]]
    /\ cache = [f \in Filters |-> [on |-> f \in LaunchOn, val |-> "initial"]]
    /\ shown = [f \in Filters |-> Off]
    /\ flag \in BOOLEAN /\ thr \in Values \cup {"unset", "bad"}
    /\ shownEnh = [on |-> FALSE, val |-> "unset"]
    /\ report = [t \in Reporters |-> NoReport] /\ crossed = {}
    /\ enhanced = "null" /\ confidence = FALSE
    /\ req = NoRequest
    /\ before = [dev |-> dev, flag |-> flag, thr |-> thr]
    /\ frame = "idle" /\ alone = FALSE
    /\ torn = Filters \cup {"enhanced"} /\ stray = FALSE
    /\ requests = 0 /\ frames = 0 /\ faults = 0

Idle    == req.pc = "idle"
Fault   == faults < MaxFaults /\ faults' = faults + 1
NoFault == UNCHANGED faults

-----------------------------------------------------------------------------
(* The enhanced depth filter, for whichever thread calls *)

\* validateEnhancedDepthFilterConfig
Valid == aligned /\ setup \in {"profiles", "ensured", "status", "up"}

Created == IF enhanced = "null" THEN "initial" ELSE enhanced
Applied == IF thr \in {"unset", "bad"} THEN Created ELSE thr

\* Mutant: the threshold is set before it is compared with its range.
Ensure_AppliesFirst(ok) ==
    \/ ~Valid /\ ~ok /\ NoFault /\ UNCHANGED filter
    \/ /\ Valid /\ NoFault /\ ok = (thr # "bad")
       /\ enhanced' = (IF thr = "unset" THEN Created ELSE thr)
       /\ confidence' = (confidence \/ ok)

\* ensureEnhancedDepthFilter, under enhanced_depth_filter_mutex_: create the
\* filter unless there is one, set its resolution and its threshold, which
\* throws when it is out of range, and make the confidence publisher unless
\* there is one. Any of these may fail, and leaves what was done before it.
Ensure(ok) ==
    \/ ~Valid /\ ~ok /\ NoFault /\ UNCHANGED filter
    \/ /\ Valid /\ NoFault /\ ok = (thr # "bad")
       /\ enhanced' = Applied /\ confidence' = (confidence \/ ok)
    \/ /\ Valid /\ ~ok /\ Fault /\ UNCHANGED confidence
       /\ \/ enhanced' \in {enhanced, Created}
          \/ ~confidence /\ enhanced' = Applied

\* an enhanced request that may still be refused has set the threshold
Pending == {f \in {req.f} : req.pc \in {"ensure", "apply"}}

\* another thread has applied what a request may still take back, or the
\* threshold that holds
Stray == stray' = IF Pending # {} THEN stray \/ enhanced' # enhanced
                  ELSE stray /\ enhanced' # thr

-----------------------------------------------------------------------------
(* publishDepthFiltersStatus, for whichever thread calls: it takes no lock for *)
(* what it reads, and two threads may be in it                                 *)

Misread(M) == IF M = {} THEN NoFault ELSE Fault
Misreads   == {{}} \cup {{f} : f \in Filters}

ReportKeeps == UNCHANGED <<dev, flag, thr, filter, aligned, frame, alone, stray,
                           frames, before, requests>>

\* what the filters and the device hold is read
StatusRead(t) ==
    /\ report[t].at = "read"
    /\ \E M \in Misreads :
         /\ Misread(M)
         /\ report' = [report EXCEPT ![t].at = "store", ![t].of = dev,
                                     ![t].unsure = M]

\* Mutant: the members are shown as they are.
StatusStore_Skipped(t) ==
    /\ report[t].at = "store" /\ report' = [report EXCEPT ![t].at = "build"]
    /\ ReportKeeps /\ NoFault /\ UNCHANGED <<cache, setup, req, status, torn, crossed>>

\* and stored in the members; one that could not be read is kept
StatusStore(t) ==
    /\ report[t].at = "store"
    /\ report' = [report EXCEPT ![t].at = "build", ![t].of = NoReport.of]
    /\ cache' = [f \in Filters |->
                   IF f \in report[t].unsure THEN cache[f] ELSE report[t].of[f]]
    /\ ReportKeeps /\ NoFault /\ UNCHANGED <<setup, req, status, torn, crossed>>

\* what the status says of a property, which is the member, and of a filter of
\* the list, which is read once more and counts as off when it cannot be
FilterState(f, unsure) ==
    IF f \in Props THEN cache[f] ELSE IF f \in unsure THEN Off ELSE dev[f]

\* the message is built from the members; one that could not be read is still
\* known to be right if nothing has happened to it since it was
StatusBuild(t) ==
    /\ report[t].at = "build"
    /\ report' = [report EXCEPT
                    ![t].at = "publish",
                    ![t].of = [f \in Filters |-> FilterState(f, report[t].unsure)],
                    ![t].unsure = @ \cap (Lists \cup torn),
                    ![t].enh = [on |-> flag, val |-> thr]]
    /\ ReportKeeps /\ NoFault
    /\ UNCHANGED <<cache, setup, req, status, torn, crossed>>

\* and published
StatusPublish(t) ==
    /\ report[t].at = "publish" /\ report' = [report EXCEPT ![t] = NoReport]
    /\ shown' = report[t].of /\ shownEnh' = report[t].enh
    /\ torn' = report[t].unsure \cup crossed

-----------------------------------------------------------------------------
(* The connecting thread: setupTopics *)

SetupKeeps == UNCHANGED <<aligned, request, frame, alone, frames, report>>

\* setupDepthPostProcessFilter configures what the launch file names and
\* offers the service, before the rest of the node is set up
SetupFilters ==
    /\ setup = "config" /\ setup' = "serving"
    /\ dev' = [f \in Filters |-> [dev[f] EXCEPT !.on = @ \/ f \in LaunchOn]]
    /\ SetupKeeps /\ NoFault
    /\ UNCHANGED <<cache, flag, thr, status, filter, crossed, torn, stray>>

\* setupProfiles
SetupProfiles ==
    /\ setup = "serving" /\ setup' = "profiles"
    /\ SetupKeeps /\ NoFault /\ UNCHANGED <<state, status, filter, crossed, torn, stray>>

\* Mutant: the filter is left to the first frame.
SetupEnsure_Lazy ==
    /\ setup = "profiles" /\ setup' = "ensured" /\ NoFault
    /\ SetupKeeps /\ UNCHANGED <<state, status, filter, crossed, torn, stray>>

\* a filter that is enabled and cannot be made fails the set-up
SetupEnsure ==
    /\ setup = "profiles"
    /\ \/ ~flag /\ setup' = "ensured" /\ NoFault /\ UNCHANGED <<filter, stray>>
       \/ \E ok \in BOOLEAN :
            /\ flag /\ Ensure(ok) /\ setup' = (IF ok THEN "ensured" ELSE "failed")
            /\ Stray
    /\ SetupKeeps /\ UNCHANGED <<state, status, crossed, torn>>

\* an enhanced request that has set something and not yet all of it
Underway == {f \in {req.f} : req.pc \in {"ensure", "apply", "store"}}

\* setupPublishers: from here on the executor publishes as well, and it may be
\* in the middle of a request
SetupPublishers ==
    /\ setup = "ensured" /\ setup' = "status" /\ crossed' = Underway
    /\ SetupKeeps /\ NoFault /\ UNCHANGED <<state, status, filter, torn, stray>>

\* the first status of the node
SetupRead ==
    /\ setup = "status" /\ StatusRead("setup") /\ ReportKeeps
    /\ UNCHANGED <<cache, setup, req, status, torn, crossed>>

SetupUp ==
    /\ setup = "status" /\ setup' = "up" /\ StatusPublish("setup")
    /\ ReportKeeps /\ NoFault /\ UNCHANGED <<cache, req, crossed>>

SetupThrows ==
    /\ setup = "status" /\ setup' = "failed" /\ Fault
    /\ report' = [report EXCEPT !["setup"] = NoReport]
    /\ ReportKeeps /\ UNCHANGED <<cache, req, status, torn, crossed>>

-----------------------------------------------------------------------------
(* The executor: setFilterCallback *)

ExecKeeps == UNCHANGED <<setup, aligned, frame, frames>>

\* the service is there and free
Accepting == Idle /\ setup \notin {"config", "failed"} /\ requests < MaxRequests

Remember(pc, answer) ==
    before' = IF pc \in {"ensure", "apply"} \/ answer = "rejected"
                THEN [dev |-> dev, flag |-> flag, thr |-> thr]
                ELSE [dev |-> dev', flag |-> flag', thr |-> thr']

Asked(r, pc, answer) ==
    IF answer \in {"none", "ok"}
      THEN [f |-> r.f, on |-> r.on, form |-> r.form, p |-> r.p,
            pc |-> pc, answer |-> answer]
      ELSE [NoRequest EXCEPT !.answer = answer]

\* a request arrives and is answered, or goes on at pc
Begin(r, pc, answer) ==
    /\ requests' = requests + 1
    /\ req' = Asked(r, pc, answer)
    /\ crossed' = crossed \cup {f \in {r.f} : setup = "status" /\ answer # "rejected"}
    /\ Remember(pc, answer) /\ alone' = FALSE /\ ExecKeeps /\ UNCHANGED report

\* a request that has begun goes on or is answered
Step(pc, answer) ==
    /\ req' = Asked(req, pc, answer)
    /\ IF answer = "rejected" THEN UNCHANGED before ELSE Remember(pc, answer)
    /\ alone' = FALSE /\ UNCHANGED <<requests, reports>> /\ ExecKeeps

\* what a check refuses before anything is set: the parameters of both forms or
\* of the wrong one,
BadForm(r) ==
    \/ r.form = "both"
    \/ r.form = "positional" /\ r.p # "none" /\ r.f = "outliers"
\* a filter that there is not, or one that has no setter for the form,
NoFilter(r) == r.f = "unknown"
NoSetter(r) == r.form = "positional" /\ r.p # "none" /\ r.f = "hole"
\* a parameter that does not parse, is unknown, twice there or out of range
BadParameter(r) == r.form = "named" /\ r.f \in Filters /\ r.p = "bad"
BadThreshold(r) == r.f = "enhanced" /\ r.p = "skip"

Refused(r) ==
    BadForm(r) \/ NoFilter(r) \/ NoSetter(r) \/ BadParameter(r) \/ BadThreshold(r)

Refuse(r) ==
    /\ Refused(r) /\ NoFault
    /\ UNCHANGED <<state, status, filter, torn, stray>>
    /\ Begin(r, "idle", "rejected")

\* an empty list of positional parameters takes the named path
ByName(r) == r.f \in Filters /\ ~Refused(r) /\ (r.form = "named" \/ r.p = "none")
ByPosition(r) == r.f \in Filters /\ ~Refused(r) /\ ~ByName(r)

Set(settings, r, taken) ==
    [settings EXCEPT ![r.f] = [on |-> r.on, val |-> IF taken THEN r.p ELSE @.val]]

FilterKeeps == UNCHANGED <<flag, thr, status, filter, stray>>

\* Mutant: the filter is switched before its parameters are checked.
ApplyNamed_SwitchesFirst(r) ==
    /\ r.f \in Filters /\ r.form = "named" /\ NoFault
    /\ dev' = Set(dev, r, r.p \in Values) /\ UNCHANGED <<cache, torn>>
    /\ FilterKeeps
    /\ IF r.p = "bad" THEN Begin(r, "idle", "rejected")
                      ELSE Begin(r, "publish", "none")

\* applyNamedDepthFilterConfig for a property, which also remembers the
\* parameter, and for a filter of the list, under depth_filter_mutex_
ApplyNamed(r) ==
    /\ ByName(r) /\ NoFault /\ UNCHANGED torn /\ FilterKeeps
    /\ dev' = Set(dev, r, r.p \in Values)
    /\ cache' = Set(cache, r, r.p \in Values /\ r.f \in Props)
    /\ Begin(r, "publish", "none")

\* when the switch or a setter throws, the device keeps what was set before and
\* the status is not published
NamedThrows(r) ==
    /\ ByName(r) /\ Fault /\ UNCHANGED cache /\ FilterKeeps
    /\ dev' \in {dev} \cup {Set(dev, r, FALSE) : v \in {r.p} \cap Values}
    /\ torn' = torn \cup {r.f} /\ Begin(r, "idle", "failed")

\* a positional parameter that the filter takes: a plain filter has none, the
\* threshold of the hardware filter is only set with the switch on
Taken(r) ==
    /\ r.p \in Values
    /\ r.form = "positional" => r.f # "plain" /\ (r.f = "hardware" => r.on)

\* Mutant: too few parameters are no error.
SetPositional_Lenient(r) ==
    /\ ByPosition(r) /\ NoFault /\ UNCHANGED torn /\ FilterKeeps
    /\ dev' = Set(dev, r, Taken(r)) /\ cache' = Set(cache, r, Taken(r))
    /\ Begin(r, "publish", "none")

\* the positional parameters that are set and remembered
SetPositional(r) ==
    /\ ByPosition(r) /\ NoFault /\ UNCHANGED torn /\ FilterKeeps
    /\ \/ Taken(r)
       \/ r.f = "plain" \/ (r.f = "hardware" /\ ~r.on)
       \/ r.f \in {"noise", "decimation"} /\ r.p = "skip"
    /\ dev' = Set(dev, r, Taken(r)) /\ cache' = Set(cache, r, Taken(r))
    /\ Begin(r, "publish", "none")

\* "The filter switch setting is successful, but the filter parameter setting
\* fails": too few parameters, or a scale out of range
SetSwitchOnly(r) ==
    /\ ByPosition(r) /\ NoFault /\ UNCHANGED cache /\ FilterKeeps
    /\ <<r.f, r.p>> \in {<<"threshold", "skip">>, <<"decimation", "bad">>}
    /\ dev' = Set(dev, r, FALSE) /\ torn' = torn \cup {r.f}
    /\ Begin(r, "idle", "partial")

\* the setter refuses what no check has looked at, or the SDK fails
SetThrows(r) ==
    /\ ByPosition(r) /\ UNCHANGED cache /\ FilterKeeps
    /\ \/ /\ r.f \in {"threshold", "noise", "hardware"} /\ r.p = "bad"
          /\ r.f = "hardware" => r.on
          /\ dev' = Set(dev, r, FALSE) /\ NoFault
       \/ dev' \in {dev} \cup {Set(dev, r, FALSE) : v \in {r.p} \cap Values} /\ Fault
    /\ torn' = torn \cup {r.f} /\ Begin(r, "idle", "failed")

HasPublisher == setup \in {"status", "up"}

\* publishDepthFiltersStatus does nothing before setupPublishers
PublishNothing ==
    /\ req.pc = "publish" /\ report["executor"].at = "read" /\ ~HasPublisher
    /\ UNCHANGED <<state, status, torn, filter, stray>> /\ NoFault
    /\ Step("idle", "ok")

\* nothing is left of the set-up's own report once it has published
PublishRead ==
    /\ req.pc = "publish" /\ HasPublisher /\ StatusRead("executor") /\ ReportKeeps
    /\ crossed' = IF setup = "up" THEN {} ELSE crossed
    /\ UNCHANGED <<cache, setup, req, status, torn>>

Publish ==
    /\ req.pc = "publish" /\ StatusPublish("executor")
    /\ req' = Asked(req, "idle", "ok")
    /\ ReportKeeps /\ NoFault /\ UNCHANGED <<cache, setup, crossed>>

\* it may throw, at any point, after all was done
PublishThrows ==
    /\ req.pc = "publish" /\ HasPublisher /\ Fault
    /\ req' = Asked(req, "idle", "failed")
    /\ report' = [report EXCEPT !["executor"] = NoReport]
    /\ torn' = torn \cup {req.f}
    /\ ReportKeeps /\ UNCHANGED <<cache, setup, status, crossed>>

-----------------------------------------------------------------------------
(* The executor: applyEnhancedDepthFilterConfig *)

Keeps == UNCHANGED <<dev, cache, status, torn>>

\* the checks that need no filter have passed: the threshold is set, for every
\* thread to see
EnhancedBegin(r) ==
    /\ r.f = "enhanced" /\ ~Refused(r) /\ (r.on => Valid)
    /\ thr' = (IF r.p = "none" THEN thr ELSE r.p)
    /\ NoFault /\ UNCHANGED <<flag, filter, stray>> /\ Keeps
    /\ Begin(r, IF r.on THEN "ensure"
                ELSE IF r.p # "none" /\ enhanced # "null" THEN "apply"
                ELSE "store", "none")

EnhancedRefuse(r) ==
    /\ r.f = "enhanced" /\ ~Refused(r) /\ r.on /\ ~Valid
    /\ NoFault /\ UNCHANGED <<flag, thr, filter, stray>> /\ Keeps
    /\ Begin(r, "idle", "rejected")

\* switching on: make the filter, or take the threshold back
EnhancedEnsure ==
    /\ req.pc = "ensure" /\ UNCHANGED flag /\ Keeps
    /\ \/ /\ Ensure(TRUE) /\ stray' = (stray /\ enhanced' # thr)
          /\ UNCHANGED thr /\ Step("store", "none")
       \/ /\ Ensure(FALSE) /\ stray' = (stray \/ enhanced' \notin {enhanced, "initial"})
          /\ thr' = before.thr /\ Step("idle", "rejected")

\* Mutant: a threshold that the filter refuses is not taken back.
EnhancedApply_Keeps ==
    /\ req.pc = "apply" /\ UNCHANGED <<flag, thr, filter, stray>> /\ Keeps
    /\ NoFault /\ Step("idle", "rejected")

\* switching off: set the threshold of the filter without its mutex
EnhancedApply ==
    /\ req.pc = "apply" /\ UNCHANGED <<flag, confidence>> /\ Keeps
    /\ \/ /\ thr # "bad" /\ enhanced' = thr /\ NoFault
          /\ UNCHANGED <<thr, stray>> /\ Step("store", "none")
       \/ /\ thr' = before.thr /\ Step("idle", "rejected")
          /\ IF thr = "bad" THEN NoFault ELSE Fault
          /\ UNCHANGED <<enhanced, stray>>

\* the switch, under the filter's mutex
EnhancedStore ==
    /\ req.pc = "store" /\ flag' = req.on
    /\ NoFault /\ UNCHANGED <<thr, filter, stray>> /\ Keeps
    /\ Step("publish", "none")

\* set_image_registration_mode, another service: it stops the streams first
Realign ==
    /\ Idle /\ setup = "up" /\ frame = "idle" /\ aligned' = ~aligned
    /\ UNCHANGED <<setup, state, status, filter, request, frame, alone, torn,
                   reports, stray, frames, faults>>

-----------------------------------------------------------------------------
(* The frame thread: processEnhancedDepthFilter *)

FrameKeeps == UNCHANGED <<setup, state, status, aligned, request, torn, reports>>
Alone      == alone' = (alone /\ frame' # "idle")

FrameEnter ==
    /\ frame = "idle" /\ setup = "up" /\ flag /\ frame' = "ensure"
    /\ frames < MaxFrames /\ frames' = frames + 1 /\ alone' = Idle
    /\ FrameKeeps /\ NoFault /\ UNCHANGED <<filter, stray>>

\* Mutant: the filter is only looked up, its threshold is left as it is.
FrameEnsure_Skipped ==
    /\ frame = "ensure" /\ frame' = IF Valid THEN "pick" ELSE "idle"
    /\ FrameKeeps /\ NoFault /\ UNCHANGED <<frames, filter, stray>> /\ Alone

\* every frame sets up the filter again; a frame for which that fails is
\* published as it is
FrameEnsure ==
    /\ frame = "ensure"
    /\ \E ok \in BOOLEAN : Ensure(ok) /\ frame' = IF ok THEN "pick" ELSE "idle"
    /\ Stray /\ FrameKeeps /\ UNCHANGED frames /\ Alone

\* a frameset without color or depth is not filtered; the switch is read again
FramePick ==
    /\ frame = "pick" /\ frame' \in {"idle"} \cup {l \in {"process"} : flag}
    /\ FrameKeeps /\ NoFault /\ UNCHANGED <<frames, filter, stray>> /\ Alone

FrameProcess ==
    /\ frame = "process" /\ frame' = "idle"
    /\ FrameKeeps /\ NoFault /\ UNCHANGED <<frames, filter, stray>> /\ Alone

-----------------------------------------------------------------------------
Setup ==
    \/ SetupFilters \/ SetupProfiles \/ SetupEnsure
    \/ SetupPublishers \/ SetupRead \/ SetupUp \/ SetupThrows
Report   == \E t \in Reporters : StatusStore(t) \/ StatusBuild(t)
Publishing == PublishNothing \/ PublishRead \/ Publish \/ PublishThrows
Serve(r) ==
    /\ Accepting
    /\ \/ Refuse(r) \/ ApplyNamed(r) \/ NamedThrows(r)
       \/ SetPositional(r) \/ SetSwitchOnly(r) \/ SetThrows(r)
       \/ EnhancedBegin(r) \/ EnhancedRefuse(r)
Enhanced == EnhancedEnsure \/ EnhancedApply \/ EnhancedStore
Frame    == FrameEnter \/ FrameEnsure \/ FramePick \/ FrameProcess

Next ==
    \/ Setup \/ (\E r \in Requests : Serve(r)) \/ Enhanced
    \/ Report \/ Publishing \/ Realign \/ Frame

Spec == Init /\ [][Next]_vars

-----------------------------------------------------------------------------
(* Properties *)

\* the variables keep their types
TypeOK ==
    /\ setup \in {"config", "serving", "profiles", "ensured", "status", "up", "failed"}
    /\ dev \in [Filters -> Setting] /\ cache \in [Filters -> Setting]
    /\ shown \in [Filters -> Setting]
    /\ flag \in BOOLEAN /\ thr \in Values \cup {"unset", "bad"}
    /\ shownEnh \in [on : BOOLEAN, val : Values \cup {"unset", "bad"}]
    /\ enhanced \in Values \cup {"null", "initial"} /\ confidence \in BOOLEAN
    /\ aligned \in BOOLEAN /\ alone \in BOOLEAN /\ stray \in BOOLEAN
    /\ req.pc \in {"idle", "ensure", "apply", "store", "publish"}
    /\ req.answer \in {"none", "ok", "rejected", "partial", "failed"}
    /\ frame \in {"idle", "ensure", "pick", "process"}
    /\ torn \subseteq Filters \cup {"enhanced"}
    /\ crossed \subseteq Filters \cup {"enhanced"}
    /\ \A t \in Reporters :
         /\ report[t].at \in {"read", "store", "build", "publish"}
         /\ report[t].of \in [Filters -> Setting] /\ report[t].unsure \subseteq Filters
    /\ requests \in 0 .. MaxRequests /\ frames \in 0 .. MaxFrames
    /\ faults \in 0 .. MaxFaults

\* depth_filters/status tells the truth between two requests, but for a filter
\* whose request failed after it had been switched or could not be published,
\* for a filter that could not be read, and for one whose request was served
\* beside the set-up's own report: the two write the same members, and the older
\* message may come last. The next report that reads everything ends all that
StatusHonest ==
    Idle /\ setup = "up" =>
        /\ \A f \in Filters \ torn : shown[f] = dev[f]
        /\ "enhanced" \notin torn => shownEnh = [on |-> flag, val |-> thr]

\* a request that is answered with success has switched its filter and set the
\* parameters that the positional interface does not ignore; the enhanced
\* filter works with the threshold from then on
AnswerKept ==
    req.answer = "ok" =>
        /\ req.f \in Filters =>
             /\ dev[req.f].on = req.on
             /\ req.p \in Values /\ Taken(req) => dev[req.f].val = req.p
             /\ req.p = "bad" => ~req.on \/ req.f = "plain"
        /\ req.f = "enhanced" =>
             /\ flag = req.on
             /\ req.p # "none" => thr = req.p

\* a request that is rejected leaves filters, switch and threshold as it found
\* them, although other threads saw the new threshold meanwhile
RejectedHarmless ==
    req.answer = "rejected" => before = [dev |-> dev, flag |-> flag, thr |-> thr]

\* while the enhanced filter is enabled and no request is being served, there
\* is a filter and it accepts the node's threshold: the frame thread neither
\* creates the filter nor fails for a threshold, and never uses no filter. Only
\* a request that is taken back after the set-up used its threshold can leave
\* the launch file's out of range
EnabledWorks ==
    setup = "up" =>
        /\ flag \/ frame # "idle" => enhanced # "null"
        /\ flag /\ Idle /\ ~stray => thr # "bad"

\* a frame that no request has overlapped is filtered with the threshold that
\* the node reports
FrameFollowsThreshold ==
    frame = "process" /\ alone /\ thr # "unset" => enhanced = thr

\* between requests the filter holds the node's threshold or the one it was
\* made with; that of a failed request can only stay when the frame thread or
\* the connecting thread applied it in between or the confidence publisher
\* could not be made
NoLeftover ==
    Idle /\ ~stray => enhanced \in {"null", "initial", thr}
=============================================================================
