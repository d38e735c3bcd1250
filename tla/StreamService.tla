--------------------------- MODULE StreamService ---------------------------
(***************************************************************************)
(* What the clients of an OBCameraNode may rely on when they start, stop   *)
(* and change its streams: a request takes effect at one instant, when it  *)
(* is answered, and one that fails gives up streaming at the most.         *)
(* StreamControl is shown to implement this specification.                 *)
(***************************************************************************)
CONSTANTS Modes, Togglable

VARIABLES
    request,     \* the request being served
    streaming,   \* what get_streams_enable answers
    mode,        \* the image registration mode
    enabled,     \* the streams that are switched on
    interleave   \* interleaved exposures are wanted

streams == <<streaming, mode, enabled, interleave>>
vars    == <<request, streams>>

None     == [kind |-> "none", arg |-> "none"]
Requests == [kind : {"start", "stop", "profile"}, arg : {"none"}] \cup
            [kind : {"register"}, arg : Modes] \cup
            [kind : {"toggle"}, arg : Togglable]

Init ==
    /\ request = None /\ streaming = TRUE /\ interleave = TRUE
    /\ mode \in Modes /\ enabled \in SUBSET {"color", "depth", "ir"}

Ask == request = None /\ request' \in Requests /\ UNCHANGED streams

\* a start that fails once gives the infrared stream up
WithoutIr(E) == {E, E \ {"ir"}}

\* set_streams_enable(true), alone of the requests, is served without a lock:
\* others see it happen
Start ==
    /\ request.kind = "start" /\ UNCHANGED <<request, mode, interleave>>
    /\ \/ streaming' = TRUE /\ UNCHANGED enabled
       \/ enabled' \in WithoutIr(enabled) /\ UNCHANGED streaming

\* by clean(); stopping ends the interleaving
Shutdown ==
    /\ streaming' = FALSE \/ UNCHANGED streaming
    /\ interleave' \in {interleave, FALSE}
    /\ UNCHANGED <<request, mode, enabled>>

Answered(kind) == request.kind = kind /\ request' = None

StartAnswered == Answered("start") /\ UNCHANGED streams

\* a stop without a pipeline, which a failed start can leave, does nothing
StopAnswered ==
    /\ Answered("stop")
    /\ streaming' = FALSE \/ UNCHANGED <<streaming, interleave>>
    /\ interleave' \in {interleave, FALSE} /\ UNCHANGED <<mode, enabled>>

\* running streams are stopped and started again, which may fail; streams that
\* are stopped stay so
Restart ==
    /\ streaming' \in {streaming, FALSE}
    /\ enabled' \in IF streaming THEN WithoutIr(enabled) ELSE {enabled}

\* restarting by the registration service loses the interleaving
RegisterAnswered ==
    /\ Answered("register") /\ Restart
    /\ interleave' \in {interleave, interleave /\ ~streaming}
    /\ \/ /\ mode' = request.arg /\ streaming' = streaming
          /\ request.arg # "off" => {"color", "depth"} \subseteq enabled
       \/ UNCHANGED mode

ProfileAnswered ==
    Answered("profile") /\ Restart /\ UNCHANGED <<mode, interleave>>

\* toggling a stream starts streams that were stopped
ToggleAnswered ==
    LET s == request.arg IN
    /\ Answered("toggle") /\ UNCHANGED <<mode, interleave>>
    /\ \/ UNCHANGED <<streaming, enabled>>
       \/ /\ enabled' \in WithoutIr((enabled \ {s}) \cup ({s} \ enabled))
          /\ streaming' \in {streaming, TRUE}

Next ==
    \/ Ask \/ Start \/ Shutdown \/ StartAnswered \/ StopAnswered
    \/ RegisterAnswered \/ ProfileAnswered \/ ToggleAnswered

Spec == Init /\ [][Next]_vars
=============================================================================
