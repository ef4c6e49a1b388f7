------------------------------ MODULE Sensors ------------------------------
(****************************************************************************)
(* The accelerometer HAL (libsensors/sensors.cpp): activate() and poll()    *)
(* are called by threads of their own and share the input device, which a   *)
(* use count opens and closes. Nothing guards the count.                    *)
(****************************************************************************)
EXTENDS Naturals

CONSTANTS
    Counts,         \* how many events poll() may be asked for
    MaxUses         \* bound on the use count

VARIABLES
    inUse, opened, enabled,     \* ctx->in_use, ctx->fd, ctx->enabled
    callAt,         \* where activate() and poll() are
    count           \* the events this poll() wants

sensorVars == <<inUse, opened, enabled, callAt, count>>

SensorInit ==
    /\ inUse = 0 /\ opened = FALSE /\ enabled = FALSE
    /\ callAt = [call \in {"activate", "poll"} |-> "idle"]
    /\ count \in Counts

Reaches(call, place) == callAt' = [callAt EXCEPT ![call] = place]

Activate ==
    /\ callAt["activate"] = "idle" /\ inUse < MaxUses
    /\ Reaches("activate", IF enabled THEN "dec" ELSE "inc")
    /\ UNCHANGED <<inUse, opened, enabled, count>>

Poll ==
    /\ callAt["poll"] = "idle" /\ inUse < MaxUses
    /\ Reaches("poll", "inc") /\ count' \in Counts
    /\ UNCHANGED <<inUse, opened, enabled>>

(* inc_uses(): the first user opens the device, or fails. *)
IncTest(call) ==
    /\ callAt[call] = "inc"
    /\ \/ inUse = 0 /\ opened' = TRUE /\ Reaches(call, "add")
       \/ inUse = 0 /\ opened' = FALSE /\ Reaches(call, "idle")
       \/ inUse # 0 /\ Reaches(call, "add") /\ UNCHANGED opened
    /\ UNCHANGED <<inUse, enabled, count>>

IncAdd(call) ==
    /\ callAt[call] = "add"
    /\ inUse' = inUse + 1
    /\ enabled' = (enabled \/ call = "activate")
    /\ Reaches(call, IF call = "poll" /\ opened THEN "select" ELSE "idle")
    /\ UNCHANGED <<opened, count>>

(* dec_uses(): the last user closes the device. *)
DecTest(call) ==
    /\ callAt[call] = "dec"
    /\ opened' = (opened /\ inUse # 1) /\ Reaches(call, "sub")
    /\ UNCHANGED <<inUse, enabled, count>>

DecSub(call) ==
    /\ callAt[call] = "sub"
    /\ inUse' = inUse - 1
    /\ enabled' = (enabled /\ call # "activate")
    /\ Reaches(call, "idle")
    /\ UNCHANGED <<opened, count>>

(* select() fails; or one event is complete, and poll() returns: it gives   *)
(* up its use only if no more events were wanted.                           *)
SelectFails ==
    /\ callAt["poll"] = "select" /\ Reaches("poll", "dec")
    /\ UNCHANGED <<inUse, opened, enabled, count>>

EventComplete ==
    /\ callAt["poll"] = "select" /\ Reaches("poll", IF count <= 1 THEN "dec" ELSE "idle")
    /\ UNCHANGED <<inUse, opened, enabled, count>>

SensorNext ==
    \/ Activate \/ Poll \/ SelectFails \/ EventComplete
    \/ \E call \in {"activate", "poll"} :
        IncTest(call) \/ IncAdd(call) \/ DecTest(call) \/ DecSub(call)

SensorSpec == SensorInit /\ [][SensorNext]_sensorVars

-----------------------------------------------------------------------------
(* Property. *)

(* "Enable or disable based on the request" (sensors.cpp:160): once the     *)
(* sensor is disabled and no call is under way, its device is closed.       *)
DisabledCloses ==
    (~enabled /\ \A call \in {"activate", "poll"} : callAt[call] = "idle") => ~opened
=============================================================================
