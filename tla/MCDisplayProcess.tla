-------------------------- MODULE MCDisplayProcess --------------------------
(***************************************************************************)
(* DisplayProcess for TLC: the sets of events the runs let the outside     *)
(* publish.                                                                *)
(***************************************************************************)
EXTENDS DisplayProcess

On(topic, args) == {[topic |-> topic, arg |-> a] : a \in args}

ApEvents == On("AP_SETUP_STATE", Creds \cup {None})
StatusEvents == On("STATUS_SCREEN", Kinds \cup {None})
RegistrationEvents == On("FRAME_REGISTRATION", BOOLEAN)
RefusedEvents == On("FRAME_REGISTRATION", {FALSE})
NightEvents == On("UPDATE_NIGHT_MODE",
                  [pause : {TRUE}, end : NightEnds, now : {TRUE}])
ActiveEvents == On("SET_SLIDESHOW_ACTIVE", {FALSE})
ClearEvents == On("CLEAR_DISPLAY", {None})

RefusedOrClear == RefusedEvents \cup ClearEvents

SwitchEvents == On("AP_SETUP_STATE", Creds) \cup StatusEvents

AllTopics == ApEvents \cup StatusEvents \cup RegistrationEvents
             \cup NightEvents \cup ActiveEvents \cup ClearEvents
=============================================================================
