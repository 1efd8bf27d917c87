----------------------------- MODULE DeviceView -----------------------------
(***************************************************************************)
(* What the device promises to TAPI.  Opening it succeeds exactly when a   *)
(* connection was made.  From then on its thread lives until it is told to *)
(* stop, connecting again after each loss; and the line goes out of and    *)
(* into service with these losses and connections and at no other time.    *)
(* What the service says once the device is closed is nobody's business.   *)
(***************************************************************************)

CONSTANT MayLinger      \* closing may give up a thread that is connecting

VARIABLES
    app,            \* the TAPI thread that opens or closes the device
    stop,           \* the device is to stop
    opened,         \* there was a connection since the device was opened
    connection,     \* "none": no thread;  "trying", "up": what it believes
    inService       \* what TAPI was told of the line

deviceViewVars == <<app, stop, opened, connection, inService>>

DeviceInit ==
    /\ app = "closed" /\ stop = FALSE /\ opened = FALSE
    /\ connection = "none" /\ inService = TRUE

Open ==
    /\ app = "closed" /\ connection = "none"
    /\ app' = "opening" /\ stop' = FALSE /\ opened' = FALSE
    /\ connection' = "trying"
    /\ UNCHANGED inService

OpenSucceeds ==
    /\ app = "opening" /\ opened
    /\ app' = "open"
    /\ UNCHANGED <<stop, opened, connection, inService>>

OpenFails ==
    /\ app = "opening" /\ ~opened /\ connection = "none"
    /\ app' = "closed"
    /\ UNCHANGED <<stop, opened, connection, inService>>

\* By TAPI, or because the first connection takes too long.
Stop ==
    /\ \/ app = "open"
       \/ app = "opening" /\ ~opened /\ connection # "none"
    /\ app' = "killing" /\ stop' = TRUE
    /\ UNCHANGED <<opened, connection, inService>>

Closed ==
    /\ app = "killing"
    /\ \/ connection = "none"
       \/ MayLinger /\ connection = "trying"
    /\ app' = "closed"
    /\ UNCHANGED <<stop, opened, connection, inService>>

\* The first connection is told by opening the device, the others by service.
ConnectionMade ==
    /\ connection = "trying"
    /\ connection' = "up" /\ opened' = TRUE
    /\ inService' = (inService \/ opened)
    /\ UNCHANGED <<app, stop>>

ConnectionLost ==
    /\ connection = "up"
    /\ connection' = "trying" /\ inService' = FALSE
    /\ UNCHANGED <<app, stop, opened>>

\* The thread ends when told to, or if it cannot connect the first time.
ThreadGone ==
    /\ \/ connection = "trying" /\ (stop \/ ~opened)
       \/ connection = "up" /\ stop
    /\ connection' = "none"
    /\ UNCHANGED <<app, stop, opened, inService>>

DeviceNext ==
    \/ Open \/ OpenSucceeds \/ OpenFails \/ Stop \/ Closed
    \/ ConnectionMade \/ ConnectionLost \/ ThreadGone

DeviceSpec == DeviceInit /\ [][DeviceNext]_deviceViewVars
=============================================================================
