-------------------------------- MODULE Vpn --------------------------------
(***************************************************************************)
(* What the daemon asks of a VPN technology: the interface vpn.VPN         *)
(* (daemon/vpn/vpn.go) as the networker uses it.  One call at a time; up   *)
(* is what IsActive tells of a finished call.  The libraries of            *)
(* Libtelio.tla, OpenVpn.tla and KernelSpace.tla implement it.             *)
(***************************************************************************)

VARIABLES
    call,   \* the call that has not returned: "none", "Start", "Background" (a Start
            \* whose context never ends), "Stop", "Other"
    up      \* IsActive

vpnVars == <<call, up>>

Starts == {"Start", "Background"}
Calls == Starts \cup {"Stop", "Other"}

Init == call = "none" /\ up = FALSE

Request(c) ==
    /\ call = "none"
    /\ call' = c
    /\ UNCHANGED up

StartReturns ==
    /\ call \in Starts
    /\ call' = "none"
    /\ up' \in BOOLEAN

\* A Stop that fails may leave the connection; Enable, Disable and
\* NetworkChanged keep the connection or lose it.  None of them makes one.
\* A call that waits for nothing is one step.
StopReturns ==
    /\ call \notin Starts
    /\ call' = "none"
    /\ up' \in {FALSE, up}

Returns == StartReturns \/ (call # "none" /\ StopReturns)

Next == (\E c \in Calls : Request(c)) \/ StartReturns \/ StopReturns

\* Every call returns: the networker holds its mutex meanwhile, and every
\* other request of the daemon waits for it.  The exception is the Start that
\* refreshVPN makes after a change of the network: it has no deadline.
Spec == Init /\ [][Next]_vpnVars /\ WF_vpnVars(call # "Background" /\ Returns)
=============================================================================
