------------------------ MODULE ConnectionLifecycle ------------------------
(***************************************************************************)
(* What the client promises a watcher of BloopClient::status: which value  *)
(* ConnectionStatus may take after which, and on what occasion.  There is  *)
(* no task, channel or connection here; BloopClient is shown to implement  *)
(* this specification.                                                     *)
(***************************************************************************)
CONSTANTS Configs, NoConfig, Capabilities, NoCapabilities, Policy

VARIABLES status, config

Is(state) == status.state = state

Becomes(state) ==
    status' = [state |-> state, capabilities |-> NoCapabilities]

(* The state of a client that has just been given a configuration.         *)
Fresh(c) == IF c = NoConfig THEN "Unconfigured" ELSE "Disconnected"

Init ==
    /\ config \in Configs \cup {NoConfig}
    /\ status = [state |-> Fresh(config), capabilities |-> NoCapabilities]

(* Configured, without a connection, and free to try for one: a rejection  *)
(* under the Latch policy ends that until the next configuration.          *)
MayConnect ==
    \/ Is("Disconnected")
    \/ Is("InvalidCredentials") /\ Policy = "Retry"

Configure ==
    /\ ~Is("Shutdown")
    /\ config' \in Configs \cup {NoConfig}
    /\ Becomes(Fresh(config'))

Connect ==
    /\ MayConnect
    /\ \E c \in Capabilities :
          status' = [state |-> "Connected", capabilities |-> c]
    /\ UNCHANGED config

Reject ==
    /\ MayConnect
    /\ Becomes("InvalidCredentials")
    /\ UNCHANGED config

(* A connection is lost, or an attempt fails for another reason than the   *)
(* credentials.                                                            *)
Lose ==
    /\ Is("Connected") \/ MayConnect
    /\ Becomes("Disconnected")
    /\ UNCHANGED config

ShutDown ==
    /\ Becomes("Shutdown")
    /\ UNCHANGED config

Next ==
    \/ Configure
    \/ Connect
    \/ Reject
    \/ Lose
    \/ ShutDown

Spec == Init /\ [][Next]_<<status, config>>
=============================================================================
