---------------------------- MODULE CallService ----------------------------
(***************************************************************************)
(* What a transport promises the modules above it (sendCommand, client.go  *)
(* 197-205): every command handed to Execute is a call that is answered    *)
(* exactly once, with a value, a SynapError of the code server_error, or   *)
(* another error.  An answer of a kind in Telling is only given for a      *)
(* command the server executed.  After any other answer the caller does    *)
(* not know, and a request still in flight may be executed after the       *)
(* caller was answered.  Which kinds tell is the transport's: RESP3 gives  *)
(* server_error only for an error the server replied with, SynapRPC gives  *)
(* it for every failure.  MaxExecutions bounds how often the server        *)
(* executes the command of one call.                                       *)
(***************************************************************************)
EXTENDS Naturals

CONSTANTS Calls,         \* the calls of Execute
          MaxExecutions, \* how often the server may execute one of them
          Telling        \* the kinds of answers that tell of an execution

VARIABLES phase,         \* [Calls -> Phase]
          executions     \* [Calls -> 0..MaxExecutions]

absVars == <<phase, executions>>

Answer == {"value", "svrerr", "neterr"}
Phase  == {"new", "open"} \cup Answer

Init ==
    /\ phase = [k \in Calls |-> "new"]
    /\ executions = [k \in Calls |-> 0]

(* The caller enters Execute. *)
Invoke(k) ==
    /\ phase[k] = "new"
    /\ phase' = [phase EXCEPT ![k] = "open"]
    /\ UNCHANGED executions

(* The server executes the command: at any time from the invocation on,    *)
(* also after the caller was answered.                                     *)
ExecuteOnServer(k) ==
    /\ phase[k] # "new"
    /\ executions[k] < MaxExecutions
    /\ executions' = [executions EXCEPT ![k] = @ + 1]
    /\ UNCHANGED phase

(* Execute returns. *)
Return(k, a) ==
    /\ phase[k] = "open"
    /\ a \in Telling => executions[k] > 0
    /\ phase' = [phase EXCEPT ![k] = a]
    /\ UNCHANGED executions

Next ==
    \E k \in Calls :
        \/ Invoke(k)
        \/ ExecuteOnServer(k)
        \/ \E a \in Answer : Return(k, a)

Spec == Init /\ [][Next]_absVars
=============================================================================
