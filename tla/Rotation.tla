------------------------------ MODULE Rotation ------------------------------
(***************************************************************************)
(* What the Rotate RPCs of the gNSI services promise, whatever credential  *)
(* they rotate: one RPC at a time, and a rotation that is not finalized    *)
(* leaves the credential as it found it ("Connection closed without        *)
(* Finalize message. Revert all changes made until now.").  The promise is *)
(* void once storage has failed; a restart keeps whatever is on disk.      *)
(***************************************************************************)
CONSTANTS Clients, Creds, None

VARIABLES holder,   \* the RPC that holds the service's mutex, or None
          active,   \* the credential in force
          good,     \* the last good state: what a rotation goes back to
          failed    \* a read or write of storage has failed

vars == <<holder, active, good, failed>>

Init == holder = None /\ active \in Creds /\ good = active /\ failed = FALSE

Begin(c) ==
  /\ holder = None /\ holder' = c
  /\ UNCHANGED <<active, good>>

Install(c) ==
  /\ holder = c /\ active' \in Creds
  /\ UNCHANGED <<holder, good>>

Finalize(c) ==
  /\ holder = c /\ good' = active
  /\ UNCHANGED <<holder, active>>

Release(c) ==
  /\ holder = c /\ (active = good \/ failed')
  /\ holder' = None
  /\ UNCHANGED <<active, good>>

\* Any step of an RPC may meet a failure of storage.
Step(c) ==
  /\ Begin(c) \/ Install(c) \/ Finalize(c) \/ Release(c)
  /\ failed' \in {failed, TRUE}

Restart ==
  /\ holder' = None /\ active' \in Creds /\ good' = active'
  /\ failed' = failed

Next == Restart \/ \E c \in Clients : Step(c)

Spec == Init /\ [][Next]_vars
=============================================================================
