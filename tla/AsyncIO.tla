------------------------------ MODULE AsyncIO ------------------------------
(***************************************************************************)
(* What an asynchronous RAM I/O service promises to the owner of a request *)
(* object, whatever the service does inside: a submitted request is        *)
(* pending, then either it is loaded (by the single service thread, one    *)
(* request at a time) and becomes ready, or it is cancelled before its     *)
(* loading starts.  The owner then collects the result and may reuse the   *)
(* object.  RamIOService implements this specification.                    *)
(***************************************************************************)

CONSTANT Req   \* the skr_async_io_request_t objects of the callers

VARIABLE phase \* what the owner of each request object can observe

Phases == {"idle", "pending", "loading", "ready", "cancelled"}

Init == phase = [r \in Req |-> "idle"]

Submit(r) ==
    /\ phase[r] = "idle"
    /\ phase' = [phase EXCEPT ![r] = "pending"]

\* Only one request is being loaded at any time.
Begin(r) ==
    /\ phase[r] = "pending"
    /\ \A q \in Req : phase[q] # "loading"
    /\ phase' = [phase EXCEPT ![r] = "loading"]

Finish(r) ==
    /\ phase[r] = "loading"
    /\ phase' = [phase EXCEPT ![r] = "ready"]

Cancel(r) ==
    /\ phase[r] = "pending"
    /\ phase' = [phase EXCEPT ![r] = "cancelled"]

Collect(r) ==
    /\ phase[r] \in {"ready", "cancelled"}
    /\ phase' = [phase EXCEPT ![r] = "idle"]

Next == \E r \in Req : Submit(r) \/ Begin(r) \/ Finish(r) \/ Cancel(r) \/ Collect(r)

Spec == Init /\ [][Next]_phase
=============================================================================
