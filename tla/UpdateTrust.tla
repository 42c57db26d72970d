----------------------------- MODULE UpdateTrust -----------------------------
(***************************************************************************)
(* How far the panel can be relied on, judged from the calls that          *)
(* DisplayManager::RefreshDisplay makes and from their results, which it   *)
(* never looks at.  RefreshPolicy takes this for what the display does;    *)
(* DisplayPath derives it from the driver's transfers.                     *)
(***************************************************************************)

VARIABLES
    trusted,  \* the panel shows the picture that was sent last
    stale     \* a partial update has failed, and none has succeeded since

trust == <<trusted, stale>>

(* Every call of an update succeeds.  A full one sends both planes again,  *)
(* but after a failed partial one the controller may lack the registers of *)
(* the full profile, and the driver does not write them: it has noted that *)
(* profile since the last full update.  A partial one changes the profile. *)
Succeeded(full) ==
    /\ trusted' = (trusted \/ (full /\ ~stale))
    /\ stale' = (stale /\ full)

(* A call of an update fails. *)
Failed(full) ==
    /\ trusted' = FALSE
    /\ stale' = (stale \/ ~full)
=============================================================================
