-------------------------------- MODULE Auth --------------------------------
(***************************************************************************)
(* The two objects of server/auth.py that ingest holds, on its event loop: *)
(* the limiter admits connections, and the device at the far end of one of *)
(* them makes the registry look its key up.  A lookup does not await, so   *)
(* the limiter is not called while one is going on; the clock and the      *)
(* editor of the key file do not wait for it.  See Limiter and Registry.   *)
(***************************************************************************)
EXTENDS Limiter

CONSTANTS Devices, Inline, Listings, MaxEdits

VARIABLES
    file, filetime, edits, keys, mtime, step, up, loaded, history, quiet, tied

R == INSTANCE Registry

ASSUME KeysAssumption == R!RegistryAssumption

limiterVars == <<window, live, rejected, hist>>
registryVars ==
    <<file, filetime, edits, keys, mtime, step, up, loaded, history, quiet, tied>>

AuthInit == Init /\ R!Init

Loop == step = "idle" /\ UNCHANGED registryVars

Time == Tick /\ UNCHANGED registryVars

Admitted(ip) == Loop /\ Allow(ip)

Refused(ip) == Loop /\ Refuse(ip)

Released(ip) == Loop /\ Release(ip)

(* _handshake() of an admitted connection calls get(). *)
Lookup(ip) == live[ip] > 0 /\ R!Look /\ UNCHANGED limiterVars

Reloading == R!Reload /\ UNCHANGED limiterVars

Editing == (R!Save \/ R!Delete) /\ UNCHANGED limiterVars

AuthNext ==
    \/ Time
    \/ Reloading
    \/ Editing
    \/ \E ip \in Addr : Admitted(ip) \/ Refused(ip) \/ Released(ip) \/ Lookup(ip)

AuthSpec == AuthInit /\ [][AuthNext]_<<vars, registryVars>>

-----------------------------------------------------------------------------
AuthTypeOK == TypeOK /\ R!TypeOK

(* The registry's promises, see there (auth.py:82-111). *)
Genuine == R!Genuine

KeysCurrent == R!KeysCurrent
=============================================================================
