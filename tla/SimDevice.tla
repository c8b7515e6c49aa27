----------------------------- MODULE SimDevice ------------------------------
(***************************************************************************)
(* SimDevice of sim/sim_device.py: sessions of paced audio frames, with    *)
(* loss, stalls during which frames pile up, and reconnects.  A frame is   *)
(* the number of frames built before it.  Time is left out: a step is one  *)
(* turn of the loop, and any turn may be in a stall.  The counters of the  *)
(* closing line, sent_frames and sent_bytes, are left out.                 *)
(***************************************************************************)
EXTENDS Link

CONSTANTS
    Packets,        \* frames of the clip
    MaxBuilt,       \* bound: frames built
    MaxStats        \* bound: STATs sent

(* A clip without a frame is refused (sim_device.py:94-95).                *)
ASSUME SimDeviceAssumption ==
    /\ MaxSessions \in Nat /\ MaxBuilt \in Nat /\ MaxStats \in Nat
    /\ Packets \in Nat \ {0}

VARIABLES
    dev,        \* "off" before a session and between two, "on", "done"
    config,     \* --once and --drop-hello, or not
    session,    \* the latest session
    idx,        \* position in the clip
    built,      \* frames built
    held,       \* the backlog
    dropped,    \* frames dropped
    reconnects, \* sessions that failed
    stats,      \* STATs sent
    kept        \* ghost: frames not dropped, per session

deviceVars ==
    <<dev, config, session, idx, built, held, dropped, reconnects, stats, kept>>

DeviceInit ==
    /\ dev = "off"
    /\ config \in [loop : BOOLEAN, hello : BOOLEAN]
    /\ session = 0
    /\ idx = 0
    /\ built = 0
    /\ held = <<>>
    /\ dropped = 0
    /\ reconnects = 0
    /\ stats = 0
    /\ kept = [s \in Sessions |-> {}]

(* The receiver sends no challenge, for which the device waits in vain.    *)
(* An attempt to connect that fails is a session whose link breaks at once.*)
Connect ==
    /\ dev = "off"
    /\ session < MaxSessions
    /\ session' = session + 1
    /\ dev' = "on"
    /\ idx' = 0
    /\ held' = <<>>
    /\ OpenLink(session + 1, IF config.hello THEN <<Hello>> ELSE <<>>)
    /\ UNCHANGED <<config, built, dropped, reconnects, stats, kept>>

-----------------------------------------------------------------------------
LastPacket == idx + 1 = Packets

(* What a turn does with the frame it has built. *)
Drop ==
    /\ dropped' = dropped + 1
    /\ UNCHANGED <<held, kept>>

Keep == kept' = [kept EXCEPT ![session] = @ \union {built}]

Hold ==
    /\ held' = Append(held, built)
    /\ Keep
    /\ UNCHANGED dropped

\* variant: the frame ahead of the backlog
BurstNewestFirst == <<built>> \o held

Burst == held \o <<built>>

Send ==
    /\ held' = <<>>
    /\ Keep
    /\ UNCHANGED dropped

(* At times a STAT follows, unless the turn is in a stall. *)
Telemetry(stalled) ==
    {<<>>} \union {q \in {<<Stat>>} : ~stalled /\ stats < MaxStats}

(* A turn of the loop; not the one that ends it, see Over. *)
Turn ==
    /\ dev = "on"
    /\ built < MaxBuilt
    /\ LastPacket => config.loop
    /\ built' = built + 1
    /\ idx' = IF LastPacket THEN 0 ELSE idx + 1
    /\ \E stalled \in BOOLEAN : \E report \in Telemetry(stalled) :
          /\ stats' = stats + Len(report)
          /\ \/ Drop /\ Write(session, report)
             \/ stalled /\ Hold /\ Write(session, report)
             \/ /\ ~stalled
                /\ Send
                /\ Write(session, [i \in DOMAIN Burst |-> Audio(Burst[i])] \o report)
    /\ UNCHANGED <<dev, config, session, reconnects>>

(* With --once the loop breaks off after the last packet is built and      *)
(* before it is sent.                                                      *)
Over ==
    /\ dev = "on"
    /\ built < MaxBuilt
    /\ LastPacket /\ ~config.loop
    /\ built' = built + 1
    /\ idx' = idx + 1
    /\ dev' = "done"
    /\ held' = <<>>
    /\ CloseLink(session)
    /\ UNCHANGED <<config, session, dropped, reconnects, stats, kept>>

(* A write on a broken link raises, sooner or later: the session is over,  *)
(* and its backlog gone.                                                   *)
Fail ==
    /\ dev = "on"
    /\ link[session] = "dead"
    /\ dev' = IF config.loop THEN "off" ELSE "done"
    /\ reconnects' = reconnects + 1
    /\ held' = <<>>
    /\ UNCHANGED <<config, session, idx, built, dropped, stats, kept, linkVars>>

(* drive() cancels the device's task: at any moment. *)
Stop ==
    /\ dev # "done"
    /\ dev' = "done"
    /\ held' = <<>>
    /\ IF dev = "on" THEN CloseLink(session) ELSE UNCHANGED linkVars
    /\ UNCHANGED <<config, session, idx, built, dropped, reconnects, stats, kept>>

DeviceNext == Connect \/ Turn \/ Over \/ Fail \/ Stop
=============================================================================
