----------------------------- MODULE LiveProofs -----------------------------
(***************************************************************************)
(* Proofs about live audio, for every set of devices and sockets and every *)
(* length of the topic, thread switches between any two accesses.          *)
(***************************************************************************)
EXTENDS Live, TLAPS

(* A packet that is being worked on has been read.                         *)
Typed == TypeOK /\ (work # "poll" => pos >= 1)

LEMMA TypedStarts == Init => Typed
BY LiveAssumption DEF Init, Typed, TypeOK

LEMMA CurrentTyped == Typed /\ work # "poll" => Current \in Devices
BY DEF Typed, TypeOK, Current

LEMMA TypedHolds == Typed /\ [Next]_vars => Typed'
<1> SUFFICES ASSUME Typed, [Next]_vars PROVE Typed'
  OBVIOUS
<1> USE LiveAssumption DEF Typed, TypeOK
<1>1. ASSUME NEW d \in Devices, Produce(d) PROVE Typed'
  BY <1>1 DEF Produce
<1>2. ASSUME NEW s \in Sockets, Join(s) PROVE Typed'
  BY <1>2 DEF Join, LoopIdle
<1>3. ASSUME NEW s \in Sockets, Leave(s) PROVE Typed'
  BY <1>3 DEF Leave, LoopIdle, Remaining
<1>4. CASE FreeDecoder
  BY <1>4 DEF FreeDecoder
<1>5. CASE Broadcast
  <2>1. Head(calls) \in Call /\ Tail(calls) \in Seq(Call)
    BY <1>5 DEF Broadcast
  <2>2. ASSUME NEW s \in Sockets
        PROVE  /\ heard[s] \in Seq(1 .. MaxPackets)
               /\ Append(heard[s], Head(calls).packet) \in Seq(1 .. MaxPackets)
    <3>1. Head(calls).packet \in 1 .. MaxPackets
      BY <2>1 DEF Call
    <3> QED
      BY <3>1
  <2>3. heard' \in [Sockets -> Seq(1 .. MaxPackets)]
    BY <1>5, <2>2 DEF Broadcast
  <2> QED
    BY <1>5, <2>1, <2>3 DEF Broadcast
<1>6. CASE Poll
  BY <1>6 DEF Poll, Available
<1>7. CASE Check
  BY <1>7 DEF Check
<1>8. CASE GetDecoder
  BY <1>8, CurrentTyped DEF GetDecoder
<1>9. CASE Send
  <2>1. [targets |-> listeners[Current], packet |-> pos] \in Call
    BY <1>9, CurrentTyped DEF Send, Call
  <2> QED
    BY <1>9, <2>1 DEF Send, Enqueue
<1>10. CASE Skip
  BY <1>10 DEF Skip
<1>11. CASE UNCHANGED vars
  BY <1>11 DEF vars, Call
<1> QED
  BY <1>1, <1>2, <1>3, <1>4, <1>5, <1>6, <1>7, <1>8, <1>9, <1>10, <1>11 DEF Next

(* The state that the two threads share stays well typed.                  *)
THEOREM TypeCorrect == Spec => []TypeOK
<1>1. Typed => TypeOK
  BY DEF Typed
<1> QED
  BY TypedStarts, TypedHolds, <1>1, PTL DEF Spec

-----------------------------------------------------------------------------
(* A decoder of d has its reason: see DecodersLazy.                        *)
Reason(d) == listeners[d] # {} \/ leaving = <<d>> \/ d \in raced

(* The worker makes a decoder only where there will be a reason for it.    *)
Lazy ==
    /\ \A d \in decoders : Reason(d)
    /\ work = "decoder" => Reason(Current)

(* While the loop joins, leaves or frees, a reason goes only with the      *)
(* decoder, and never for the device whose decoder the worker is to make.  *)
LEMMA ReasonStays ==
    ASSUME Typed, [Next]_vars, NEW d \in Devices, Reason(d),
           FreeDecoder => leaving[1] # d \/ (work = "decoder" /\ Current = d)
    PROVE  Reason(d)'
<1> USE LiveAssumption DEF Typed, TypeOK, Reason
<1>1. ASSUME NEW s \in Sockets, Join(s) PROVE Reason(d)'
  BY <1>1 DEF Join
<1>2. ASSUME NEW s \in Sockets, Leave(s) PROVE Reason(d)'
  BY <1>2 DEF Leave, LoopIdle, Remaining
<1>3. CASE FreeDecoder
  BY <1>3 DEF FreeDecoder
<1>4. CASE UNCHANGED <<listeners, leaving, raced>>
  BY <1>4
<1> QED
  BY <1>1, <1>2, <1>3, <1>4 DEF Next, vars, Produce, Broadcast, Poll, Check, GetDecoder,
     Send, Skip

LEMMA LazyHolds == Typed /\ Lazy /\ [Next]_vars => Lazy'
<1> SUFFICES ASSUME Typed, Lazy, [Next]_vars PROVE Lazy'
  OBVIOUS
<1>1. \A d \in decoders' : Reason(d)'
  <2> SUFFICES ASSUME NEW d \in decoders' PROVE Reason(d)'
    OBVIOUS
  <2>1. d \in Devices
    BY TypedHolds DEF Typed, TypeOK
  <2>2. Reason(d)
    BY DEF Lazy, Next, vars, Produce, Join, Leave, FreeDecoder, Broadcast, Poll, Check,
       GetDecoder, Send, Skip
  <2>3. FreeDecoder => leaving[1] # d
    BY DEF FreeDecoder
  <2> QED
    BY <2>1, <2>2, <2>3, ReasonStays
<1>2. ASSUME work' = "decoder" PROVE Reason(Current)'
  <2>1. CASE Check
    BY <1>2, <2>1 DEF Check, Watched, Reason, Current
  <2>2. CASE ~Check
    <3>1. work = "decoder" /\ pos' = pos
      BY <1>2, <2>2 DEF Next, vars, Produce, Join, Leave, FreeDecoder, Broadcast, Poll,
         GetDecoder, Send, Skip
    <3>2. Current' = Current
      BY <3>1 DEF Typed, TypeOK, Current, Next, vars, Produce, Join, Leave, FreeDecoder,
         Broadcast, Poll, Check, GetDecoder, Send, Skip
    <3>3. Reason(Current) /\ Current \in Devices
      BY <3>1, CurrentTyped DEF Lazy
    <3>4. \A d \in Devices : d = Current /\ Reason(d) => Reason(d)'
      BY <3>1, ReasonStays
    <3> QED
      BY <3>2, <3>3, <3>4 DEF Reason
  <2> QED
    BY <2>1, <2>2
<1> QED
  BY <1>1, <1>2 DEF Lazy

(* A decoder without listeners is about to be freed, or was made in the    *)
(* one race the code leaves open.                                          *)
THEOREM DecodersLazyHolds == Spec => []DecodersLazy
<1>1. Init => Lazy
  BY DEF Init, Lazy
<1>2. Lazy => DecodersLazy
  BY DEF Lazy, Reason, DecodersLazy
<1> QED
  BY TypedStarts, TypedHolds, LazyHolds, <1>1, <1>2, PTL DEF Spec

-----------------------------------------------------------------------------
(* What a listener hears. *)

(* The packets the worker is done with. *)
Done == IF work = "poll" THEN pos ELSE pos - 1

(* The packets on their way to socket s. *)
Pending(s) == {p \in 1 .. MaxPackets :
                  \E i \in DOMAIN calls : s \in calls[i].targets /\ calls[i].packet = p}

(* A socket that is in listens to its device, and no other one does.       *)
Registered ==
    \A s \in Sockets, d \in Devices :
        s \in listeners[d] <=> pc[s] = "in" /\ Listens[s] = d

(* The calls wait in the order of their packets, for listeners of the      *)
(* packet's device.                                                        *)
Queued ==
    /\ \A i \in DOMAIN calls :
          /\ calls[i].packet <= Done
          /\ \A s \in calls[i].targets : pc[s] # "new" /\ Listens[s] = log[calls[i].packet]
    /\ \A i, j \in DOMAIN calls : i < j => calls[i].packet < calls[j].packet

(* What was heard came before what waits. *)
Told ==
    \A s \in Sockets :
        /\ pc[s] = "new" => heard[s] = <<>>
        /\ \A i \in DOMAIN heard[s] :
              /\ heard[s][i] <= Done
              /\ log[heard[s][i]] = Listens[s]
              /\ \A j \in DOMAIN calls : heard[s][i] < calls[j].packet
        /\ \A i, j \in DOMAIN heard[s] : i < j => heard[s][i] < heard[s][j]

(* From the first packet a socket hears, or will hear, none is missing.    *)
Covered ==
    \A s \in Sockets : pc[s] = "in" =>
        \A f \in Heard(s) \cup Pending(s) : \A p \in f .. Done :
            log[p] = Listens[s] => p \in Heard(s) \cup Pending(s) \cup skipped

Ordered == Typed /\ Registered /\ Queued /\ Told

LEMMA DoneTyped == Typed => Done \in 0 .. Len(log) /\ Done \in Nat /\ Len(log) \in Nat
BY LiveAssumption DEF Typed, TypeOK, Done

LEMMA RegisteredHolds == Typed /\ Registered /\ [Next]_vars => Registered'
<1> SUFFICES ASSUME Typed, Registered, [Next]_vars PROVE Registered'
  OBVIOUS
<1> USE LiveAssumption
<1>0. listeners \in [Devices -> SUBSET Sockets] /\ pc \in [Sockets -> {"new", "in", "out"}]
  BY DEF Typed, TypeOK
<1>1. ASSUME NEW s \in Sockets, Join(s) PROVE Registered'
  BY <1>0, <1>1 DEF Registered, Join
<1>2. ASSUME NEW s \in Sockets, Leave(s) PROVE Registered'
  BY <1>0, <1>2 DEF Registered, Leave, Remaining
<1>3. CASE UNCHANGED <<listeners, pc>>
  BY <1>3 DEF Registered
<1> QED
  BY <1>1, <1>2, <1>3 DEF Next, vars, Produce, FreeDecoder, Broadcast, Poll, Check,
     GetDecoder, Send, Skip

(* A listener of the current packet's device is among its targets.         *)
LEMMA TargetsListen ==
    ASSUME Typed, Registered, work # "poll"
    PROVE  /\ Current = log[pos] /\ Current \in Devices /\ pos \in 1 .. Len(log)
           /\ Done = pos - 1
           /\ \A s \in Sockets :
                 s \in listeners[Current] <=> pc[s] = "in" /\ Listens[s] = log[pos]
<1>1. pos \in 1 .. Len(log) /\ Done = pos - 1
  BY DEF Typed, TypeOK, Done
<1> QED
  BY <1>1, CurrentTyped DEF Registered, Current

(* The steps that neither queue, nor run a call, nor finish a packet.       *)
Aside ==
    /\ UNCHANGED <<calls, heard, skipped, Done>>
    /\ \A s \in Sockets : /\ pc'[s] = "new" => pc[s] = "new"
                          /\ pc'[s] = "in" => pc[s] = "in"
    /\ \A p \in 1 .. Len(log) : log'[p] = log[p]

(* The worker is done with a packet that it does not send. *)
Finish ==
    /\ work # "poll" /\ work' = "poll"
    /\ UNCHANGED <<log, pos, listeners, pc, calls, heard>>
    /\ skipped \subseteq skipped'
    /\ \A s \in Sockets : pc[s] = "in" /\ Listens[s] = log[pos] => pos \in skipped'

(* The calls after the worker sent the current packet. *)
LEMMA SentCalls ==
    ASSUME Typed, Registered, Send, listeners[Current] # {}
    PROVE  /\ DOMAIN calls' = 1 .. Len(calls) + 1 /\ DOMAIN calls = 1 .. Len(calls)
           /\ Len(calls) \in Nat
           /\ \A i \in DOMAIN calls : calls'[i] = calls[i]
           /\ calls'[Len(calls) + 1].packet = pos
           /\ calls'[Len(calls) + 1].targets = listeners[Current]
<1> DEFINE call == [targets |-> listeners[Current], packet |-> pos]
<1>1. calls \in Seq(Call) /\ calls' = Append(calls, call)
  BY DEF Typed, TypeOK, Send, Enqueue
<1>2. call.packet = pos /\ call.targets = listeners[Current]
  OBVIOUS
<1> HIDE DEF call
<1> QED
  BY <1>1, <1>2

(* The calls after one was run. *)
LEMMA RunCalls ==
    ASSUME Typed, Broadcast
    PROVE  /\ DOMAIN calls' = 1 .. Len(calls) - 1 /\ DOMAIN calls = 1 .. Len(calls)
           /\ Len(calls) \in Nat \ {0}
           /\ \A i \in DOMAIN calls' : calls'[i] = calls[i + 1]
           /\ Head(calls) = calls[1] /\ calls[1] \in Call
           /\ \A s \in Sockets :
                 heard'[s] = IF s \in calls[1].targets /\ pc[s] = "in"
                             THEN Append(heard[s], calls[1].packet)
                             ELSE heard[s]
<1>1. calls \in Seq(Call) /\ calls # <<>> /\ calls' = Tail(calls)
  BY DEF Typed, TypeOK, Broadcast
<1>2. Head(calls) = calls[1] /\ calls[1] \in Call /\ Len(calls) \in Nat \ {0}
  BY <1>1
<1> QED
  BY <1>1, <1>2 DEF Broadcast

(* Every step is one of five as far as listeners are concerned.            *)
LEMMA StepKinds ==
    ASSUME Typed, Registered, [Next]_vars
    PROVE  \/ Aside
           \/ \E s \in Sockets : Join(s)
           \/ Broadcast
           \/ Send
           \/ Finish
<1> USE LiveAssumption
<1>1. CASE \E d \in Devices : Produce(d)
  <2>1. PICK d \in Devices : Produce(d)
    BY <1>1
  <2>2. log \in Seq(Devices) /\ log' = Append(log, d)
    BY <2>1 DEF Produce, Typed, TypeOK
  <2>3. \A p \in 1 .. Len(log) : log'[p] = log[p]
    BY <2>2
  <2> QED
    BY <2>1, <2>3 DEF Produce, Aside, Done
<1>2. ASSUME NEW s \in Sockets, Leave(s) PROVE Aside
  <2>1. pc' = [pc EXCEPT ![s] = "out"] /\ pc \in [Sockets -> {"new", "in", "out"}]
    BY <1>2 DEF Leave, Typed, TypeOK
  <2> QED
    BY <1>2, <2>1 DEF Leave, Aside, Done
<1>3. CASE FreeDecoder \/ GetDecoder \/ UNCHANGED vars
  BY <1>3 DEF FreeDecoder, GetDecoder, vars, Aside, Done
<1>4. CASE Poll
  <2>1. pos \in Nat
    BY DEF Typed, TypeOK
  <2> QED
    BY <1>4, <2>1 DEF Poll, Aside, Done
<1>5. CASE Check
  <2>1. CASE Watched(Current)
    BY <1>5, <2>1 DEF Check, Aside, Done
  <2>2. CASE ~Watched(Current)
    BY <1>5, <2>2, TargetsListen DEF Check, Watched, Finish
  <2> QED
    BY <2>1, <2>2
<1>6. CASE Skip
  BY <1>6 DEF Skip, Finish
<1> QED
  BY <1>1, <1>2, <1>3, <1>4, <1>5, <1>6 DEF Next

(* A call's packet is one of the topic. *)
LEMMA CallsTyped ==
    ASSUME Typed
    PROVE  /\ Len(calls) \in Nat /\ DOMAIN calls = 1 .. Len(calls)
           /\ \A i \in DOMAIN calls :
                 calls[i].packet \in 1 .. MaxPackets /\ calls[i].targets \subseteq Sockets
<1>1. calls \in Seq(Call)
  BY DEF Typed, TypeOK
<1>2. \A i \in DOMAIN calls : calls[i] \in Call
  BY <1>1
<1> QED
  BY <1>1, <1>2 DEF Call

LEMMA QueuedHolds == Typed /\ Registered /\ Queued /\ [Next]_vars => Queued'
<1> SUFFICES ASSUME Typed, Registered, Queued, [Next]_vars PROVE Queued'
  OBVIOUS
<1> USE LiveAssumption
<1>0. Done \in Nat /\ Done <= Len(log) /\ Len(log) \in Nat /\ pos \in Nat
  BY DoneTyped DEF Typed, TypeOK
<1>1. CASE Aside
  <2>1. \A i \in DOMAIN calls : calls[i].packet \in 1 .. Len(log) /\ calls[i].targets \subseteq Sockets
    BY <1>0, CallsTyped DEF Queued
  <2> QED
    BY <1>1, <2>1 DEF Aside, Queued
<1>2. ASSUME NEW s \in Sockets, Join(s) PROVE Queued'
  <2>1. pc' = [pc EXCEPT ![s] = "in"] /\ pc \in [Sockets -> {"new", "in", "out"}]
    BY <1>2 DEF Join, Typed, TypeOK
  <2>2. \A t \in Sockets : pc'[t] = "new" => pc[t] = "new"
    BY <2>1
  <2>3. UNCHANGED <<log, calls, Done>>
    BY <1>2 DEF Join, Done
  <2> QED
    BY <2>2, <2>3, CallsTyped DEF Queued
<1>3. CASE Broadcast
  <2>1. UNCHANGED <<log, pc, Done>>
    BY <1>3 DEF Broadcast, Done
  <2>2. /\ DOMAIN calls' = 1 .. Len(calls) - 1 /\ DOMAIN calls = 1 .. Len(calls)
        /\ Len(calls) \in Nat \ {0}
        /\ \A i \in DOMAIN calls' : calls'[i] = calls[i + 1]
    BY <1>3, RunCalls
  <2>3. \A i \in DOMAIN calls' : i + 1 \in DOMAIN calls
    BY <2>2
  <2>4. \A i, j \in DOMAIN calls' : i < j => i + 1 < j + 1
    BY <2>2
  <2> QED
    BY <2>1, <2>2, <2>3, <2>4 DEF Queued
<1>4. ASSUME UNCHANGED <<log, pc>>, Done' = pos, Done = pos - 1, calls' = calls
      PROVE  Queued'
  <2>1. \A i \in DOMAIN calls : calls[i].packet <= pos
    BY <1>0, <1>4, CallsTyped DEF Queued
  <2> QED
    BY <1>4, <2>1 DEF Queued
<1>5. CASE Send
  <2>1. /\ UNCHANGED <<log, pc>> /\ Done' = pos /\ Done = pos - 1 /\ work # "poll"
        /\ listeners[Current] = {} => calls' = calls
    BY <1>5 DEF Send, Done
  <2>2. CASE listeners[Current] # {}
    <3>1. /\ DOMAIN calls' = 1 .. Len(calls) + 1 /\ DOMAIN calls = 1 .. Len(calls)
          /\ Len(calls) \in Nat
          /\ \A i \in DOMAIN calls : calls'[i] = calls[i]
          /\ calls'[Len(calls) + 1].packet = pos
          /\ calls'[Len(calls) + 1].targets = listeners[Current]
      BY <1>5, <2>2, SentCalls
    <3>2. \A s \in listeners[Current] : pc[s] # "new" /\ Listens[s] = log[pos]
      <4>1. listeners[Current] \subseteq Sockets
        BY <2>1, CurrentTyped DEF Typed, TypeOK
      <4> QED
        BY <2>1, <4>1, TargetsListen
    <3>3. \A i \in DOMAIN calls : calls[i].packet \in Nat /\ calls[i].packet < pos
      BY <1>0, <2>1, CallsTyped DEF Queued
    <3>4. \A i \in DOMAIN calls' : i \in DOMAIN calls \/ i = Len(calls) + 1
      BY <3>1
    <3>5. \A i \in DOMAIN calls' :
              /\ calls'[i].packet <= pos
              /\ \A s \in calls'[i].targets : pc[s] # "new" /\ Listens[s] = log[calls'[i].packet]
      BY <1>0, <3>1, <3>2, <3>3, <3>4 DEF Queued
    <3>6. \A i, j \in DOMAIN calls' : i < j => calls'[i].packet < calls'[j].packet
      <4> SUFFICES ASSUME NEW i \in DOMAIN calls', NEW j \in DOMAIN calls', i < j
                   PROVE  calls'[i].packet < calls'[j].packet
        OBVIOUS
      <4>1. i \in DOMAIN calls
        BY <3>1
      <4> QED
        BY <3>1, <3>3, <3>4, <4>1 DEF Queued
    <3> QED
      BY <2>1, <3>5, <3>6 DEF Queued
  <2> QED
    BY <1>4, <2>1, <2>2
<1>6. CASE Finish
  BY <1>4, <1>6 DEF Finish, Done
<1> QED
  BY <1>1, <1>2, <1>3, <1>5, <1>6, StepKinds

LEMMA ToldHolds == Ordered /\ [Next]_vars => Told'
<1> SUFFICES ASSUME Typed, Registered, Queued, Told, [Next]_vars PROVE Told'
  BY DEF Ordered
<1> USE LiveAssumption
<1>0. /\ Done \in Nat /\ Done <= Len(log) /\ Len(log) \in Nat /\ pos \in Nat
      /\ \A s \in Sockets : /\ heard[s] \in Seq(1 .. MaxPackets)
                            /\ \A i \in DOMAIN heard[s] : heard[s][i] \in 1 .. MaxPackets
  <2>1. heard \in [Sockets -> Seq(1 .. MaxPackets)] /\ pos \in Nat
    BY DEF Typed, TypeOK
  <2>2. \A s \in Sockets : heard[s] \in Seq(1 .. MaxPackets)
    BY <2>1
  <2>3. \A s \in Sockets : \A i \in DOMAIN heard[s] : heard[s][i] \in 1 .. MaxPackets
    BY <2>2
  <2> QED
    BY <2>1, <2>2, <2>3, DoneTyped
<1>1. CASE Aside
  <2>1. \A s \in Sockets : \A i \in DOMAIN heard[s] : heard[s][i] \in 1 .. Len(log)
    BY <1>0 DEF Told
  <2> QED
    BY <1>1, <2>1 DEF Aside, Told
<1>2. ASSUME NEW s \in Sockets, Join(s) PROVE Told'
  <2>1. pc' = [pc EXCEPT ![s] = "in"] /\ pc \in [Sockets -> {"new", "in", "out"}]
    BY <1>2 DEF Join, Typed, TypeOK
  <2>2. \A t \in Sockets : pc'[t] = "new" => pc[t] = "new"
    BY <2>1
  <2>3. UNCHANGED <<log, calls, heard, Done>>
    BY <1>2 DEF Join, Done
  <2> QED
    BY <2>2, <2>3 DEF Told
<1>3. CASE Broadcast
  <2>1. UNCHANGED <<log, pc, Done>>
    BY <1>3 DEF Broadcast, Done
  <2>2. /\ DOMAIN calls' = 1 .. Len(calls) - 1 /\ DOMAIN calls = 1 .. Len(calls)
        /\ Len(calls) \in Nat \ {0}
        /\ \A i \in DOMAIN calls' : calls'[i] = calls[i + 1]
        /\ \A s \in Sockets :
              heard'[s] = IF s \in calls[1].targets /\ pc[s] = "in"
                          THEN Append(heard[s], calls[1].packet)
                          ELSE heard[s]
    BY <1>3, RunCalls
  <2>3. \A j \in DOMAIN calls' : j + 1 \in DOMAIN calls /\ 1 < j + 1 /\ 1 \in DOMAIN calls
    BY <2>2
  <2>4. /\ 1 \in DOMAIN calls /\ calls[1].packet \in 1 .. MaxPackets /\ calls[1].packet <= Done
        /\ \A j \in DOMAIN calls' : calls[1].packet < calls'[j].packet
    BY <2>2, <2>3, CallsTyped DEF Queued
  <2> SUFFICES ASSUME NEW s \in Sockets
               PROVE  /\ pc[s] = "new" => heard'[s] = <<>>
                      /\ \A i \in DOMAIN heard'[s] :
                            /\ heard'[s][i] <= Done
                            /\ log[heard'[s][i]] = Listens[s]
                            /\ \A j \in DOMAIN calls' : heard'[s][i] < calls'[j].packet
                      /\ \A i, j \in DOMAIN heard'[s] : i < j => heard'[s][i] < heard'[s][j]
    BY <2>1 DEF Told
  <2>5. \A i \in DOMAIN heard[s] : \A j \in DOMAIN calls' : heard[s][i] < calls'[j].packet
    BY <2>2, <2>3 DEF Told
  <2>6. CASE heard'[s] = heard[s]
    BY <2>5, <2>6 DEF Told
  <2>7. CASE s \in calls[1].targets /\ pc[s] = "in"
    <3> DEFINE h == heard[s]
               n == Len(h)
               g == heard'[s]
               q == calls[1].packet
    <3>1. h \in Seq(1 .. MaxPackets) /\ g = Append(h, q)
      BY <1>0, <2>2, <2>7
    <3>2. /\ \A i \in DOMAIN h : h[i] <= Done /\ log[h[i]] = Listens[s] /\ h[i] < q
          /\ \A i, j \in DOMAIN h : i < j => h[i] < h[j]
      BY <2>4 DEF Told
    <3>3. /\ q <= Done /\ log[q] = Listens[s] /\ q \in Nat
          /\ \A j \in DOMAIN calls' : q < calls'[j].packet
      BY <2>4, <2>7 DEF Queued
    <3>4. \A i \in DOMAIN h : \A j \in DOMAIN calls' : h[i] < calls'[j].packet
      BY <2>5
    <3> HIDE DEF h, g, q
    <3>5. /\ DOMAIN g = 1 .. n + 1 /\ DOMAIN h = 1 .. n /\ n \in Nat
          /\ g[n + 1] = q /\ \A i \in 1 .. n : g[i] = h[i]
      BY <3>1
    <3>6. \A i \in DOMAIN g : /\ g[i] <= Done
                              /\ log[g[i]] = Listens[s]
                              /\ \A j \in DOMAIN calls' : g[i] < calls'[j].packet
      <4> HIDE DEF n
      <4> QED
        BY <3>2, <3>3, <3>4, <3>5
    <3>7. \A i, j \in DOMAIN g : i < j => g[i] < g[j]
      <4> HIDE DEF n
      <4> QED
        BY <3>2, <3>5
    <3> QED
      BY <2>7, <3>6, <3>7 DEF g
  <2> QED
    BY <2>2, <2>6, <2>7
<1>4. CASE Send
  <2>1. /\ UNCHANGED <<log, pc, heard>> /\ Done' = pos /\ Done = pos - 1
        /\ listeners[Current] = {} => calls' = calls
    BY <1>4 DEF Send, Done
  <2>2. ASSUME NEW s \in Sockets, NEW i \in DOMAIN heard[s]
        PROVE  /\ heard[s][i] <= pos
               /\ \A j \in DOMAIN calls' : heard[s][i] < calls'[j].packet
    <3>1. heard[s][i] \in Nat /\ heard[s][i] < pos
      BY <1>0, <2>1 DEF Told
    <3>2. CASE listeners[Current] = {}
      BY <1>0, <2>1, <3>1, <3>2 DEF Told
    <3>3. CASE listeners[Current] # {}
      <4>1. /\ DOMAIN calls' = 1 .. Len(calls) + 1 /\ DOMAIN calls = 1 .. Len(calls)
            /\ Len(calls) \in Nat
            /\ \A j \in DOMAIN calls : calls'[j] = calls[j]
            /\ calls'[Len(calls) + 1].packet = pos
        BY <1>4, <3>3, SentCalls
      <4>2. \A j \in DOMAIN calls' : j \in DOMAIN calls \/ j = Len(calls) + 1
        BY <4>1
      <4>3. \A j \in DOMAIN calls : heard[s][i] < calls[j].packet
        BY DEF Told
      <4>4. heard[s][i] <= pos
        BY <1>0, <3>1
      <4> QED
        BY <3>1, <4>1, <4>2, <4>3, <4>4
    <3> QED
      BY <3>2, <3>3
  <2> QED
    BY <2>1, <2>2 DEF Told
<1>5. CASE Finish
  <2>1. UNCHANGED <<log, pc, heard, calls>> /\ Done' = pos /\ Done = pos - 1
    BY <1>5 DEF Finish, Done
  <2>2. \A s \in Sockets : \A i \in DOMAIN heard[s] : heard[s][i] <= pos
    BY <1>0, <2>1 DEF Told
  <2> QED
    BY <2>1, <2>2 DEF Told
<1> QED
  BY <1>1, <1>2, <1>3, <1>4, <1>5, StepKinds

(* What socket s has heard or will hear. *)
Coming(s) == Heard(s) \cup Pending(s)

LEMMA ComingTyped ==
    ASSUME Typed, Queued, Told, NEW s \in Sockets
    PROVE  \A p \in Coming(s) : p \in 1 .. Done
<1>1. heard[s] \in Seq(1 .. MaxPackets) /\ Done \in Nat
  BY DoneTyped DEF Typed, TypeOK
<1>2. \A i \in DOMAIN heard[s] : heard[s][i] \in Nat \ {0} /\ heard[s][i] <= Done
  BY <1>1, LiveAssumption DEF Told
<1>3. \A i \in DOMAIN calls : calls[i].packet \in Nat \ {0} /\ calls[i].packet <= Done
  BY CallsTyped, LiveAssumption DEF Queued
<1> QED
  BY <1>1, <1>2, <1>3 DEF Coming, Heard, Pending

(* Running a call moves its packet from what comes to what was heard.      *)
LEMMA RunMoves ==
    ASSUME Typed, Broadcast, NEW s \in Sockets, pc[s] = "in"
    PROVE  Coming(s)' = Coming(s)
<1>1. /\ DOMAIN calls' = 1 .. Len(calls) - 1 /\ DOMAIN calls = 1 .. Len(calls)
      /\ Len(calls) \in Nat \ {0}
      /\ \A i \in DOMAIN calls' : calls'[i] = calls[i + 1]
      /\ heard'[s] = IF s \in calls[1].targets THEN Append(heard[s], calls[1].packet)
                     ELSE heard[s]
  BY RunCalls
<1>2. 1 \in DOMAIN calls /\ calls[1].packet \in 1 .. MaxPackets
  BY <1>1, CallsTyped
<1>3. Pending(s) = Pending(s)' \cup (IF s \in calls[1].targets THEN {calls[1].packet} ELSE {})
  <2>1. \A i \in DOMAIN calls : i = 1 \/ (i - 1 \in DOMAIN calls' /\ calls'[i - 1] = calls[i])
    BY <1>1
  <2>2. \A i \in DOMAIN calls' : i + 1 \in DOMAIN calls
    BY <1>1
  <2>3. Pending(s)' = {p \in 1 .. MaxPackets :
                          \E i \in DOMAIN calls' : s \in calls'[i].targets /\ calls'[i].packet = p}
    BY DEF Pending
  <2>4. ASSUME NEW p \in Pending(s)
        PROVE  p \in Pending(s)' \/ (s \in calls[1].targets /\ p = calls[1].packet)
    <3>1. PICK i \in DOMAIN calls : s \in calls[i].targets /\ calls[i].packet = p
      BY DEF Pending
    <3> QED
      BY <2>1, <2>3, <3>1 DEF Pending
  <2>5. ASSUME NEW p \in Pending(s)'
        PROVE  p \in Pending(s)
    <3>1. PICK i \in DOMAIN calls' : s \in calls'[i].targets /\ calls'[i].packet = p
      BY <2>3
    <3>2. i + 1 \in DOMAIN calls /\ calls'[i] = calls[i + 1]
      BY <1>1, <2>2
    <3> QED
      BY <2>3, <3>1, <3>2 DEF Pending
  <2>6. s \in calls[1].targets => calls[1].packet \in Pending(s)
    BY <1>2 DEF Pending
  <2> QED
    BY <2>4, <2>5, <2>6
<1>4. Heard(s)' = Heard(s) \cup (IF s \in calls[1].targets THEN {calls[1].packet} ELSE {})
  <2> DEFINE h == heard[s]
             g == heard'[s]
             q == calls[1].packet
  <2>1. h \in Seq(1 .. MaxPackets) /\ Heard(s)' = {g[i] : i \in DOMAIN g}
        /\ Heard(s) = {h[i] : i \in DOMAIN h}
    BY DEF Typed, TypeOK, Heard
  <2>2. CASE s \in calls[1].targets
    <3>1. g = Append(h, q)
      BY <1>1, <2>2
    <3> HIDE DEF h, g, q
    <3>2. /\ DOMAIN g = 1 .. Len(h) + 1 /\ DOMAIN h = 1 .. Len(h) /\ Len(h) \in Nat
          /\ g[Len(h) + 1] = q /\ \A i \in 1 .. Len(h) : g[i] = h[i]
      BY <1>2, <2>1, <3>1
    <3>3. {g[i] : i \in DOMAIN g} = {h[i] : i \in DOMAIN h} \cup {q}
      BY <3>2
    <3> QED
      BY <2>1, <2>2, <3>3 DEF q
  <2>3. CASE s \notin calls[1].targets
    BY <1>1, <2>1, <2>3
  <2> QED
    BY <2>2, <2>3
<1> QED
  BY <1>3, <1>4 DEF Coming

LEMMA CoveredHolds == Ordered /\ Covered /\ [Next]_vars => Covered'
<1> SUFFICES ASSUME Typed, Registered, Queued, Told, Covered, [Next]_vars,
                    NEW s \in Sockets, pc'[s] = "in",
                    NEW f \in Coming(s)', NEW p \in f .. Done', log'[p] = Listens[s]
             PROVE  p \in Coming(s)' \cup skipped'
  BY DEF Ordered, Covered, Coming
<1> USE LiveAssumption
<1>0. /\ Done \in Nat /\ Done <= Len(log) /\ Len(log) \in Nat /\ pos \in Nat
      /\ \A q \in Coming(s) : q \in 1 .. Done
  BY DoneTyped, ComingTyped DEF Typed, TypeOK
<1>1. ASSUME pc[s] = "in", Coming(s)' = Coming(s), Done' = Done, skipped \subseteq skipped',
             \A q \in 1 .. Len(log) : log'[q] = log[q]
      PROVE  p \in Coming(s)' \cup skipped'
  <2>1. f \in Coming(s) /\ p \in f .. Done /\ p \in 1 .. Len(log)
    BY <1>0, <1>1
  <2>2. log[p] = Listens[s]
    BY <1>1, <2>1
  <2> QED
    BY <1>1, <2>1, <2>2 DEF Covered, Coming
<1>2. CASE Aside
  BY <1>1, <1>2 DEF Aside, Coming, Heard, Pending
<1>3. ASSUME NEW t \in Sockets, Join(t) PROVE p \in Coming(s)' \cup skipped'
  <2>1. UNCHANGED <<log, calls, heard, skipped, Done>>
    BY <1>3 DEF Join, Done
  <2>2. Coming(s)' = Coming(s)
    BY <2>1 DEF Coming, Heard, Pending
  <2>3. CASE pc[s] = "in"
    BY <1>1, <2>1, <2>2, <2>3
  <2>4. CASE pc[s] # "in"
    <3>1. pc[s] = "new"
      BY <1>3, <2>4 DEF Join, Typed, TypeOK
    <3>2. heard[s] = <<>> /\ \A i \in DOMAIN calls : s \notin calls[i].targets
      BY <3>1 DEF Queued, Told
    <3>3. Coming(s) = {}
      BY <3>2 DEF Coming, Heard, Pending
    <3> QED
      BY <2>2, <3>3
  <2> QED
    BY <2>3, <2>4
<1>4. CASE Broadcast
  <2>1. UNCHANGED <<log, pc, skipped, Done>>
    BY <1>4 DEF Broadcast, Done
  <2> QED
    BY <1>1, <1>4, <2>1, RunMoves
<1>5. ASSUME work # "poll", UNCHANGED <<log, pc>>, Done' = pos,
             skipped \subseteq skipped',
             Coming(s) \subseteq Coming(s)', Coming(s)' \subseteq Coming(s) \cup {pos},
             log[pos] = Listens[s] => pos \in Coming(s)' \cup skipped'
      PROVE  p \in Coming(s)' \cup skipped'
  <2>1. Done = pos - 1
    BY <1>5 DEF Done
  <2>2. CASE p = pos
    BY <1>5, <2>2
  <2>3. CASE p # pos
    <3>1. f \in Coming(s) /\ p \in f .. Done
      BY <1>0, <1>5, <2>1, <2>3
    <3> QED
      BY <1>5, <3>1 DEF Covered, Coming
  <2> QED
    BY <2>2, <2>3
<1>6. CASE Send
  <2>1. /\ UNCHANGED <<log, pc, heard, skipped>> /\ Done' = pos /\ work # "poll"
        /\ listeners[Current] = {} => calls' = calls
    BY <1>6 DEF Send, Done
  <2>2. s \in listeners[Current] <=> log[pos] = Listens[s]
    BY <2>1, TargetsListen
  <2>3. Heard(s)' = Heard(s)
    BY <2>1 DEF Heard
  <2>4. CASE listeners[Current] = {}
    BY <1>5, <2>1, <2>2, <2>3, <2>4 DEF Coming, Pending
  <2>5. CASE listeners[Current] # {}
    <3>1. /\ DOMAIN calls' = 1 .. Len(calls) + 1 /\ DOMAIN calls = 1 .. Len(calls)
          /\ Len(calls) \in Nat
          /\ \A i \in DOMAIN calls : calls'[i] = calls[i]
          /\ calls'[Len(calls) + 1].packet = pos
          /\ calls'[Len(calls) + 1].targets = listeners[Current]
      BY <1>6, <2>5, SentCalls
    <3>2. \A i \in DOMAIN calls' : i \in DOMAIN calls \/ i = Len(calls) + 1
      BY <3>1
    <3>3. DOMAIN calls \subseteq DOMAIN calls' /\ Len(calls) + 1 \in DOMAIN calls'
      BY <3>1
    <3>4. Pending(s)' = {q \in 1 .. MaxPackets :
                            \E i \in DOMAIN calls' : s \in calls'[i].targets /\ calls'[i].packet = q}
      BY DEF Pending
    <3>5. Pending(s) \subseteq Pending(s)' /\ Pending(s)' \subseteq Pending(s) \cup {pos}
      BY <3>1, <3>2, <3>3, <3>4 DEF Pending
    <3>6. pos \in 1 .. MaxPackets
      BY <2>1, TargetsListen DEF Typed, TypeOK
    <3>7. s \in listeners[Current] => pos \in Pending(s)'
      BY <3>1, <3>3, <3>4, <3>6
    <3> QED
      BY <1>5, <2>1, <2>2, <2>3, <3>5, <3>7 DEF Coming
  <2> QED
    BY <2>4, <2>5
<1>7. CASE Finish
  <2>1. Coming(s)' = Coming(s)
    BY <1>7 DEF Finish, Coming, Heard, Pending
  <2> QED
    BY <1>5, <1>7, <2>1 DEF Finish, Done
<1> QED
  BY <1>2, <1>3, <1>4, <1>6, <1>7, StepKinds

-----------------------------------------------------------------------------
(* What a socket heard of its device's packets, it heard without a gap.    *)
WholeFor(s) ==
    heard[s] # <<>> =>
        \A p \in heard[s][1] .. heard[s][Len(heard[s])] :
            log[p] = Listens[s] => p \in Heard(s) \cup skipped

(* A packet that waits comes after all that was heard. *)
WholeIn == \A s \in Sockets : pc[s] = "in" => WholeFor(s)

LEMMA WholeWhileIn == Ordered /\ Covered => WholeIn
<1> SUFFICES ASSUME Typed, Registered, Queued, Told, Covered,
                    NEW s \in Sockets, pc[s] = "in", heard[s] # <<>>,
                    NEW p \in heard[s][1] .. heard[s][Len(heard[s])], log[p] = Listens[s]
             PROVE  p \in Heard(s) \cup skipped
  BY DEF Ordered, WholeFor, WholeIn
<1> DEFINE h == heard[s]
           n == Len(h)
<1>1. h \in Seq(1 .. MaxPackets) /\ h # <<>> /\ MaxPackets \in Nat
  BY LiveAssumption DEF Typed, TypeOK
<1>2. 1 \in DOMAIN h /\ n \in DOMAIN h /\ h[1] \in Nat /\ h[n] \in Nat
  <2> HIDE DEF h
  <2> QED
    BY <1>1
<1>3. h[n] <= Done /\ Done \in Nat /\ h[1] \in Heard(s)
  BY <1>2, DoneTyped DEF Told, Heard
<1>4. p \in h[1] .. Done
  BY <1>2, <1>3
<1>5. p \in Heard(s) \cup Pending(s) \cup skipped
  BY <1>3, <1>4 DEF Covered
<1>6. p \notin Pending(s)
  <2> SUFFICES ASSUME NEW i \in DOMAIN calls, calls[i].packet = p PROVE FALSE
    BY DEF Pending
  <2>1. h[n] < calls[i].packet
    BY <1>2 DEF Told
  <2> QED
    BY <1>2, <2>1
<1> QED
  BY <1>5, <1>6

LEMMA WholeHolds ==
    Ordered /\ Ordered' /\ Covered' /\ (\A s \in Sockets : WholeFor(s)) /\ [Next]_vars
        => (\A s \in Sockets : WholeFor(s))'
<1> SUFFICES ASSUME Ordered, Ordered', Covered', [Next]_vars,
                    NEW s \in Sockets, WholeFor(s)
             PROVE  WholeFor(s)'
  OBVIOUS
<1>1. CASE pc'[s] = "in"
  <2>1. Ordered' /\ Covered'
    OBVIOUS
  <2>2. WholeIn'
    BY <2>1, WholeWhileIn, PTL
  <2> QED
    BY <1>1, <2>2 DEF WholeIn
<1>2. CASE pc'[s] # "in"
  <2>1. heard'[s] = heard[s]
    <3>1. CASE Broadcast
      BY <1>2, <3>1 DEF Broadcast
    <3>2. CASE ~Broadcast
      BY <3>2 DEF Next, vars, Produce, Join, Leave, FreeDecoder, Poll, Check, GetDecoder,
         Send, Skip
    <3> QED
      BY <3>1, <3>2
  <2>2. skipped \subseteq skipped' /\ \A p \in 1 .. Len(log) : log'[p] = log[p]
    <3>1. CASE \E d \in Devices : Produce(d)
      BY <3>1 DEF Produce, Ordered, Typed, TypeOK
    <3>2. CASE UNCHANGED log /\ skipped \subseteq skipped'
      BY <3>2
    <3> QED
      BY <3>1, <3>2 DEF Next, vars, Produce, Join, Leave, FreeDecoder, Broadcast, Poll, Check,
         GetDecoder, Send, Skip
  <2>3. ASSUME heard[s] # <<>>
        PROVE  heard[s][1] .. heard[s][Len(heard[s])] \subseteq 1 .. Len(log)
    <3> DEFINE h == heard[s]
    <3>1. h \in Seq(1 .. MaxPackets) /\ MaxPackets \in Nat /\ h # <<>>
      BY <2>3, LiveAssumption DEF Ordered, Typed, TypeOK
    <3>2. Typed /\ Told
      BY DEF Ordered
    <3>3. Done \in Nat /\ Done <= Len(log) /\ Len(log) \in Nat
      BY <3>2, DoneTyped
    <3>4. \A i \in DOMAIN h : h[i] <= Done
      BY <3>2 DEF Told
    <3> HIDE DEF h
    <3>5. h[1] \in Nat \ {0} /\ h[Len(h)] \in Nat /\ h[Len(h)] <= Done
      BY <3>1, <3>4
    <3> QED
      BY <3>3, <3>5 DEF h
  <2>4. Heard(s)' = Heard(s)
    BY <2>1 DEF Heard
  <2> QED
    BY <2>1, <2>2, <2>3, <2>4 DEF WholeFor
<1> QED
  BY <1>1, <1>2

(* A listener hears its device and no other, in order and without a gap,   *)
(* whoever else comes and goes.                                            *)
THEOREM GaplessHolds == Spec => []Gapless
<1> DEFINE Whole == \A s \in Sockets : WholeFor(s)
<1>1. Init => Ordered /\ Covered /\ Whole
  <2> SUFFICES ASSUME Init PROVE Ordered /\ Covered /\ Whole
    OBVIOUS
  <2>1. Typed /\ Registered
    BY TypedStarts DEF Init, Registered
  <2>2. \A s \in Sockets : heard[s] = <<>> /\ pc[s] # "in"
    BY DEF Init
  <2>3. Queued /\ Told
    BY <2>2 DEF Init, Queued, Told
  <2> QED
    BY <2>1, <2>2, <2>3 DEF Ordered, Covered, WholeFor
<1>2. Ordered /\ [Next]_vars => Ordered'
  <2>1. Typed /\ [Next]_vars => Typed'
    BY TypedHolds
  <2> QED
    BY <2>1, RegisteredHolds, QueuedHolds, ToldHolds DEF Ordered
<1>3. Ordered /\ Covered /\ Whole /\ [Next]_vars => Covered' /\ Whole'
  BY <1>2, CoveredHolds, WholeHolds
<1>4. Ordered /\ Whole => Gapless
  <2> SUFFICES ASSUME Typed, Told, Whole PROVE Gapless
    BY DEF Ordered
  <2>1. ASSUME NEW s \in Sockets
        PROVE  \A i \in 1 .. Len(heard[s]) - 1 : heard[s][i] < heard[s][i + 1]
    <3>1. heard[s] \in Seq(1 .. MaxPackets)
      BY DEF Typed, TypeOK
    <3>2. \A i \in 1 .. Len(heard[s]) - 1 :
              i \in DOMAIN heard[s] /\ i + 1 \in DOMAIN heard[s] /\ i < i + 1
      BY <3>1
    <3> QED
      BY <3>2 DEF Told
  <2> QED
    BY <2>1 DEF Told, WholeFor, Gapless
<1> QED
  BY <1>1, <1>2, <1>3, <1>4, PTL DEF Spec
=============================================================================
