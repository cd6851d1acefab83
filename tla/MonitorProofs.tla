---------------------------- MODULE MonitorProofs ----------------------------
(***************************************************************************)
(* Theorems about what the operator sees, for a window of any length and   *)
(* any number of ticks, flushes and outages.                               *)
(***************************************************************************)
EXTENDS Monitor, ThreadProofs, TLAPS

-----------------------------------------------------------------------------
(* Type correctness *)

\* The ring index steps to the next slot or back to the first.
LEMMA RingStep ==
    ASSUME NEW n \in 0 .. Slots - 1
    PROVE  (n + 1) % Slots = IF n + 1 = Slots THEN 0 ELSE n + 1
    BY StatsAssumption

\* A step that leaves the status thread's state alone keeps it typed.
LEMMA StatsSame ==
    ASSUME StatsTypeOK, UNCHANGED statsVars
    PROVE  StatsTypeOK'
    BY DEF StatsTypeOK, statsVars

-----------------------------------------------------------------------------
(* The ring and the samples *)

\* The slot written a ticks ago, the latest tick being one tick ago.
SlotBack(a) == IF next >= a THEN next - a ELSE next - a + Slots

\* The point taken a ticks ago: the starting point when there was no such tick.
PointBack(a) ==
    IF a <= now THEN [at |-> now - a + 1, hashes |-> samples[now - a + 2]]
    ELSE [at |-> 0, hashes |-> 0]

\* One sample per tick, none above the counter, and the ring holds the last
\* Slots points with the oldest in the slot that is written next.  Without it
\* not even the type of rate_hs is preserved: elapsed is a difference of times.
RingInv ==
    /\ samples \in Seq(Nat)
    /\ Len(samples) = now + 1
    /\ samples[1] = 0
    /\ \A n \in 1 .. now + 1 : samples[n] <= counter
    /\ \A a \in 1 .. Slots : points[SlotBack(a)] = PointBack(a)

\* The sample a tick takes reads the point of Slots ticks ago, so it publishes
\* the rate of exactly the window, and it keeps the ring.
LEMMA TickKeepsRing ==
    ASSUME SharedTypeOK, StatsTypeOK, RingInv,
           now' = now + 1, SampleRate(now', counter), UNCHANGED counter,
           samples' = Append(samples, counter)
    PROVE  RingInv' /\ RateExact' /\ points' \in [0 .. Slots - 1 -> Point]
           /\ next' \in 0 .. Slots - 1 /\ rate_hs' \in Rate
    <1> DEFINE old == points[next]
    <1>1. /\ counter \in Nat /\ now \in Nat /\ Slots \in Nat \ {0}
          /\ next \in 0 .. Slots - 1 /\ points \in [0 .. Slots - 1 -> Point]
        BY SharedAssumption, StatsAssumption DEF SharedTypeOK, StatsTypeOK, Nonce
    <1>2. /\ points' = [points EXCEPT ![next] = [at |-> now + 1, hashes |-> counter]]
          /\ next' = IF next + 1 = Slots THEN 0 ELSE next + 1
          /\ rate_hs' = [hashes |-> Delta(counter, old), elapsed |-> now' - old.at]
        <2>1. /\ points' = [points EXCEPT ![next] = [at |-> now', hashes |-> counter]]
              /\ next' = (next + 1) % Slots
              /\ rate_hs' = [hashes |-> Delta(counter, old), elapsed |-> now' - old.at]
            BY DEF SampleRate
        <2>2. next' = IF next + 1 = Slots THEN 0 ELSE next + 1
            BY <1>1, <2>1, RingStep
        <2>4. points' = [points EXCEPT ![next] = [at |-> now + 1, hashes |-> counter]]
            BY <2>1
        <2>. QED  BY <2>1, <2>2, <2>4, Zenon
    <1>3. /\ samples' \in Seq(Nat)
          /\ Len(samples') = now' + 1
          /\ samples'[now + 2] = counter
          /\ \A n \in 1 .. now + 1 : samples'[n] = samples[n]
        BY <1>1 DEF RingInv
    <1>4. old = PointBack(Slots)
        BY <1>1 DEF RingInv, SlotBack
    <1>5. samples'[1] = 0 /\ \A n \in 1 .. now' + 1 : samples'[n] <= counter'
        BY <1>1, <1>3 DEF RingInv
    <1>6. ASSUME NEW a \in 1 .. Slots
          PROVE  points'[SlotBack(a)'] = PointBack(a)'
        <2>1. CASE a = 1
            <3>1. SlotBack(a)' = next
                BY <1>1, <1>2, <2>1 DEF SlotBack
            <3>2. PointBack(a)' = [at |-> now + 1, hashes |-> counter]
                BY <1>1, <1>3, <2>1 DEF PointBack
            <3>. QED  BY <1>1, <1>2, <3>1, <3>2
        <2>2. CASE a > 1
            <3>1. a - 1 \in 1 .. Slots /\ SlotBack(a)' = SlotBack(a - 1)
                BY <1>1, <1>2, <2>2 DEF SlotBack
            <3>2. SlotBack(a - 1) \in 0 .. Slots - 1 /\ SlotBack(a - 1) # next
                BY <1>1, <2>2 DEF SlotBack
            <3>3. PointBack(a)' = PointBack(a - 1)
                <4>1. CASE a <= now + 1
                    <5>1. now + 1 - a + 2 = now - (a - 1) + 2 /\ now + 1 - a + 2 \in 1 .. now + 1
                        BY <1>1, <2>2, <4>1
                    <5>. QED  BY <1>1, <1>3, <2>2, <4>1, <5>1 DEF PointBack
                <4>2. CASE ~(a <= now + 1)
                    BY <1>1, <2>2, <4>2 DEF PointBack
                <4>. QED  BY <4>1, <4>2
            <3>4. points[SlotBack(a - 1)] = PointBack(a - 1)
                BY <3>1 DEF RingInv
            <3>. QED  BY <1>1, <1>2, <3>1, <3>2, <3>3, <3>4
        <2>. QED  BY <1>1, <2>1, <2>2
    <1>7. /\ old.at = Oldest'
          /\ old.hashes = samples'[Oldest' + 1] /\ old.hashes \in Nat
          /\ old.hashes <= counter /\ Oldest' \in 0 .. now
        <2>1. CASE Slots <= now
            <3>1. now - Slots + 2 \in 1 .. now + 1
                BY <1>1, <2>1
            <3>2. old = [at |-> now - Slots + 1, hashes |-> samples[now - Slots + 2]]
                BY <1>4, <2>1 DEF PointBack
            <3>3. Oldest' = now - Slots + 1
                BY <1>1, <2>1 DEF Oldest
            <3>4. samples[now - Slots + 2] \in Nat
                BY <3>1 DEF RingInv
            <3>. QED  BY <1>1, <1>3, <3>1, <3>2, <3>3, <3>4 DEF RingInv
        <2>2. CASE ~(Slots <= now)
            <3>1. old = [at |-> 0, hashes |-> 0]
                BY <1>4, <2>2 DEF PointBack
            <3>2. Oldest' = 0
                BY <1>1, <2>2 DEF Oldest
            <3>. QED  BY <1>1, <1>5, <3>1, <3>2
        <2>. QED  BY <2>1, <2>2
    <1> HIDE DEF old
    <1>8. rate_hs' = [hashes  |-> counter - old.hashes, elapsed |-> now' - old.at]
        BY <1>1, <1>2, <1>7 DEF Delta
    <1>9. RateExact'
        <2>1. samples'[now' + 1] = counter
            BY <1>1, <1>3
        <2>2. rate_hs' = [hashes  |-> samples'[now' + 1] - samples'[Oldest' + 1],
                          elapsed |-> now' - Oldest']
            <3>1. old.at = Oldest' /\ old.hashes = samples'[Oldest' + 1]
                BY <1>7, Zenon
            <3>. QED  BY <1>8, <2>1, <3>1, Zenon
        <2>. QED  BY <2>2, Zenon DEF RateExact
    <1>10. rate_hs' \in Rate
        <2>1. counter - old.hashes \in Nat /\ now' - old.at \in Nat
            <3>1. old.hashes \in Nat /\ old.hashes <= counter /\ old.at \in 0 .. now
                BY <1>7, Zenon
            <3>2. counter \in Nat /\ now \in Nat
                BY <1>1
            <3>. QED  BY <3>1, <3>2
        <2>. QED  BY <1>8, <2>1 DEF Rate
    <1>11. points' \in [0 .. Slots - 1 -> Point]
        BY <1>1, <1>2 DEF Point
    <1>12. next' \in 0 .. Slots - 1
        BY <1>1, <1>2
    <1>. QED  BY <1>3, <1>5, <1>6, <1>9, <1>10, <1>11, <1>12 DEF RingInv

\* Between ticks the counter only grows: ring, samples and rate stay.
LEMMA NoTickKeepsRing ==
    ASSUME SharedTypeOK, SharedTypeOK', StatsTypeOK, RingInv, RateExact,
           counter' >= counter, UNCHANGED <<now, points, next, rate_hs, samples>>
    PROVE  RingInv' /\ RateExact'
    <1>1. counter \in Nat /\ counter' \in Nat
        BY SharedAssumption DEF SharedTypeOK, Nonce
    <1>2. \A n \in 1 .. now' + 1 : samples'[n] <= counter'
        <2> SUFFICES ASSUME NEW n \in 1 .. now + 1  PROVE samples[n] <= counter'
            OBVIOUS
        <2>1. samples[n] \in Nat /\ samples[n] <= counter
            BY DEF RingInv
        <2>. QED  BY <1>1, <2>1
    <1>. QED  BY <1>2 DEF RingInv, SlotBack, PointBack, RateExact, Oldest

-----------------------------------------------------------------------------
(* Every step *)

\* What the published rate, the ring and the types rest on together.
MonitorInv == MonitorTypeOK /\ RingInv /\ RateExact

\* A step of stats_loop other than a tick keeps the types and the window.
LEMMA StatsOther ==
    ASSUME SharedTypeOK, StatsTypeOK, StatsTop \/ StatsGate \/ LoadFields \/ Paint
    PROVE  /\ SharedTypeOK' /\ StatsTypeOK'
           /\ UNCHANGED <<now, points, next, rate_hs, counter>>
    <1> USE DEF StatsPC, jobVars, channelVars
    <1>1. CASE StatsTop \/ StatsGate
        <2>1. spc' \in StatsPC
            BY <1>1, Zenon DEF StatsTop, StatsGate
        <2>2. UNCHANGED <<now, points, next, rate_hs, fields, loaded, sharedVars>>
            BY <1>1, Zenon DEF StatsTop, StatsGate
        <2>. QED  BY <2>1, <2>2, SharedSame DEF StatsTypeOK, sharedVars
    <1>2. CASE LoadFields
        <2>1. UNCHANGED <<now, points, next, rate_hs, sharedVars>>
            BY <1>2 DEF LoadFields
        <2>2. spc' \in StatsPC
            BY <1>2 DEF LoadFields
        <2>3. loaded' \in 0 .. Len(LoadOrder) - 1
            BY <1>2 DEF LoadFields, StatsTypeOK, LoadOrder
        <2>4. LoadOrder[loaded + 1] \in StatusField
            BY DEF StatsTypeOK, LoadOrder, StatusField
        <2>5. fields' \in [StatusField -> Nat]
            <3>1. mirror[LoadOrder[loaded + 1]] \in Nat
                BY <2>4 DEF SharedTypeOK
            <3>2. fields' = [fields EXCEPT ![LoadOrder[loaded + 1]] = mirror[LoadOrder[loaded + 1]]]
                BY <1>2 DEF LoadFields
            <3>. QED  BY <2>4, <3>1, <3>2 DEF StatsTypeOK
        <2>. QED  BY <2>1, <2>2, <2>3, <2>5, SharedSame DEF StatsTypeOK, sharedVars
    <1>3. CASE Paint
        <2>1. UNCHANGED <<now, points, next, rate_hs, fields, loaded, jobVars, counter,
                          mirror, exit, connected, channelVars, alive>>
            BY <1>3 DEF Paint
        <2>2. row' \in BOOLEAN /\ spc' \in StatsPC
            BY <1>3, Zenon DEF Paint
        <2>. QED  BY <2>1, <2>2 DEF SharedTypeOK, StatsTypeOK
    <1>. QED  BY <1>1, <1>2, <1>3

\* A step of the status thread keeps the invariant: a tick through the ring.
LEMMA StatsKeeps ==
    ASSUME MonitorInv, StatsStep, UNCHANGED <<getworkVars, cpc>>,
           samples' = IF now' = now THEN samples ELSE Append(samples, counter)
    PROVE  MonitorInv'
    <1> USE DEF MonitorInv, MonitorTypeOK
    <1>1. GetWorkTypeOK' /\ CommandTypeOK'
        BY GetWorkSame, CommandSame
    <1>2. CASE StatsTop \/ StatsGate \/ LoadFields \/ Paint
        <2>1. /\ SharedTypeOK' /\ StatsTypeOK'
              /\ UNCHANGED <<now, points, next, rate_hs, counter>>
            BY <1>2, StatsOther
        <2>2. counter' >= counter
            BY <2>1, SharedAssumption DEF SharedTypeOK, Nonce
        <2>3. UNCHANGED samples
            BY <2>1
        <2>. QED  BY <1>1, <2>1, <2>2, <2>3, NoTickKeepsRing
    <1>3. CASE StatsTick
        <2>1. spc' \in StatsPC
            BY <1>3, Zenon DEF StatsTick, StatsPC
        <2>2. UNCHANGED <<fields, loaded, sharedVars>>
            BY <1>3 DEF StatsTick
        <2>3. SharedTypeOK' /\ UNCHANGED counter
            BY <2>2, SharedSame DEF sharedVars
        <2>4. CASE UNCHANGED <<now, points, next, rate_hs>>
            <3>1. StatsTypeOK'
                BY <2>1, <2>2, <2>4 DEF StatsTypeOK
            <3>2. counter' >= counter
                BY <2>3, SharedAssumption DEF SharedTypeOK, Nonce
            <3>. QED  BY <1>1, <2>3, <2>4, <3>1, <3>2, NoTickKeepsRing
        <2>5. CASE now' = now + 1 /\ SampleRate(now', counter)
            <3>1. samples' = Append(samples, counter)
                BY <2>5 DEF StatsTypeOK
            <3>2. /\ RingInv' /\ RateExact' /\ points' \in [0 .. Slots - 1 -> Point]
                  /\ next' \in 0 .. Slots - 1 /\ rate_hs' \in Rate
                BY <2>3, <2>5, <3>1, TickKeepsRing
            <3>3. now' \in Nat
                BY <2>5 DEF StatsTypeOK
            <3>4. StatsTypeOK'
                BY <2>1, <2>2, <3>2, <3>3 DEF StatsTypeOK
            <3>. QED  BY <1>1, <2>3, <3>2, <3>4
        <2>. QED  BY <1>3, <2>4, <2>5 DEF StatsTick
    <1>. QED  BY <1>2, <1>3 DEF StatsStep

\* The other threads leave the window alone, and only a flush moves the counter.
LEMMA OthersKeep ==
    ASSUME MonitorInv, SharedTypeOK', GetWorkTypeOK', CommandTypeOK', counter' >= counter,
           UNCHANGED <<statsVars, samples>>
    PROVE  MonitorInv'
    <1>1. UNCHANGED <<now, points, next, rate_hs, samples>>
        BY DEF statsVars
    <1>2. RingInv' /\ RateExact'
        BY <1>1, NoTickKeepsRing DEF MonitorInv, MonitorTypeOK
    <1>. QED  BY <1>2, StatsSame DEF MonitorInv, MonitorTypeOK

\* Neither the connection thread nor the command loop counts hashes.
LEMMA CounterKept ==
    ASSUME SharedTypeOK, GetWorkStep \/ CommandStep
    PROVE  counter' >= counter
    <1>1. UNCHANGED counter
        BY DEF GetWorkStep, Reconnect, DialOk, DialFail, RetrySleep, Connected, Drain,
               SessionLoop, SubmitShare, SubmitDone, ReadNothing, ReadPush, ApplyJob,
               MirrorStatus, CommandStep, Quit, RestoreTerminal, ProcessExit, StdinError,
               StdinEof, Parked, sharedVars
    <1>. QED  BY <1>1, SharedAssumption DEF SharedTypeOK, Nonce

\* The invariant holds in every reachable state.
LEMMA MonitorInvariant == MonitorSpec => []MonitorInv
    <1>1. MonitorInit => MonitorInv
        <2> SUFFICES ASSUME MonitorInit PROVE MonitorInv
            OBVIOUS
        <2>1. SharedTypeOK
            <3>1. job \in Push /\ counter \in Nonce
                BY SharedAssumption DEF MonitorInit, SharedInit, Push, Templates, Nonce
            <3>2. queue \in Seq(Share) /\ mirror \in [StatusField -> Nat] /\ job_counter \in Nat
                BY DEF MonitorInit, SharedInit
            <3>3. /\ exit \in BOOLEAN /\ connected \in BOOLEAN /\ rx_open \in BOOLEAN
                  /\ row \in BOOLEAN /\ alive \in BOOLEAN
                BY DEF MonitorInit, SharedInit
            <3>. QED  BY <3>1, <3>2, <3>3 DEF SharedTypeOK
        <2>2. GetWorkTypeOK /\ CommandTypeOK
            BY SharedAssumption
            DEF MonitorInit, GetWorkInit, GetWorkTypeOK, GetWorkPC, Templates, StatusOrder,
                CommandInit, CommandTypeOK, CommandPC
        <2>3. StatsTypeOK
            BY StatsAssumption
            DEF MonitorInit, StatsInit, StatsTypeOK, StatsPC, Point, Rate, LoadOrder
        <2>4. RingInv
            <3>1. /\ samples = <<0>> /\ now = 0 /\ counter = 0 /\ next = 0
                  /\ points = [n \in 0 .. Slots - 1 |-> [at |-> 0, hashes |-> 0]]
                BY DEF MonitorInit, SharedInit, StatsInit
            <3>2. ASSUME NEW a \in 1 .. Slots
                  PROVE  points[SlotBack(a)] = PointBack(a)
                BY <3>1, StatsAssumption DEF SlotBack, PointBack
            <3>3. /\ samples \in Seq(Nat) /\ Len(samples) = now + 1 /\ samples[1] = 0
                  /\ \A n \in 1 .. now + 1 : samples[n] <= counter
                BY <3>1
            <3>. QED  BY <3>2, <3>3 DEF RingInv
        <2>5. RateExact
            BY DEF MonitorInit, StatsInit, RateExact
        <2>. QED  BY <2>1, <2>2, <2>3, <2>4, <2>5 DEF MonitorInv, MonitorTypeOK
    <1>2. MonitorInv /\ [MonitorNext]_monitorVars => MonitorInv'
        <2> SUFFICES ASSUME MonitorInv, [MonitorNext]_monitorVars PROVE MonitorInv'
            OBVIOUS
        <2> USE DEF MonitorInv, MonitorTypeOK
        <2>1. CASE MonitorNext
            <3>1. samples' = IF now' = now THEN samples ELSE Append(samples, counter)
                BY <2>1 DEF MonitorNext
            <3>2. CASE StatsShown
                BY <3>1, <3>2, StatsKeeps DEF StatsShown
            <3>3. CASE GetWorkShown
                <4>1. GetWorkStep /\ UNCHANGED <<cpc, statsVars>>
                    BY <3>3 DEF GetWorkShown
                <4>2. UNCHANGED samples
                    BY <3>1, <4>1 DEF statsVars
                <4>. QED  BY <4>1, <4>2, GetWorkTypes, CommandSame, CounterKept, OthersKeep
            <3>4. CASE CommandShown
                <4>1. CommandStep /\ UNCHANGED <<getworkVars, statsVars>>
                    BY <3>4 DEF CommandShown
                <4>2. UNCHANGED samples
                    BY <3>1, <4>1 DEF statsVars
                <4>. QED  BY <4>1, <4>2, CommandTypes, GetWorkSame, CounterKept, OthersKeep
            <3>5. CASE WorkersFlush
                <4>1. /\ counter < MaxHashes /\ counter' = counter + 1
                      /\ UNCHANGED <<jobVars, mirror, exit, connected, channelVars, row, alive>>
                      /\ UNCHANGED <<getworkVars, cpc, statsVars>>
                    BY <3>5 DEF WorkersFlush
                <4>2. UNCHANGED samples
                    BY <3>1, <4>1 DEF statsVars
                <4>3. counter' \in Nonce /\ counter' >= counter
                    BY <4>1, SharedAssumption, MonitorAssumption DEF SharedTypeOK, Nonce
                <4>4. SharedTypeOK'
                    BY <4>1, <4>3 DEF SharedTypeOK, jobVars, channelVars
                <4>. QED  BY <4>1, <4>2, <4>3, <4>4, GetWorkSame, CommandSame, OthersKeep
            <3>6. CASE UNCHANGED <<sharedVars, getworkVars, cpc, statsVars>>
                <4>1. UNCHANGED samples /\ counter' >= counter
                    BY <3>1, <3>6, SharedAssumption DEF statsVars, sharedVars, SharedTypeOK, Nonce
                <4>. QED  BY <3>6, <4>1, SharedSame, GetWorkSame, CommandSame, OthersKeep
            <3>. QED  BY <2>1, <3>2, <3>3, <3>4, <3>5, <3>6 DEF MonitorNext
        <2>2. CASE UNCHANGED monitorVars
            <3>1. /\ UNCHANGED <<sharedVars, getworkVars, cpc, statsVars, samples>>
                  /\ counter' >= counter
                BY <2>2, SharedAssumption DEF monitorVars, sharedVars, SharedTypeOK, Nonce
            <3>. QED  BY <3>1, SharedSame, GetWorkSame, CommandSame, OthersKeep
        <2>. QED  BY <2>1, <2>2
    <1>. QED  BY <1>1, <1>2, PTL DEF MonitorSpec

\* The status thread, the connection thread and the command loop keep the types
\* of everything they share; with it that a tick never computes a negative
\* elapsed time.
THEOREM MonitorTypeCorrect == MonitorSpec => []MonitorTypeOK
    <1>1. MonitorInv => MonitorTypeOK
        BY DEF MonitorInv
    <1>. QED  BY <1>1, MonitorInvariant, PTL

\* HashrateWindow is exact: for a window of any number of slots the rate that
\* is published is the hashes flushed during the last Slots ticks, or since the
\* start, over the time between, through wrap-arounds of the ring and outages.
THEOREM RateIsExact == MonitorSpec => []RateExact
    <1>1. MonitorInv => RateExact
        BY DEF MonitorInv
    <1>. QED  BY <1>1, MonitorInvariant, PTL

=============================================================================
