-------------------------------- MODULE Stats --------------------------------
(***************************************************************************)
(* The status thread: stats_loop of src/main.rs with its HashrateWindow    *)
(* and StatusFields.                                                       *)
(*                                                                         *)
(* spc   top    exit check, then the 1 s sleep   tick   the sleep is over  *)
(*       gate   is there something to say        load   StatusFields       *)
(*       paint  the locked write                 done   returned           *)
(***************************************************************************)
EXTENDS Shared

CONSTANTS
    Slots,      \* HASHRATE_WINDOW_SLOTS, 10 in the code
    Tty,        \* stderr is a terminal
    MaxTicks    \* bound: ticks of the status thread in a behaviour

ASSUME StatsAssumption ==
    /\ Slots \in Nat \ {0}
    /\ Tty \in BOOLEAN
    /\ MaxTicks \in Nat

VARIABLES
    spc,      \* control state of the status thread
    now,      \* seconds since start, as the status thread's clock sees them
    points,   \* the ring of HashratePoints: [at, hashes]
    next,     \* the ring's next slot
    rate_hs,  \* the last published rate: hashes over elapsed seconds
    fields,   \* StatusFields: StatusField -> the push its value came from
    loaded    \* how many of the five loads are done

statsVars == <<spc, now, points, next, rate_hs, fields, loaded>>

Point == [at : Nat, hashes : Nat]

Rate == [hashes : Nat, elapsed : Nat]

StatsPC == {"top", "tick", "gate", "load", "paint", "done"}

\* The order StatusFields::sample loads the counters in.
LoadOrder == <<"our_height", "mini_block_counter", "block_counter", "rejected",
               "difficulty">>

\* HashrateWindow::new fills every slot with the starting point.
StatsInit ==
    /\ spc = "top"
    /\ now = 0
    /\ points = [n \in 0 .. Slots - 1 |-> [at |-> 0, hashes |-> 0]]
    /\ next = 0
    /\ rate_hs = [hashes |-> 0, elapsed |-> 0]
    /\ fields = [f \in StatusField |-> 0]
    /\ loaded = 0

StatsTypeOK ==
    /\ spc \in StatsPC
    /\ now \in Nat
    /\ points \in [0 .. Slots - 1 -> Point]
    /\ next \in 0 .. Slots - 1
    /\ rate_hs \in Rate
    /\ fields \in [StatusField -> Nat]
    /\ loaded \in 0 .. Len(LoadOrder) - 1

StatsTop ==
    /\ spc = "top"
    /\ spc' = IF exit THEN "done" ELSE "tick"
    /\ UNCHANGED <<now, points, next, rate_hs, fields, loaded, sharedVars>>

\* checked_sub: a counter below the old point reports zero.
Delta(hashes, old) == IF hashes >= old.hashes THEN hashes - old.hashes ELSE 0

\* Mutant: the ring index runs off the end.
SampleRateOverrun(at, hashes) ==
    LET old == points[next]
    IN  /\ points' = [points EXCEPT ![next] = [at |-> at, hashes |-> hashes]]
        /\ next' = (next + 1) % (Slots + 1)
        /\ rate_hs' = [hashes |-> Delta(hashes, old), elapsed |-> at - old.at]

\* HashrateWindow::sample and publish_rate_khs.  The slot about to be
\* overwritten is the oldest point.
SampleRate(at, hashes) ==
    LET old == points[next]
    IN  /\ points' = [points EXCEPT ![next] = [at |-> at, hashes |-> hashes]]
        /\ next' = (next + 1) % Slots
        /\ rate_hs' = [hashes |-> Delta(hashes, old), elapsed |-> at - old.at]

\* Mutant: the window only advances on ticks that will be printed.
StatsTickWhenShown ==
    /\ spc = "tick"
    /\ \/ /\ exit
          /\ spc' = "done"
          /\ UNCHANGED <<now, points, next, rate_hs>>
       \/ /\ ~exit
          /\ now < MaxTicks
          /\ now' = now + 1
          /\ IF connected THEN SampleRate(now', counter) ELSE UNCHANGED <<points, next, rate_hs>>
          /\ spc' = IF Tty THEN "gate" ELSE "load"
    /\ UNCHANGED <<fields, loaded, sharedVars>>

\* The sleep ends: exit is checked again, then the window advances, whether or
\* not anything will be printed.
StatsTick ==
    /\ spc = "tick"
    /\ \/ /\ exit
          /\ spc' = "done"
          /\ UNCHANGED <<now, points, next, rate_hs>>
       \/ /\ ~exit
          /\ now < MaxTicks
          /\ now' = now + 1
          /\ SampleRate(now', counter)
          /\ spc' = IF Tty THEN "gate" ELSE "load"
    /\ UNCHANGED <<fields, loaded, sharedVars>>

\* status_row_has_something_to_say
StatsGate ==
    /\ spc = "gate"
    /\ spc' = IF connected /\ job_counter > 0 THEN "load" ELSE "top"
    /\ UNCHANGED <<now, points, next, rate_hs, fields, loaded, sharedVars>>

\* StatusFields::sample: five Relaxed loads, one by one.
LoadFields ==
    /\ spc = "load"
    /\ fields' = [fields EXCEPT ![LoadOrder[loaded + 1]] = mirror[LoadOrder[loaded + 1]]]
    /\ loaded' = (loaded + 1) % Len(LoadOrder)
    /\ spc' = IF loaded' = 0 THEN "paint" ELSE "load"
    /\ UNCHANGED <<now, points, next, rate_hs, sharedVars>>

\* One locked write: the row without a newline on a terminal, else a record.
Paint ==
    /\ spc = "paint"
    /\ spc' = "top"
    /\ row' = (row \/ Tty)
    /\ UNCHANGED <<now, points, next, rate_hs, fields, loaded, jobVars, counter,
                   mirror, exit, connected, channelVars, alive>>

StatsStep == StatsTop \/ StatsTick \/ StatsGate \/ LoadFields \/ Paint

=============================================================================
